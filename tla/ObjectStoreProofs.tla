------------------------- MODULE ObjectStoreProofs -------------------------
(***************************************************************************)
(* Proofs that ObjectStore keeps the map, the heap, the scene nodes, the   *)
(* slots and the factories consistent, for every set of names, tags and    *)
(* addresses; at the end, that it implements Registry.                     *)
(*                                                                         *)
(* The conjuncts of IInv are inductive together: freeing an object leaves  *)
(* the other objects' slots alone because no component has two owners,     *)
(* closing frees every object because the map has them all, and the camera *)
(* factory ignores physics components because it lists cameras only.       *)
(***************************************************************************)
EXTENDS ObjectStore, TLAPS

IInv ==
    /\ TypeOK
    /\ MapMatchesHeap
    /\ NodesMatchMap
    /\ AddNeverRefuses
    /\ SlotsOwnComponents
    /\ FactoriesListLive
    /\ AnimationFlagHolds

-----------------------------------------------------------------------------
(***************************************************************************)
(* What the heap holds.                                                    *)
(***************************************************************************)
\* An object that is not freed is a GameObject record.
LEMMA LiveObject ==
    ASSUME TypeOK, NEW g \in Live
    PROVE  /\ object[g] \in GameObject
           /\ object[g].mName \in Names
           /\ object[g].mTag \in Tags
           /\ object[g].mAnimation \in BOOLEAN
           /\ object[g].mComponents \in [Slots -> Comps \cup {NULL}]
BY DEF TypeOK, Live, GameObject

\* A component that is not freed is a Component record.
LEMMA LiveComponent ==
    ASSUME TypeOK, NEW c \in LiveComps
    PROVE  /\ component[c] \in Component
           /\ component[c].type \in Slots
           /\ component[c].mOwner \in Objects
           /\ component[c].mEnable \in BOOLEAN
           /\ component[c].mEntity \in BOOLEAN
BY DEF TypeOK, LiveComps, Component

\* Records of the two types are not the content of a freed address.
LEMMA FreedIsNoRecord ==
    /\ Freed \notin GameObject
    /\ Freed \notin Component
BY StoreAssumption DEF GameObject, Component

\* What the destructors delete, and what they take out of a factory's vector.
LEMMA InSlotsOf ==
    ASSUME TypeOK, NEW gone \in SUBSET Live, NEW slots \in SUBSET Slots, NEW c
    PROVE  c \in InSlots(gone, slots) <=>
             /\ c # NULL
             /\ \E g \in gone, t \in slots : object[g].mComponents[t] = c
BY DEF InSlots

-----------------------------------------------------------------------------
(***************************************************************************)
(* Destroying a set of objects.                                            *)
(***************************************************************************)
LEMMA FreeTypes ==
    ASSUME TypeOK, NEW gone \in SUBSET Live, Free(gone)
    PROVE  /\ object' \in [Objects -> GameObject \cup {Freed}]
           /\ component' \in [Comps -> Component \cup {Freed}]
           /\ msInstances' \in [Slots -> [Comps -> Nat]]
           /\ Live' = Live \ gone
           /\ LiveComps' = LiveComps \ Deleted(gone)
           /\ \A g \in Live' : object'[g] = object[g]
           /\ \A c \in LiveComps' : component'[c] = component[c]
<1>1. object' \in [Objects -> GameObject \cup {Freed}]
  BY DEF TypeOK, Free
<1>2. component' \in [Comps -> Component \cup {Freed}]
  BY DEF TypeOK, Free
<1>3. \A t \in Slots, c \in Comps : EntriesAfter(gone, t, c) \in Nat
  <2> SUFFICES ASSUME NEW t \in Slots, NEW c \in Comps
               PROVE  EntriesAfter(gone, t, c) \in Nat
    OBVIOUS
  <2>1. msInstances[t][c] \in Nat
    BY DEF TypeOK
  <2> QED BY <2>1 DEF EntriesAfter
<1>4. msInstances' \in [Slots -> [Comps -> Nat]]
  BY <1>3 DEF Free
<1>5. Live' = Live \ gone /\ \A g \in Live' : object'[g] = object[g]
  BY DEF Free, Live
<1>6. LiveComps' = LiveComps \ Deleted(gone) /\ \A c \in LiveComps' : component'[c] = component[c]
  BY DEF Free, LiveComps
<1> QED BY <1>1, <1>2, <1>4, <1>5, <1>6

\* The slots of the objects that stay still hold what they held.
LEMMA FreeKeepsSlots ==
    ASSUME TypeOK, SlotsOwnComponents, NEW gone \in SUBSET Live, Free(gone)
    PROVE  SlotsOwnComponents'
<1> USE FreeTypes
<1> SUFFICES ASSUME NEW g \in Live', NEW t \in Slots, object'[g].mComponents[t] # NULL
             PROVE  /\ object'[g].mComponents[t] \in LiveComps'
                    /\ component'[object'[g].mComponents[t]].type = t
                    /\ component'[object'[g].mComponents[t]].mOwner = g
  BY DEF SlotsOwnComponents
<1> DEFINE c == object[g].mComponents[t]
<1>1. g \in Live /\ g \notin gone /\ object'[g] = object[g]
  OBVIOUS
<1>2. c \in LiveComps /\ component[c].type = t /\ component[c].mOwner = g
  BY <1>1 DEF SlotsOwnComponents
<1>3. c \notin Deleted(gone)
  <2> SUFFICES ASSUME c \in Deleted(gone) PROVE FALSE
    OBVIOUS
  <2>1. PICK h \in gone, s \in Slots : object[h].mComponents[s] = c
    BY DEF Deleted, InSlots
  <2>2. component[c].mOwner = h
    BY <2>1, <1>1 DEF SlotsOwnComponents
  <2> QED BY <1>1, <1>2, <2>2
<1>4. c \in LiveComps' /\ component'[c] = component[c]
  BY <1>2, <1>3
<1> QED BY <1>1, <1>2, <1>4

\* The factories lose the components that die, and no other.
LEMMA FreeKeepsFactories ==
    ASSUME TypeOK, SlotsOwnComponents, FactoriesListLive, NEW gone \in SUBSET Live, Free(gone)
    PROVE  FactoriesListLive'
<1> SUFFICES ASSUME NEW t \in Slots \ {"PHYSICS"}, NEW c \in Comps
             PROVE  msInstances'[t][c] = IF c \in LiveComps' /\ component'[c].type = t THEN 1 ELSE 0
  BY DEF FactoriesListLive
<1>1. msInstances'[t][c] = EntriesAfter(gone, t, c)
  BY DEF Free
<1>2. msInstances[t][c] = IF c \in LiveComps /\ component[c].type = t THEN 1 ELSE 0
  BY DEF FactoriesListLive
<1>3. c \in LiveComps' <=> c \in LiveComps /\ c \notin Deleted(gone)
  BY FreeTypes
<1>4. CASE c \in LiveComps /\ component[c].type = t
  <2>1. c \in Deleted(gone) <=> c \in Deallocated(gone, t)
    <3>1. ASSUME c \in Deleted(gone) PROVE c \in Deallocated(gone, t)
      <4>1. PICK g \in gone, s \in Slots : object[g].mComponents[s] = c /\ c # NULL
        BY <3>1 DEF Deleted, InSlots
      <4>2. s = t
        BY <4>1, <1>4 DEF SlotsOwnComponents
      <4> QED BY <4>1, <4>2 DEF Deallocated, InSlots, DeallocatesIn
    <3>2. ASSUME c \in Deallocated(gone, t) PROVE c \in Deleted(gone)
      BY <3>2 DEF Deallocated, Deleted, InSlots
    <3> QED BY <3>1, <3>2
  <2>2. msInstances[t][c] = 1
    BY <1>2, <1>4
  <2>3. EntriesAfter(gone, t, c) = IF c \in Deleted(gone) THEN 0 ELSE 1
    BY <2>1, <2>2 DEF EntriesAfter
  <2>4. c \notin Deleted(gone) => component'[c] = component[c]
    BY DEF Free
  <2> QED BY <1>1, <1>3, <1>4, <2>3, <2>4
<1>5. CASE ~(c \in LiveComps /\ component[c].type = t)
  <2>1. msInstances[t][c] = 0
    BY <1>2, <1>5
  <2>2. EntriesAfter(gone, t, c) = 0
    BY <2>1 DEF EntriesAfter
  <2>3. c \in LiveComps' => component'[c] = component[c]
    BY FreeTypes
  <2> QED BY <1>1, <1>3, <1>5, <2>2, <2>3
<1> QED BY <1>4, <1>5

-----------------------------------------------------------------------------
\* The part that removeGameObject and removeGameObjectByTag share.
LEMMA RemovalKeepsInvariant ==
    ASSUME StoreAssumption, IInv, NEW gone \in SUBSET Live,
           Free(gone), Release(gone), Erase(gone), status' = status
    PROVE  IInv'
<1> USE DEF IInv
<1> USE FreeTypes
<1>1. TypeOK'
  BY DEF TypeOK, Release, Erase
<1>2. MapMatchesHeap'
  <2>1. ASSUME NEW n \in Names, mObjects'[n] # NULL
        PROVE  mObjects'[n] \in Live' /\ object'[mObjects'[n]].mName = n
    <3>1. mObjects'[n] = mObjects[n] /\ mObjects[n] \notin gone
      BY <2>1 DEF Erase
    <3> QED BY <2>1, <3>1 DEF MapMatchesHeap
  <2>2. ASSUME NEW g \in Live'
        PROVE  mObjects'[object'[g].mName] = g
    <3>1. g \in Live /\ g \notin gone /\ object'[g] = object[g]
      OBVIOUS
    <3>2. object[g].mName \in Names /\ mObjects[object[g].mName] = g
      BY <3>1, LiveObject DEF MapMatchesHeap
    <3> QED BY <3>1, <3>2 DEF Erase
  <2> QED BY <2>1, <2>2 DEF MapMatchesHeap
<1>3. NodesMatchMap'
  BY DEF NodesMatchMap, Release, Erase
<1>4. AddNeverRefuses'
  BY DEF AddNeverRefuses
<1>5. SlotsOwnComponents'
  BY FreeKeepsSlots
<1>6. FactoriesListLive'
  BY FreeKeepsFactories
<1>7. AnimationFlagHolds'
  <2> SUFFICES ASSUME NEW g \in Live', object'[g].mAnimation
               PROVE  animations'[object'[g].mName] = "live"
    BY DEF AnimationFlagHolds
  <2>1. g \in Live /\ g \notin gone /\ object'[g] = object[g]
    OBVIOUS
  <2>2. object[g].mName \in Names /\ nodes[object[g].mName] = g
    BY <2>1, LiveObject DEF MapMatchesHeap, NodesMatchMap
  <2>3. animations[object[g].mName] = "live"
    BY <2>1 DEF AnimationFlagHolds
  <2> QED BY <2>1, <2>2, <2>3 DEF Release
<1> QED BY <1>1, <1>2, <1>3, <1>4, <1>5, <1>6, <1>7

LEMMA CloseKeepsInvariant ==
    ASSUME StoreAssumption, IInv, close
    PROVE  IInv'
<1> DEFINE gone == {mObjects[n] : n \in Names} \ {NULL}
<1> USE DEF IInv
<1>1. gone \in SUBSET Live /\ Live \subseteq gone
  <2>1. \A n \in Names : mObjects[n] # NULL => mObjects[n] \in Live
    BY DEF MapMatchesHeap
  <2>2. \A g \in Live : g # NULL /\ object[g].mName \in Names /\ mObjects[object[g].mName] = g
    BY LiveObject, StoreAssumption DEF MapMatchesHeap, Live
  <2> QED BY <2>1, <2>2
<1>2. Free(gone)
  BY DEF close
<1> HIDE DEF gone
<1>3. Live' = {}
  BY <1>1, <1>2, FreeTypes
<1>4. TypeOK'
  <2>1. /\ object' \in [Objects -> GameObject \cup {Freed}]
        /\ component' \in [Comps -> Component \cup {Freed}]
        /\ msInstances' \in [Slots -> [Comps -> Nat]]
    BY <1>1, <1>2, FreeTypes
  <2> QED BY <2>1 DEF TypeOK, close
<1>5. MapMatchesHeap' /\ NodesMatchMap' /\ AddNeverRefuses'
  BY <1>3 DEF MapMatchesHeap, NodesMatchMap, AddNeverRefuses, close
<1>6. SlotsOwnComponents' /\ AnimationFlagHolds'
  BY <1>3 DEF SlotsOwnComponents, AnimationFlagHolds
<1>7. FactoriesListLive'
  BY <1>1, <1>2, FreeKeepsFactories
<1> QED BY <1>4, <1>5, <1>6, <1>7

-----------------------------------------------------------------------------
\* Steps that only change the status: exceptions thrown before anything is done.
LEMMA StatusKeepsInvariant ==
    ASSUME IInv, UNCHANGED <<mObjects, object, component, msInstances, scene>>,
           status' \in (Exceptions \ {"object name taken"}) \cup {"running", "closed", "undefined"}
    PROVE  IInv'
<1> USE DEF IInv, scene
<1>1. TypeOK'
  BY DEF TypeOK
<1>2. Live' = Live /\ LiveComps' = LiveComps
  BY DEF Live, LiveComps
<1>3. MapMatchesHeap' /\ NodesMatchMap' /\ AddNeverRefuses'
  BY <1>2 DEF MapMatchesHeap, NodesMatchMap, AddNeverRefuses
<1>4. SlotsOwnComponents'
  BY <1>2 DEF SlotsOwnComponents
<1>5. FactoriesListLive'
  BY <1>2 DEF FactoriesListLive
<1>6. AnimationFlagHolds'
  BY <1>2 DEF AnimationFlagHolds
<1> QED BY <1>1, <1>3, <1>4, <1>5, <1>6

-----------------------------------------------------------------------------
(***************************************************************************)
(* Creating.                                                               *)
(***************************************************************************)
LEMMA CreateKeepsInvariant ==
    ASSUME StoreAssumption, IInv,
           NEW n \in Names, NEW tag \in Tags, NEW g \in Objects, createGameObject(n, tag, g)
    PROVE  IInv'
<1> USE DEF IInv
<1>1. CASE nodes[n] # NULL
  <2>1. /\ UNCHANGED <<mObjects, object, component, msInstances, scene>>
        /\ status' = "node name taken"
    BY <1>1 DEF createGameObject, scene
  <2> QED BY <2>1, StatusKeepsInvariant DEF Exceptions
<1>2. CASE nodes[n] = NULL
  <2>1. mObjects[n] = NULL
    BY <1>2 DEF NodesMatchMap
  <2>2. /\ object' = [object EXCEPT ![g] = NewGameObject(n, tag)]
        /\ mObjects' = [mObjects EXCEPT ![n] = g]
        /\ nodes' = [nodes EXCEPT ![n] = g]
        /\ status' = status
        /\ UNCHANGED <<component, msInstances, entities, cameras, animations>>
    BY <1>2, <2>1 DEF createGameObject
  <2>3. NewGameObject(n, tag) \in GameObject
    BY DEF NewGameObject, GameObject
  <2>4. object[g] = Freed /\ g \notin Live
    BY DEF createGameObject, Live
  <2>5. /\ object'[g] = NewGameObject(n, tag)
        /\ \A h \in Objects \ {g} : object'[h] = object[h]
        /\ object' \in [Objects -> GameObject \cup {Freed}]
    BY <2>2, <2>3 DEF TypeOK
  <2>6. Live' = Live \cup {g} /\ LiveComps' = LiveComps
    BY <2>2, <2>3, <2>5, FreedIsNoRecord DEF Live, LiveComps
  <2>7. TypeOK'
    BY <2>2, <2>5 DEF TypeOK
  <2>8. MapMatchesHeap'
    <3>1. object'[g].mName = n
      BY <2>5 DEF NewGameObject
    <3>2. \A h \in Live : h # g /\ object'[h] = object[h]
      BY <2>4, <2>5 DEF Live
    <3>3. \A h \in Live : object[h].mName \in Names /\ object[h].mName # n
      BY <2>1, LiveObject, StoreAssumption DEF MapMatchesHeap, Live
    <3>4. mObjects' \in [Names -> Objects \cup {NULL}]
      BY <2>7 DEF TypeOK
    <3>5. mObjects'[n] = g /\ \A m \in Names \ {n} : mObjects'[m] = mObjects[m]
      BY <2>2 DEF TypeOK
    <3>6. ASSUME NEW m \in Names, mObjects'[m] # NULL
          PROVE  mObjects'[m] \in Live' /\ object'[mObjects'[m]].mName = m
      <4>1. CASE m = n
        BY <4>1, <3>1, <3>5, <2>6
      <4>2. CASE m # n
        <5>1. mObjects'[m] = mObjects[m] /\ mObjects[m] \in Live /\ object[mObjects[m]].mName = m
          BY <3>5, <3>6, <4>2 DEF MapMatchesHeap
        <5> QED BY <5>1, <3>2, <2>6
      <4> QED BY <4>1, <4>2
    <3>7. ASSUME NEW h \in Live'
          PROVE  mObjects'[object'[h].mName] = h
      <4>1. CASE h = g
        BY <4>1, <3>1, <3>5
      <4>2. CASE h \in Live
        BY <4>2, <3>2, <3>3, <3>5 DEF MapMatchesHeap
      <4> QED BY <4>1, <4>2, <2>6
    <3> QED BY <3>6, <3>7 DEF MapMatchesHeap
  <2>9. NodesMatchMap' /\ AddNeverRefuses'
    BY <2>2 DEF NodesMatchMap, AddNeverRefuses
  <2>10. SlotsOwnComponents'
    <3> SUFFICES ASSUME NEW h \in Live', NEW t \in Slots, object'[h].mComponents[t] # NULL
                 PROVE  /\ object'[h].mComponents[t] \in LiveComps'
                        /\ component'[object'[h].mComponents[t]].type = t
                        /\ component'[object'[h].mComponents[t]].mOwner = h
      BY DEF SlotsOwnComponents
    <3>1. h # g
      BY <2>5 DEF NewGameObject
    <3>2. h \in Live /\ object'[h] = object[h]
      BY <3>1, <2>5, <2>6 DEF Live
    <3> QED BY <3>2, <2>2, <2>6 DEF SlotsOwnComponents
  <2>11. FactoriesListLive'
    BY <2>2, <2>6 DEF FactoriesListLive
  <2>12. AnimationFlagHolds'
    <3> SUFFICES ASSUME NEW h \in Live', object'[h].mAnimation
                 PROVE  animations'[object'[h].mName] = "live"
      BY DEF AnimationFlagHolds
    <3>1. h # g
      BY <2>5 DEF NewGameObject
    <3>2. h \in Live /\ object'[h] = object[h]
      BY <3>1, <2>5, <2>6 DEF Live
    <3> QED BY <3>2, <2>2 DEF AnimationFlagHolds
  <2> QED BY <2>7, <2>8, <2>9, <2>10, <2>11, <2>12
<1> QED BY <1>1, <1>2

-----------------------------------------------------------------------------
(***************************************************************************)
(* Components.                                                             *)
(***************************************************************************)
\* allocate changes one slot of one object and one component.
LEMMA AllocateResult ==
    ASSUME StoreAssumption, TypeOK,
           NEW g \in Live, NEW t \in Slots, NEW c \in Comps, allocate(g, t, c)
    PROVE  /\ object' \in [Objects -> GameObject \cup {Freed}]
           /\ component' \in [Comps -> Component \cup {Freed}]
           /\ msInstances' \in [Slots -> [Comps -> Nat]]
           /\ Live' = Live
           /\ c \notin LiveComps
           /\ LiveComps' = LiveComps \cup {c}
           /\ \A h \in Objects : h # g => object'[h] = object[h]
           /\ object'[g].mName = object[g].mName
           /\ object'[g].mAnimation = object[g].mAnimation
           /\ object'[g].mComponents[t] = c
           /\ \A s \in Slots : s # t => object'[g].mComponents[s] = object[g].mComponents[s]
           /\ component'[c].type = t /\ component'[c].mOwner = g
           /\ \A e \in LiveComps : component'[e] = component[e]
           /\ \A s \in Slots, e \in Comps :
                 msInstances'[s][e] = IF s = t /\ e = c THEN msInstances[s][e] + 1 ELSE msInstances[s][e]
<1> DEFINE new == [type |-> t, mOwner |-> g, mEnable |-> TRUE, mEntity |-> FALSE]
           slots == [object[g].mComponents EXCEPT ![t] = c]
           obj == [object[g] EXCEPT !.mComponents = slots]
<1>1. g \in Objects /\ object[g] \in GameObject
  BY LiveObject DEF Live
<1>2. new \in Component
  BY <1>1 DEF Component
<1>3. component[c] = Freed /\ component' = [component EXCEPT ![c] = new]
  BY DEF allocate
<1>4. /\ component' \in [Comps -> Component \cup {Freed}]
      /\ component'[c] = new
      /\ \A e \in Comps : e # c => component'[e] = component[e]
  BY <1>2, <1>3 DEF TypeOK
<1>5. /\ c \notin LiveComps
      /\ LiveComps' = LiveComps \cup {c}
      /\ \A e \in LiveComps : component'[e] = component[e]
  BY <1>2, <1>3, <1>4, FreedIsNoRecord DEF LiveComps
<1>6. object' = [object EXCEPT ![g] = obj]
  BY <1>1 DEF allocate, SlotOf, GameObject
<1>7. slots \in [Slots -> Comps \cup {NULL}]
  BY <1>1 DEF GameObject
<1>8. obj \in GameObject
  BY <1>1, <1>7 DEF GameObject
<1>9. /\ obj.mName = object[g].mName
      /\ obj.mAnimation = object[g].mAnimation
      /\ obj.mComponents = slots
  BY <1>1 DEF GameObject
<1>10. slots[t] = c /\ \A s \in Slots : s # t => slots[s] = object[g].mComponents[s]
  BY <1>1 DEF GameObject
<1> HIDE DEF obj, slots
<1>11. /\ object' \in [Objects -> GameObject \cup {Freed}]
       /\ object'[g] = obj
       /\ \A h \in Objects : h # g => object'[h] = object[h]
  BY <1>1, <1>6, <1>8 DEF TypeOK
<1>12. Live' = Live
  BY <1>1, <1>8, <1>11, FreedIsNoRecord DEF Live
<1>13. \A s \in Slots, e \in Comps :
          msInstances'[s][e] = IF s = t /\ e = c THEN msInstances[s][e] + 1 ELSE msInstances[s][e]
  BY DEF allocate, TypeOK
<1>14. msInstances' \in [Slots -> [Comps -> Nat]]
  BY DEF allocate, TypeOK
<1>15. component'[c].type = t /\ component'[c].mOwner = g
  BY <1>4
<1> QED BY <1>4, <1>5, <1>9, <1>10, <1>11, <1>12, <1>13, <1>14, <1>15

\* The four create methods.
LEMMA AllocateKeepsInvariant ==
    ASSUME StoreAssumption, IInv,
           NEW g \in Live, NEW t \in Slots, NEW c \in Comps, allocate(g, t, c),
           UNCHANGED <<mObjects, nodes, entities, animations, status>>,
           cameras' \in SUBSET Names
    PROVE  IInv'
<1> USE DEF IInv
<1> USE AllocateResult
<1>1. TypeOK'
  BY DEF TypeOK
<1>2. \A h \in Live : /\ object'[h].mName = object[h].mName
                      /\ object'[h].mAnimation = object[h].mAnimation
  BY DEF Live
<1>3. MapMatchesHeap'
  BY <1>2 DEF MapMatchesHeap
<1>4. NodesMatchMap' /\ AddNeverRefuses'
  BY DEF NodesMatchMap, AddNeverRefuses
<1>5. SlotsOwnComponents'
  <2> SUFFICES ASSUME NEW h \in Live', NEW s \in Slots, object'[h].mComponents[s] # NULL
               PROVE  /\ object'[h].mComponents[s] \in LiveComps'
                      /\ component'[object'[h].mComponents[s]].type = s
                      /\ component'[object'[h].mComponents[s]].mOwner = h
    BY DEF SlotsOwnComponents
  <2>1. CASE h = g /\ s = t
    BY <2>1
  <2>2. CASE ~(h = g /\ s = t)
    <3>1. h \in Live /\ object'[h].mComponents[s] = object[h].mComponents[s]
      BY <2>2 DEF Live
    <3>2. /\ object[h].mComponents[s] \in LiveComps
          /\ component[object[h].mComponents[s]].type = s
          /\ component[object[h].mComponents[s]].mOwner = h
      BY <3>1 DEF SlotsOwnComponents
    <3> QED BY <3>1, <3>2
  <2> QED BY <2>1, <2>2
<1>6. FactoriesListLive'
  <2> SUFFICES ASSUME NEW s \in Slots \ {"PHYSICS"}, NEW e \in Comps
               PROVE  msInstances'[s][e] = IF e \in LiveComps' /\ component'[e].type = s THEN 1 ELSE 0
    BY DEF FactoriesListLive
  <2>1. msInstances[s][e] = IF e \in LiveComps /\ component[e].type = s THEN 1 ELSE 0
    BY DEF FactoriesListLive
  <2>2. msInstances'[s][e] = IF s = t /\ e = c THEN msInstances[s][e] + 1 ELSE msInstances[s][e]
    OBVIOUS
  <2>3. CASE e = c
    BY <2>1, <2>2, <2>3
  <2>4. CASE e # c
    <3>1. e \in LiveComps' <=> e \in LiveComps
      BY <2>4
    <3>2. e \in LiveComps => component'[e] = component[e]
      OBVIOUS
    <3> QED BY <2>1, <2>2, <2>4, <3>1, <3>2
  <2> QED BY <2>3, <2>4
<1>7. AnimationFlagHolds'
  BY <1>2 DEF AnimationFlagHolds
<1> QED BY <1>1, <1>3, <1>4, <1>5, <1>6, <1>7

\* loadMesh and enableComponent: no component changes its type or its owner.
LEMMA FlagKeepsInvariant ==
    ASSUME StoreAssumption, IInv,
           UNCHANGED <<mObjects, object, msInstances, nodes, cameras, animations, status>>,
           entities' \in SUBSET Names,
           NEW c \in LiveComps, NEW r \in Component,
           r.type = component[c].type, r.mOwner = component[c].mOwner,
           component' = [component EXCEPT ![c] = r]
    PROVE  IInv'
<1> USE DEF IInv
<1>1. component' \in [Comps -> Component \cup {Freed}]
  BY DEF TypeOK
<1>2. TypeOK'
  BY <1>1 DEF TypeOK
<1>3. Live' = Live /\ LiveComps' = LiveComps
  BY FreedIsNoRecord DEF TypeOK, Live, LiveComps
<1>4. \A e \in LiveComps : /\ component'[e].type = component[e].type
                           /\ component'[e].mOwner = component[e].mOwner
  BY DEF TypeOK, LiveComps
<1>5. MapMatchesHeap' /\ NodesMatchMap' /\ AddNeverRefuses'
  BY <1>3 DEF MapMatchesHeap, NodesMatchMap, AddNeverRefuses
<1>6. SlotsOwnComponents'
  BY <1>3, <1>4 DEF SlotsOwnComponents
<1>7. FactoriesListLive'
  BY <1>3, <1>4 DEF FactoriesListLive
<1>8. AnimationFlagHolds'
  BY <1>3 DEF AnimationFlagHolds
<1> QED BY <1>2, <1>5, <1>6, <1>7, <1>8

-----------------------------------------------------------------------------
(***************************************************************************)
(* The actions on an object.                                               *)
(***************************************************************************)
LEMMA CreateCameraKeepsInvariant ==
    ASSUME StoreAssumption, IInv, NEW g \in Objects, NEW c \in Comps, createCameraComponent(g, c)
    PROVE  IInv'
<1>1. g \in Live
  BY DEF createCameraComponent
<1>2. CASE object[g].mName \in cameras
  <2>1. /\ UNCHANGED <<mObjects, object, component, msInstances, scene>>
        /\ status' = "camera name taken"
    BY <1>2 DEF createCameraComponent, scene
  <2> QED BY <2>1, StatusKeepsInvariant DEF Exceptions
<1>3. CASE object[g].mName \notin cameras
  <2>1. /\ allocate(g, "CAMERA", c)
        /\ UNCHANGED <<mObjects, nodes, entities, animations, status>>
        /\ cameras' = cameras \cup {object[g].mName}
    BY <1>3 DEF createCameraComponent
  <2>2. TypeOK /\ "CAMERA" \in Slots
    BY DEF IInv, Slots
  <2>3. cameras' \in SUBSET Names
    BY <1>1, <2>1, <2>2, LiveObject DEF TypeOK
  <2> QED BY <1>1, <2>1, <2>2, <2>3, AllocateKeepsInvariant
<1> QED BY <1>2, <1>3

LEMMA LoadMeshKeepsInvariant ==
    ASSUME StoreAssumption, IInv, NEW g \in Objects, loadMesh(g)
    PROVE  IInv'
<1> DEFINE c == object[g].mComponents["MESH"]
           r == [component[c] EXCEPT !.mEntity = TRUE]
<1>1. TypeOK /\ g \in Live /\ "MESH" \in Slots
  BY DEF loadMesh, IInv, Slots
<1>2. c \in LiveComps
  BY <1>1 DEF loadMesh, IInv, SlotsOwnComponents
<1>3. CASE object[g].mName \in entities
  <2>1. /\ UNCHANGED <<mObjects, object, component, msInstances, scene>>
        /\ status' = "entity name taken"
    BY <1>3 DEF loadMesh, scene
  <2> QED BY <2>1, StatusKeepsInvariant DEF Exceptions
<1>4. CASE object[g].mName \notin entities
  <2>1. /\ UNCHANGED <<mObjects, object, msInstances, nodes, cameras, animations, status>>
        /\ component' = [component EXCEPT ![c].mEntity = TRUE]
        /\ entities' = entities \cup {object[g].mName}
    BY <1>4 DEF loadMesh
  <2>2. entities' \in SUBSET Names
    BY <1>1, <2>1, LiveObject DEF TypeOK
  <2>3. r \in Component /\ r.type = component[c].type /\ r.mOwner = component[c].mOwner
    BY <1>1, <1>2, LiveComponent DEF Component
  <2>4. component' = [component EXCEPT ![c] = r]
    BY <2>1
  <2> QED BY <1>2, <2>1, <2>2, <2>3, <2>4, FlagKeepsInvariant
<1> QED BY <1>3, <1>4

LEMMA EnableKeepsInvariant ==
    ASSUME StoreAssumption, IInv, NEW g \in Objects, NEW t \in Slots, NEW b \in BOOLEAN,
           enableComponent(g, t, b)
    PROVE  IInv'
<1> DEFINE c == object[g].mComponents[t]
           r == [component[c] EXCEPT !.mEnable = b]
<1>1. TypeOK /\ g \in Live /\ status = "running"
  BY DEF enableComponent, IInv
<1>2. CASE c = NULL \/ (t = "MESH" /\ ~component[c].mEntity)
  <2>1. /\ UNCHANGED <<mObjects, object, component, msInstances, scene>>
        /\ status' \in {"running", "undefined"}
    BY <1>1, <1>2 DEF enableComponent
  <2> QED BY <2>1, StatusKeepsInvariant
<1>3. CASE c # NULL /\ ~(t = "MESH" /\ ~component[c].mEntity)
  <2>1. /\ UNCHANGED <<mObjects, object, msInstances, nodes, entities, cameras, animations, status>>
        /\ component' = [component EXCEPT ![c].mEnable = b]
    BY <1>3 DEF enableComponent, scene
  <2>2. c \in LiveComps
    BY <1>1, <1>3 DEF IInv, SlotsOwnComponents
  <2>3. r \in Component /\ r.type = component[c].type /\ r.mOwner = component[c].mOwner
    BY <1>1, <2>2, LiveComponent DEF Component
  <2>4. component' = [component EXCEPT ![c] = r]
    BY <2>1
  <2>5. entities' \in SUBSET Names
    BY <1>1, <2>1 DEF TypeOK
  <2> QED BY <2>1, <2>2, <2>3, <2>4, <2>5, FlagKeepsInvariant
<1> QED BY <1>2, <1>3

\* createAnimation and destroyAnimation change one object's flag and the
\* animation of its name.
LEMMA AnimationKeepsInvariant ==
    ASSUME StoreAssumption, IInv, NEW g \in Live, NEW b \in BOOLEAN, NEW state \in {"none", "live"},
           b => state = "live",
           object' = [object EXCEPT ![g].mAnimation = b],
           animations' = [animations EXCEPT ![object[g].mName] = state],
           UNCHANGED <<mObjects, component, msInstances, nodes, entities, cameras, status>>
    PROVE  IInv'
<1> DEFINE obj == [object[g] EXCEPT !.mAnimation = b]
<1> USE DEF IInv
<1>1. g \in Objects /\ object[g] \in GameObject /\ object[g].mName \in Names
  BY LiveObject DEF Live
<1>2. /\ obj \in GameObject
      /\ obj.mName = object[g].mName
      /\ obj.mComponents = object[g].mComponents
      /\ obj.mAnimation = b
  BY <1>1 DEF GameObject
<1>3. object' = [object EXCEPT ![g] = obj]
  OBVIOUS
<1> HIDE DEF obj
<1>4. /\ object' \in [Objects -> GameObject \cup {Freed}]
      /\ object'[g] = obj
      /\ \A h \in Objects : h # g => object'[h] = object[h]
  BY <1>1, <1>2, <1>3 DEF TypeOK
<1>5. Live' = Live /\ LiveComps' = LiveComps
  BY <1>1, <1>2, <1>4, FreedIsNoRecord DEF Live, LiveComps
<1>6. \A h \in Live : /\ object'[h].mName = object[h].mName
                      /\ object'[h].mComponents = object[h].mComponents
  BY <1>2, <1>4 DEF Live
<1>7. TypeOK'
  BY <1>1, <1>4 DEF TypeOK
<1>8. MapMatchesHeap'
  BY <1>5, <1>6 DEF MapMatchesHeap
<1>9. NodesMatchMap' /\ AddNeverRefuses'
  BY DEF NodesMatchMap, AddNeverRefuses
<1>10. SlotsOwnComponents'
  BY <1>5, <1>6 DEF SlotsOwnComponents
<1>11. FactoriesListLive'
  BY <1>5 DEF FactoriesListLive
<1>12. AnimationFlagHolds'
  <2> SUFFICES ASSUME NEW h \in Live, object'[h].mAnimation
               PROVE  animations'[object[h].mName] = "live"
    BY <1>5, <1>6 DEF AnimationFlagHolds
  <2>1. CASE h = g
    BY <2>1, <1>1, <1>2, <1>4 DEF TypeOK
  <2>2. CASE h # g
    <3>1. object'[h] = object[h] /\ object[h].mName \in Names
      BY <2>2, <1>4, LiveObject DEF Live
    <3>2. object[h].mName # object[g].mName
      BY <2>2 DEF MapMatchesHeap
    <3>3. animations[object[h].mName] = "live"
      BY <3>1 DEF AnimationFlagHolds
    <3> QED BY <3>1, <3>2, <3>3 DEF TypeOK
  <2> QED BY <2>1, <2>2
<1> QED BY <1>7, <1>8, <1>9, <1>10, <1>11, <1>12

LEMMA CreateAnimationKeepsInvariant ==
    ASSUME StoreAssumption, IInv, NEW g \in Objects, createAnimation(g)
    PROVE  IInv'
<1>1. g \in Live
  BY DEF createAnimation
<1>2. CASE animations[object[g].mName] # "none"
  <2>1. /\ UNCHANGED <<mObjects, object, component, msInstances, scene>>
        /\ status' = "animation name taken"
    BY <1>2 DEF createAnimation, scene
  <2> QED BY <2>1, StatusKeepsInvariant DEF Exceptions
<1>3. CASE animations[object[g].mName] = "none"
  <2>1. /\ object' = [object EXCEPT ![g].mAnimation = TRUE]
        /\ animations' = [animations EXCEPT ![object[g].mName] = "live"]
        /\ UNCHANGED <<mObjects, component, msInstances, nodes, entities, cameras, status>>
    BY <1>3 DEF createAnimation
  <2> QED BY <1>1, <2>1, AnimationKeepsInvariant
<1> QED BY <1>2, <1>3

LEMMA DestroyAnimationKeepsInvariant ==
    ASSUME StoreAssumption, IInv, NEW g \in Objects, destroyAnimation(g)
    PROVE  IInv'
<1>1. g \in Live
  BY DEF destroyAnimation
<1>2. CASE animations[object[g].mName] = "none"
  <2>1. /\ UNCHANGED <<mObjects, object, component, msInstances, scene>>
        /\ status' = "destroy without animation"
    BY <1>2 DEF destroyAnimation, scene
  <2> QED BY <2>1, StatusKeepsInvariant DEF Exceptions
<1>3. CASE animations[object[g].mName] # "none"
  <2>1. /\ object' = [object EXCEPT ![g].mAnimation = FALSE]
        /\ animations' = [animations EXCEPT ![object[g].mName] = "none"]
        /\ UNCHANGED <<mObjects, component, msInstances, nodes, entities, cameras, status>>
    BY <1>3 DEF destroyAnimation
  <2> QED BY <1>1, <2>1, AnimationKeepsInvariant
<1> QED BY <1>2, <1>3

-----------------------------------------------------------------------------
(***************************************************************************)
(* The invariant.                                                          *)
(***************************************************************************)
LEMMA InitEstablishesInvariant ==
    ASSUME StoreAssumption, Init
    PROVE  IInv
<1>1. Live = {} /\ LiveComps = {}
  BY DEF Init, Live, LiveComps
<1>2. TypeOK
  BY DEF Init, TypeOK
<1> QED BY <1>1, <1>2 DEF Init, IInv, MapMatchesHeap, NodesMatchMap, AddNeverRefuses,
                SlotsOwnComponents, FactoriesListLive, AnimationFlagHolds

LEMMA NextKeepsInvariant ==
    ASSUME StoreAssumption, IInv, [Next]_vars
    PROVE  IInv'
<1>1. CASE Create
  BY <1>1, CreateKeepsInvariant DEF Create
<1>2. CASE Remove
  <2>1. ASSUME NEW n \in Names, removeGameObject(n)
        PROVE  IInv'
    <3>1. {mObjects[n]} \in SUBSET Live
      BY <2>1 DEF removeGameObject, IInv, MapMatchesHeap
    <3> QED BY <2>1, <3>1, RemovalKeepsInvariant DEF removeGameObject
  <2>2. ASSUME NEW tag \in Tags, removeGameObjectByTag(tag)
        PROVE  IInv'
    <3>1. findObjectsByTag(tag) \in SUBSET Live
      BY DEF findObjectsByTag, IInv, MapMatchesHeap
    <3> QED BY <2>2, <3>1, RemovalKeepsInvariant DEF removeGameObjectByTag
  <2> QED BY <1>2, <2>1, <2>2 DEF Remove
<1>3. CASE CreateComponent
  <2> SUFFICES ASSUME NEW g \in Objects, NEW c \in Comps,
                      \/ createMeshComponent(g, c) \/ createSoundComponent(g, c)
                      \/ createPhysicsComponent(g, c) \/ createCameraComponent(g, c)
               PROVE  IInv'
    BY <1>3 DEF CreateComponent
  <2>1. cameras \in SUBSET Names
    BY DEF IInv, TypeOK
  <2>2. CASE createMeshComponent(g, c)
    BY <2>1, <2>2, AllocateKeepsInvariant DEF createMeshComponent, scene, Slots
  <2>3. CASE createSoundComponent(g, c)
    BY <2>1, <2>3, AllocateKeepsInvariant DEF createSoundComponent, scene, Slots
  <2>4. CASE createPhysicsComponent(g, c)
    BY <2>1, <2>4, AllocateKeepsInvariant DEF createPhysicsComponent, scene, Slots
  <2>5. CASE createCameraComponent(g, c)
    BY <2>5, CreateCameraKeepsInvariant
  <2> QED BY <2>2, <2>3, <2>4, <2>5
<1>4. CASE UseObject
  <2> SUFFICES ASSUME NEW g \in Objects,
                      \/ \E t \in Slots, b \in BOOLEAN : enableComponent(g, t, b)
                      \/ loadMesh(g)
                      \/ createAnimation(g) \/ addAnimationKeyframe(g) \/ destroyAnimation(g)
               PROVE  IInv'
    BY <1>4 DEF UseObject
  <2>1. CASE \E t \in Slots, b \in BOOLEAN : enableComponent(g, t, b)
    BY <2>1, EnableKeepsInvariant
  <2>2. CASE loadMesh(g)
    BY <2>2, LoadMeshKeepsInvariant
  <2>3. CASE createAnimation(g)
    BY <2>3, CreateAnimationKeepsInvariant
  <2>4. CASE addAnimationKeyframe(g)
    BY <2>4, StatusKeepsInvariant DEF addAnimationKeyframe, Exceptions
  <2>5. CASE destroyAnimation(g)
    BY <2>5, DestroyAnimationKeepsInvariant
  <2> QED BY <2>1, <2>2, <2>3, <2>4, <2>5
<1>5. CASE renderOneFrame
  BY <1>5, StatusKeepsInvariant DEF renderOneFrame
<1>6. CASE close
  BY <1>6, CloseKeepsInvariant
<1>7. CASE UNCHANGED vars
  <2>1. UNCHANGED <<mObjects, object, component, msInstances, scene, status>>
    BY <1>7 DEF vars, scene
  <2>2. status' \in (Exceptions \ {"object name taken"}) \cup {"running", "closed", "undefined"}
    BY <2>1 DEF IInv, TypeOK, AddNeverRefuses
  <2> QED BY <2>1, <2>2, StatusKeepsInvariant
<1> QED BY <1>1, <1>2, <1>3, <1>4, <1>5, <1>6, <1>7 DEF Next

THEOREM StoreInvariant == Spec => []IInv
<1>1. Init => IInv
  BY InitEstablishesInvariant, StoreAssumption
<1>2. IInv /\ [Next]_vars => IInv'
  BY NextKeepsInvariant, StoreAssumption
<1> QED BY <1>1, <1>2, PTL DEF Spec

\* The type invariant: ASSUMEd disjointness of addresses, NULL and Freed is all
\* it needs; the factories' counts stay natural however addresses are reused.
THEOREM StoreTypeOK == Spec => []TypeOK
BY StoreInvariant, PTL DEF IInv

\* The map has exactly the live objects, each under its own name, and the scene
\* nodes are theirs.
THEOREM StoreMapMatchesHeap == Spec => [](MapMatchesHeap /\ NodesMatchMap)
BY StoreInvariant, PTL DEF IInv

\* addGameObject never refuses an object that createGameObject has allocated.
THEOREM StoreAddNeverRefuses == Spec => []AddNeverRefuses
BY StoreInvariant, PTL DEF IInv

\* Slots hold live components of their type and their object; the getters'
\* static_casts are right.
THEOREM StoreSlotsOwnComponents == Spec => []SlotsOwnComponents
BY StoreInvariant, PTL DEF IInv

\* The mesh, sound and camera factories list what is live.
THEOREM StoreFactoriesListLive == Spec => []FactoriesListLive
BY StoreInvariant, PTL DEF IInv

\* GameObject::update finds the animation it looks for.
THEOREM StoreAnimationFlagHolds == Spec => []AnimationFlagHolds
BY StoreInvariant, PTL DEF IInv

-----------------------------------------------------------------------------
(***************************************************************************)
(* What a step may do to a slot.                                           *)
(***************************************************************************)
SlotsAfter ==
    \A g \in Live, t \in Slots :
        LET c == object[g].mComponents[t]
        IN c # NULL =>
              IF object'[g] = Freed THEN component'[c] = Freed
              ELSE \/ object'[g].mComponents[t] = c
                   \/ object'[g].mComponents[t] \in LiveComps' \ LiveComps

\* Steps after which every live object is there with the slots it had.
LEMMA SameSlots ==
    ASSUME StoreAssumption, TypeOK,
           \A g \in Live : g \in Live' /\ object'[g].mComponents = object[g].mComponents
    PROVE  SlotsAfter
BY DEF SlotsAfter, Live

LEMMA FreeSlots ==
    ASSUME StoreAssumption, IInv, NEW gone \in SUBSET Live, Free(gone)
    PROVE  SlotsAfter
<1> SUFFICES ASSUME NEW g \in Live, NEW t \in Slots, object[g].mComponents[t] # NULL
             PROVE  IF object'[g] = Freed THEN component'[object[g].mComponents[t]] = Freed
                    ELSE object'[g].mComponents[t] = object[g].mComponents[t]
  BY DEF SlotsAfter
<1> DEFINE c == object[g].mComponents[t]
<1>1. c \in LiveComps /\ c \in Comps
  BY DEF IInv, SlotsOwnComponents, LiveComps
<1>2. CASE g \in gone
  <2>1. c \in Deleted(gone)
    BY <1>2 DEF Deleted, InSlots
  <2>2. object'[g] = Freed
    BY <1>2 DEF Free, Live
  <2> QED BY <1>1, <2>1, <2>2 DEF Free
<1>3. CASE g \notin gone
  <2>1. object'[g] = object[g] /\ object[g] # Freed
    BY <1>3 DEF Free, Live
  <2> QED BY <2>1
<1> QED BY <1>2, <1>3

LEMMA AllocateSlots ==
    ASSUME StoreAssumption, TypeOK,
           NEW g \in Live, NEW t \in Slots, NEW c \in Comps, allocate(g, t, c)
    PROVE  SlotsAfter
<1> SUFFICES ASSUME NEW h \in Live, NEW s \in Slots
             PROVE  /\ object'[h] # Freed
                    /\ \/ object'[h].mComponents[s] = object[h].mComponents[s]
                       \/ object'[h].mComponents[s] \in LiveComps' \ LiveComps
  BY DEF SlotsAfter
<1>1. object'[h] # Freed
  BY AllocateResult DEF Live
<1>2. CASE h = g /\ s = t
  BY <1>1, <1>2, AllocateResult
<1>3. CASE ~(h = g /\ s = t)
  BY <1>1, <1>3, AllocateResult DEF Live
<1> QED BY <1>2, <1>3

LEMMA FlagSlots ==
    ASSUME StoreAssumption, TypeOK, NEW g \in Live, NEW b \in BOOLEAN,
           object' = [object EXCEPT ![g].mAnimation = b]
    PROVE  SlotsAfter
<1> DEFINE obj == [object[g] EXCEPT !.mAnimation = b]
<1>1. g \in Objects /\ object[g] \in GameObject
  BY LiveObject DEF Live
<1>2. obj \in GameObject /\ obj.mComponents = object[g].mComponents
  BY <1>1 DEF GameObject
<1>3. object' = [object EXCEPT ![g] = obj]
  OBVIOUS
<1> HIDE DEF obj
<1>4. object'[g] = obj /\ \A h \in Objects : h # g => object'[h] = object[h]
  BY <1>1, <1>3 DEF TypeOK
<1>5. \A h \in Live : h \in Live' /\ object'[h].mComponents = object[h].mComponents
  BY <1>2, <1>4, FreedIsNoRecord DEF Live
<1> QED BY <1>5, SameSlots

LEMMA NextSlots ==
    ASSUME StoreAssumption, IInv, Next
    PROVE  SlotsAfter
<1>1. TypeOK
  BY DEF IInv
<1>2. ASSUME UNCHANGED object
      PROVE  SlotsAfter
  BY <1>1, <1>2, SameSlots DEF Live
<1>3. CASE Create
  <2>1. PICK n \in Names, tag \in Tags, g \in Objects : createGameObject(n, tag, g)
    BY <1>3 DEF Create
  <2>2. \A h \in Live : object'[h] = object[h]
    BY <2>1, <1>1 DEF createGameObject, Live, TypeOK
  <2> QED BY <1>1, <2>2, SameSlots DEF Live
<1>4. CASE Remove
  <2>1. ASSUME NEW n \in Names, removeGameObject(n)
        PROVE  SlotsAfter
    <3>1. {mObjects[n]} \in SUBSET Live
      BY <2>1 DEF removeGameObject, IInv, MapMatchesHeap
    <3> QED BY <2>1, <3>1, FreeSlots DEF removeGameObject
  <2>2. ASSUME NEW tag \in Tags, removeGameObjectByTag(tag)
        PROVE  SlotsAfter
    <3>1. findObjectsByTag(tag) \in SUBSET Live
      BY DEF findObjectsByTag, IInv, MapMatchesHeap
    <3> QED BY <2>2, <3>1, FreeSlots DEF removeGameObjectByTag
  <2> QED BY <1>4, <2>1, <2>2 DEF Remove
<1>5. CASE CreateComponent
  <2>1. PICK g \in Objects, c \in Comps :
                      \/ createMeshComponent(g, c) \/ createSoundComponent(g, c)
                      \/ createPhysicsComponent(g, c) \/ createCameraComponent(g, c)
    BY <1>5 DEF CreateComponent
  <2>2. g \in Live /\ (object' = object \/ \E t \in Slots : allocate(g, t, c))
    BY <2>1 DEF createMeshComponent, createSoundComponent, createPhysicsComponent,
                createCameraComponent, Slots
  <2> QED BY <1>1, <1>2, <2>2, AllocateSlots
<1>6. CASE UseObject
  <2>1. PICK g \in Objects :
                      \/ \E t \in Slots, b \in BOOLEAN : enableComponent(g, t, b)
                      \/ loadMesh(g)
                      \/ createAnimation(g) \/ addAnimationKeyframe(g) \/ destroyAnimation(g)
    BY <1>6 DEF UseObject
  <2>2. CASE createAnimation(g) \/ destroyAnimation(g)
    <3>1. g \in Live /\ (object' = object \/ \E b \in BOOLEAN : object' = [object EXCEPT ![g].mAnimation = b])
      BY <2>2 DEF createAnimation, destroyAnimation
    <3> QED BY <1>1, <1>2, <3>1, FlagSlots
  <2>3. CASE ~(createAnimation(g) \/ destroyAnimation(g))
    BY <1>2, <2>1, <2>3 DEF enableComponent, loadMesh, addAnimationKeyframe
  <2> QED BY <2>2, <2>3
<1>7. CASE renderOneFrame
  BY <1>2, <1>7 DEF renderOneFrame
<1>8. CASE close
  <2>1. {mObjects[n] : n \in Names} \ {NULL} \in SUBSET Live
    BY DEF IInv, MapMatchesHeap
  <2> QED BY <1>8, <2>1, FreeSlots DEF close
<1> QED BY <1>3, <1>4, <1>5, <1>6, <1>7, <1>8 DEF Next

\* A component leaves its slot only to be deleted with its object or to make
\* room for a new component.
THEOREM StoreComponentsDieWithOwner == Spec => ComponentsDieWithOwner
<1>1. IInv /\ [Next]_vars => [SlotsAfter]_vars
  BY NextSlots, StoreAssumption
<1>2. Spec => [][SlotsAfter]_vars
  BY <1>1, StoreInvariant, PTL DEF Spec
<1> QED BY <1>2 DEF ComponentsDieWithOwner, SlotsAfter

-----------------------------------------------------------------------------
(***************************************************************************)
(* ObjectStore implements Registry: the initial states map to initial      *)
(* states of the registry, and every step maps to one of its steps or to   *)
(* none.                                                                   *)
(*                                                                         *)
(* Under the invariant the refinement mapping is simple, which View says:  *)
(* an entry is what the map has, and an animation what Ogre has.           *)
(***************************************************************************)
\* An animation whose node is there is known to the object: the reverse of
\* AnimationFlagHolds.
LiveFlagged == \A n \in Names : animations[n] = "live" => Flagged(n)

RInv == IInv /\ LiveFlagged

View ==
    /\ \A n \in Names : EntryOf(n) = {mObjects[n]} \ {NULL}
    /\ \A n \in Names : AnimationOf(n) = Moves[animations[n]]

LEMMA MovesTo == Moves["none"] = "none" /\ Moves["live"] = "moving" /\ Moves["dangling"] = "left behind"
BY DEF Moves

LEMMA ViewHolds == RInv => View
<1> SUFFICES ASSUME RInv PROVE View
  OBVIOUS
<1>0. NULL \notin Objects
  BY StoreAssumption
<1>1. ASSUME NEW n \in Names PROVE EntryOf(n) = {mObjects[n]} \ {NULL}
  <2>1. ASSUME NEW g \in Objects PROVE (mObjects[n] = g \/ (g \in Live /\ object[g].mName = n)) <=> mObjects[n] = g
    BY DEF RInv, IInv, MapMatchesHeap
  <2>2. mObjects[n] \in Objects \cup {NULL}
    BY DEF RInv, IInv, TypeOK
  <2> QED BY <1>0, <2>1, <2>2 DEF EntryOf
<1>2. ASSUME NEW n \in Names PROVE AnimationOf(n) = Moves[animations[n]]
  <2>1. animations[n] \in {"none", "live", "dangling"}
    BY DEF RInv, IInv, TypeOK
  <2>2. Flagged(n) => animations[n] = "live"
    BY DEF RInv, IInv, Flagged, AnimationFlagHolds
  <2>3. animations[n] = "live" => Flagged(n)
    BY DEF RInv, LiveFlagged
  <2> QED BY <2>1, <2>2, <2>3 DEF AnimationOf
<1> QED BY <1>1, <1>2 DEF View

LEMMA ViewHoldsNext == RInv' => View'
BY ViewHolds, PTL

-----------------------------------------------------------------------------
\* What the mapping takes from the heap.
Heap == /\ \A g \in Objects : TagOf(g)' = TagOf(g)
        /\ \A g \in Objects : SlotsOf(g)' = SlotsOf(g)
        /\ \A c \in Comps : OwnerOf(c)' = OwnerOf(c)

LEMMA SameHeap ==
    ASSUME UNCHANGED <<object, component>>
    PROVE  Heap
BY DEF Heap, TagOf, SlotsOf, OwnerOf, Live, LiveComps

\* Steps that neither change what the mapping shows nor the status.
LEMMA Stutter ==
    ASSUME View, View', Heap, UNCHANGED <<mObjects, animations, status>>
    PROVE  UNCHANGED Reg!vars
BY DEF Reg!vars, Heap, View

\* A call that fails for a reason the registry knows.
LEMMA Failure ==
    ASSUME View, View', Heap, UNCHANGED <<mObjects, animations>>,
           status = "running", status' \notin {"running", "open", "closed"}, Reg!Reason(status')
    PROVE  Reg!Next
<1>1. UNCHANGED <<[n \in Names |-> EntryOf(n)], [g \in Objects |-> TagOf(g)],
                  [g \in Objects |-> SlotsOf(g)], [c \in Comps |-> OwnerOf(c)],
                  [n \in Names |-> AnimationOf(n)]>>
  BY DEF Heap, View
<1>2. Reg!Fail
  BY <1>1 DEF Reg!Fail
<1> QED BY <1>2 DEF Reg!Next

-----------------------------------------------------------------------------
(***************************************************************************)
(* The actions on objects.                                                 *)
(***************************************************************************)
\* The objects that have a name are those that live.
LEMMA RegisteredLive ==
    ASSUME IInv, View, NEW g \in Objects
    PROVE  Reg!Registered(g) <=> g \in Live
<1>0. NULL \notin Objects
  BY StoreAssumption
<1>1. Reg!Registered(g) <=> \E n \in Names : g = mObjects[n]
  BY <1>0 DEF Reg!Registered, View
<1>2. (\E n \in Names : g = mObjects[n]) => g \in Live
  BY <1>0 DEF IInv, MapMatchesHeap
<1>3. g \in Live => \E n \in Names : g = mObjects[n]
  BY LiveObject DEF IInv, MapMatchesHeap
<1> QED BY <1>1, <1>2, <1>3

LEMMA CreateImplements ==
    ASSUME RInv, RInv', NEW n \in Names, NEW tag \in Tags, NEW g \in Objects, createGameObject(n, tag, g)
    PROVE  Reg!Next
<1>0. View /\ View' /\ IInv /\ IInv'
  BY ViewHolds, ViewHoldsNext DEF RInv
<1>1. CASE nodes[n] # NULL
  <2>1. /\ UNCHANGED <<mObjects, animations, object, component>>
        /\ status = "running" /\ status' = "node name taken"
    BY <1>1 DEF createGameObject
  <2>2. EntryOf(n) # {}
    BY <1>0, <1>1 DEF View, IInv, NodesMatchMap
  <2>3. Reg!Reason(status')
    BY <2>1, <2>2 DEF Reg!Reason
  <2> QED BY <1>0, <2>1, <2>3, SameHeap, Failure
<1>2. CASE nodes[n] = NULL
  <2>1. mObjects[n] = NULL
    BY <1>0, <1>2 DEF IInv, NodesMatchMap
  <2>2. /\ object' = [object EXCEPT ![g] = NewGameObject(n, tag)]
        /\ mObjects' = [mObjects EXCEPT ![n] = g]
        /\ status = "running" /\ status' = status
        /\ UNCHANGED <<component, animations>>
        /\ object[g] = Freed
    BY <1>2, <2>1 DEF createGameObject
  <2>3. NewGameObject(n, tag) \in GameObject
    BY DEF NewGameObject, GameObject
  <2>4. /\ object'[g] = NewGameObject(n, tag)
        /\ \A h \in Objects \ {g} : object'[h] = object[h]
    BY <1>0, <2>2 DEF IInv, TypeOK
  <2>5. g \notin Live /\ g \in Live' /\ \A h \in Objects \ {g} : h \in Live' <=> h \in Live
    BY <2>2, <2>3, <2>4, FreedIsNoRecord DEF Live
  <2>6. /\ \A m \in Names : EntryOf(m)' = IF m = n THEN {g} ELSE EntryOf(m)
        /\ EntryOf(n) = {}
    <3>1. mObjects'[n] = g /\ \A m \in Names \ {n} : mObjects'[m] = mObjects[m]
      BY <1>0, <2>2 DEF IInv, TypeOK
    <3>2. EntryOf(n)' = {g} /\ EntryOf(n) = {}
      BY <1>0, <2>1, <3>1, StoreAssumption DEF View
    <3>3. ASSUME NEW m \in Names \ {n} PROVE EntryOf(m)' = EntryOf(m)
      BY <1>0, <3>1 DEF View
    <3> QED BY <3>2, <3>3
  <2>7. \A h \in Objects : /\ TagOf(h)' = IF h = g THEN tag ELSE TagOf(h)
                           /\ SlotsOf(h)' = SlotsOf(h)
    <3>1. object'[g].mTag = tag /\ object'[g].mComponents = [t \in Slots |-> NULL]
      BY <2>4 DEF NewGameObject
    <3>2. TagOf(g)' = tag /\ SlotsOf(g)' = SlotsOf(g)
      BY <2>5, <3>1 DEF TagOf, SlotsOf
    <3>3. ASSUME NEW h \in Objects \ {g} PROVE TagOf(h)' = TagOf(h) /\ SlotsOf(h)' = SlotsOf(h)
      BY <2>4, <2>5 DEF TagOf, SlotsOf
    <3> QED BY <3>2, <3>3
  <2>8. \A c \in Comps : OwnerOf(c)' = OwnerOf(c)
    BY <2>2 DEF OwnerOf, LiveComps
  <2>9. \A m \in Names : AnimationOf(m)' = AnimationOf(m)
    BY <1>0, <2>2 DEF View
  <2>10. ~Reg!Registered(g)
    BY <1>0, <2>5, RegisteredLive
  <2>11. Reg!Create(n, tag, g)
    BY <2>2, <2>6, <2>7, <2>8, <2>9, <2>10 DEF Reg!Create
  <2> QED BY <2>2, <2>11 DEF Reg!Next
<1> QED BY <1>1, <1>2

-----------------------------------------------------------------------------
(***************************************************************************)
(* Destroying.  What the registry's step takes is given as a set all of    *)
(* the objects of its own that live in.                                    *)
(***************************************************************************)
LEMMA FreeHeap ==
    ASSUME RInv, RInv', NEW gone \in SUBSET Live, Free(gone), NEW all \in SUBSET Objects, all \cap Live = gone
    PROVE  /\ \A g \in Objects : /\ TagOf(g)' = IF g \in all THEN NULL ELSE TagOf(g)
                                 /\ SlotsOf(g)' = IF g \in all THEN Reg!NoSlots ELSE SlotsOf(g)
           /\ \A c \in Comps : OwnerOf(c)' = IF c \in Reg!Owned(all) THEN NULL ELSE OwnerOf(c)
<1>1. /\ Live' = Live \ gone
      /\ LiveComps' = LiveComps \ Deleted(gone)
      /\ \A g \in Live' : object'[g] = object[g]
      /\ \A c \in LiveComps' : component'[c] = component[c]
  BY FreeTypes DEF RInv, IInv
<1>2. ASSUME NEW g \in Objects
      PROVE  /\ TagOf(g)' = IF g \in all THEN NULL ELSE TagOf(g)
             /\ SlotsOf(g)' = IF g \in all THEN Reg!NoSlots ELSE SlotsOf(g)
  <2>1. CASE g \in Live'
    BY <1>1, <2>1 DEF TagOf, SlotsOf
  <2>2. CASE g \notin Live'
    <3>1. TagOf(g)' = NULL /\ SlotsOf(g)' = Reg!NoSlots
      BY <2>2 DEF TagOf, SlotsOf, Reg!NoSlots
    <3>2. g \notin all => TagOf(g) = NULL /\ SlotsOf(g) = Reg!NoSlots
      BY <1>1, <2>2 DEF TagOf, SlotsOf, Reg!NoSlots, Live
    <3> QED BY <3>1, <3>2
  <2> QED BY <2>1, <2>2
<1>3. ASSUME NEW c \in Comps
      PROVE  OwnerOf(c)' = IF c \in Reg!Owned(all) THEN NULL ELSE OwnerOf(c)
  <2>1. c \in Reg!Owned(all) <=> \E g \in all, t \in Slots : SlotsOf(g)[t] = c
    <3> DEFINE slot == [g \in Objects |-> SlotsOf(g)]
    <3>1. c \in Reg!Owned(all) <=> \E g \in all, t \in Slots : slot[g][t] = c
      BY DEF Reg!Owned
    <3>2. \A g \in all : slot[g] = SlotsOf(g)
      OBVIOUS
    <3> HIDE DEF slot
    <3> QED BY <3>1, <3>2
  <2>2. c # NULL
    BY StoreAssumption
  <2>3. c \in Deleted(gone) <=> \E g \in gone, t \in Slots : object[g].mComponents[t] = c
    BY <2>2 DEF Deleted, InSlots
  <2>4. \A g \in all, t \in Slots : SlotsOf(g)[t] = c <=> g \in gone /\ object[g].mComponents[t] = c
    BY <2>2 DEF SlotsOf
  <2>5. c \in Reg!Owned(all) <=> c \in Deleted(gone)
    BY <2>1, <2>3, <2>4
  <2> QED BY <1>1, <2>5 DEF OwnerOf
<1> QED BY <1>2, <1>3

LEMMA RemovalImplements ==
    ASSUME RInv, RInv', NEW gone \in SUBSET Live, Free(gone), Release(gone), Erase(gone),
           status = "running", UNCHANGED status, NEW all \in SUBSET Objects, all \cap Live = gone
    PROVE  Reg!RemoveAll(all)
<1>0. View /\ View' /\ IInv /\ NULL \notin Objects
  BY ViewHolds, ViewHoldsNext, StoreAssumption DEF RInv
<1>1. ASSUME NEW n \in Names PROVE EntryOf(n)' = EntryOf(n) \ all
  <2>1. mObjects'[n] = IF mObjects[n] \in gone THEN NULL ELSE mObjects[n]
    BY DEF Erase
  <2>2. mObjects[n] \in all <=> mObjects[n] \in gone
    BY <1>0 DEF IInv, MapMatchesHeap
  <2> QED BY <1>0, <2>1, <2>2 DEF View
<1>2. ASSUME NEW n \in Names
      PROVE  AnimationOf(n)' = IF Reg!LeftBehind(n, all) THEN "left behind" ELSE AnimationOf(n)
  <2>1. EntryOf(n) \cap all # {} <=> nodes[n] \in gone
    BY <1>0 DEF View, IInv, NodesMatchMap, MapMatchesHeap
  <2>2. animations[n] \in {"none", "live", "dangling"}
    BY <1>0 DEF IInv, TypeOK
  <2>3. AnimationOf(n) = "moving" <=> animations[n] = "live"
    BY <1>0, <2>2, MovesTo DEF View
  <2>4. animations'[n] = IF nodes[n] \in gone /\ animations[n] = "live" THEN "dangling" ELSE animations[n]
    BY DEF Release
  <2>5. Reg!LeftBehind(n, all) <=> nodes[n] \in gone /\ animations[n] = "live"
    BY <2>1, <2>3 DEF Reg!LeftBehind
  <2>6. AnimationOf(n)' = Moves[animations'[n]] /\ AnimationOf(n) = Moves[animations[n]]
    BY <1>0 DEF View
  <2>7. CASE Reg!LeftBehind(n, all)
    BY <2>4, <2>5, <2>6, <2>7, MovesTo
  <2>8. CASE ~Reg!LeftBehind(n, all)
    BY <2>4, <2>5, <2>6, <2>8
  <2> QED BY <2>7, <2>8
<1>3. Reg!Gone(all)
  BY <1>1, FreeHeap DEF Reg!Gone
<1> QED BY <1>2, <1>3 DEF Reg!RemoveAll

LEMMA RemoveImplements ==
    ASSUME RInv, RInv', Remove
    PROVE  Reg!Next
<1>0. View /\ IInv /\ NULL \notin Objects
  BY ViewHolds, StoreAssumption DEF RInv
<1>1. ASSUME NEW n \in Names, removeGameObject(n) PROVE Reg!Next
  <2>1. {mObjects[n]} \in SUBSET Live /\ EntryOf(n) = {mObjects[n]}
    BY <1>0, <1>1 DEF removeGameObject, IInv, MapMatchesHeap, View
  <2>2. EntryOf(n) \in SUBSET Objects /\ EntryOf(n) \cap Live = {mObjects[n]}
    BY <2>1 DEF Live
  <2>3. Reg!RemoveAll(EntryOf(n))
    BY <1>1, <2>1, <2>2, RemovalImplements DEF removeGameObject
  <2>4. Reg!Remove(n)
    BY <2>1, <2>3 DEF Reg!Remove
  <2> QED BY <1>1, <2>4 DEF Reg!Next, removeGameObject
<1>2. ASSUME NEW tag \in Tags, removeGameObjectByTag(tag) PROVE Reg!Next
  <2> DEFINE all == {g \in Objects : TagOf(g) = tag}
  <2>1. findObjectsByTag(tag) \in SUBSET Live
    BY <1>0 DEF findObjectsByTag, IInv, MapMatchesHeap
  <2>2. ASSUME NEW g \in Live PROVE g \in findObjectsByTag(tag) <=> TagOf(g) = tag
    <3>1. g \in Objects /\ object[g].mName \in Names /\ mObjects[object[g].mName] = g
      BY <1>0, LiveObject DEF IInv, MapMatchesHeap, Live
    <3> QED BY <1>0, <3>1 DEF findObjectsByTag, TagOf
  <2>3. all \in SUBSET Objects /\ all \cap Live = findObjectsByTag(tag)
    BY <2>1, <2>2 DEF Live
  <2>4. Reg!RemoveAll(all)
    BY <1>2, <2>1, <2>3, RemovalImplements DEF removeGameObjectByTag
  <2>5. Reg!RemoveTagged(tag)
    BY <2>4 DEF Reg!RemoveTagged
  <2> QED BY <1>2, <2>5 DEF Reg!Next, removeGameObjectByTag
<1> QED BY <1>1, <1>2 DEF Remove

LEMMA CloseImplements ==
    ASSUME RInv, RInv', close
    PROVE  Reg!Next
<1>0. View /\ View' /\ IInv /\ NULL \notin Objects
  BY ViewHolds, ViewHoldsNext, StoreAssumption DEF RInv
<1> DEFINE gone == {mObjects[n] : n \in Names} \ {NULL}
           all == UNION {EntryOf(n) : n \in Names}
<1>1. gone \in SUBSET Live /\ all = gone
  BY <1>0 DEF View, IInv, MapMatchesHeap
<1>2. Free(gone)
  BY DEF close
<1>3. all \in SUBSET Objects /\ all \cap Live = gone
  BY <1>1 DEF Live
<1>4. \A n \in Names : EntryOf(n)' = EntryOf(n) \ all
  <2>1. \A n \in Names : EntryOf(n)' = {}
    BY <1>0 DEF close, View
  <2> QED BY <2>1
<1>5. Reg!Gone(all)
  <2> HIDE DEF gone, all
  <2> QED BY <1>1, <1>2, <1>3, <1>4, FreeHeap DEF Reg!Gone
<1>6. \A n \in Names : AnimationOf(n)' = "none"
  BY <1>0 DEF close, View, Moves
<1>7. Reg!Close
  BY <1>5, <1>6 DEF Reg!Close, close
<1> QED BY <1>7 DEF Reg!Next, close

-----------------------------------------------------------------------------
(***************************************************************************)
(* The actions on one object.                                              *)
(***************************************************************************)
\* A live object has its name.
LEMMA NameOfLive ==
    ASSUME RInv, NEW g \in Live
    PROVE  /\ g \in Objects /\ object[g].mName \in Names
           /\ Reg!Registered(g) /\ EntryOf(object[g].mName) # {}
           /\ SlotsOf(g) = object[g].mComponents
           /\ AnimationOf(object[g].mName) = Moves[animations[object[g].mName]]
           /\ animations[object[g].mName] \in {"none", "live", "dangling"}
<1>1. View /\ IInv /\ TypeOK /\ g \in Objects /\ NULL \notin Objects
  BY ViewHolds, StoreAssumption DEF RInv, IInv, Live
<1>2. object[g].mName \in Names /\ mObjects[object[g].mName] = g
  BY <1>1, LiveObject DEF IInv, MapMatchesHeap
<1>3. Reg!Registered(g)
  BY <1>1, RegisteredLive
<1>4. EntryOf(object[g].mName) # {} /\ AnimationOf(object[g].mName) = Moves[animations[object[g].mName]]
  BY <1>1, <1>2 DEF View
<1>5. animations[object[g].mName] \in {"none", "live", "dangling"}
  BY <1>1, <1>2 DEF TypeOK
<1>6. SlotsOf(g) = object[g].mComponents
  BY DEF SlotsOf
<1> QED BY <1>1, <1>2, <1>3, <1>4, <1>5, <1>6

LEMMA AllocateImplements ==
    ASSUME RInv, RInv', NEW g \in Live, NEW t \in Slots, NEW c \in Comps, allocate(g, t, c),
           status = "running", UNCHANGED <<mObjects, animations, status>>
    PROVE  Reg!Next
<1>0. View /\ View' /\ TypeOK
  BY ViewHolds, ViewHoldsNext DEF RInv, IInv
<1>1. ASSUME NEW h \in Objects
      PROVE  /\ TagOf(h)' = TagOf(h)
             /\ SlotsOf(h)' = IF h = g THEN [SlotsOf(g) EXCEPT ![t] = c] ELSE SlotsOf(h)
  <2>1. CASE h # g
    BY <1>0, <2>1, StoreAssumption, AllocateResult DEF TagOf, SlotsOf
  <2>2. CASE h = g
    <3>1. object' = [object EXCEPT ![g].mComponents[t] = c]
      BY DEF allocate, SlotOf
    <3>2. object'[g].mTag = object[g].mTag
          /\ object'[g].mComponents = [object[g].mComponents EXCEPT ![t] = c]
      BY <1>0, <3>1, LiveObject DEF TypeOK, Live, GameObject
    <3>3. g \in Live'
      BY <1>0, StoreAssumption, AllocateResult
    <3> QED BY <2>2, <3>2, <3>3 DEF TagOf, SlotsOf
  <2> QED BY <2>1, <2>2
<1>2. ASSUME NEW e \in Comps
      PROVE  OwnerOf(e)' = IF e = c THEN <<t, g>> ELSE OwnerOf(e)
  <2>1. CASE e = c
    BY <1>0, <2>1, StoreAssumption, AllocateResult DEF OwnerOf
  <2>2. CASE e # c
    <3>1. e \in LiveComps' <=> e \in LiveComps
      BY <1>0, <2>2, StoreAssumption, AllocateResult
    <3>2. e \in LiveComps => component'[e] = component[e]
      BY <1>0, StoreAssumption, AllocateResult
    <3> QED BY <2>2, <3>1, <3>2 DEF OwnerOf
  <2> QED BY <2>1, <2>2
<1>3. OwnerOf(c) = NULL
  BY <1>0, StoreAssumption, AllocateResult DEF OwnerOf
<1>4. Reg!Registered(g) /\ g \in Objects
  BY NameOfLive
<1>5. \A n \in Names : EntryOf(n)' = EntryOf(n) /\ AnimationOf(n)' = AnimationOf(n)
  BY <1>0 DEF View
<1>6. Reg!Attach(g, t, c)
  BY <1>1, <1>2, <1>3, <1>4, <1>5 DEF Reg!Attach
<1> QED BY <1>4, <1>6 DEF Reg!Next

LEMMA CreateComponentImplements ==
    ASSUME RInv, RInv', CreateComponent
    PROVE  Reg!Next
<1>1. PICK g \in Objects, c \in Comps :
                      \/ createMeshComponent(g, c) \/ createSoundComponent(g, c)
                      \/ createPhysicsComponent(g, c) \/ createCameraComponent(g, c)
  BY DEF CreateComponent
<1>2. g \in Live /\ status = "running"
  BY <1>1 DEF createMeshComponent, createSoundComponent, createPhysicsComponent, createCameraComponent
<1>3. ASSUME NEW t \in Slots, allocate(g, t, c), UNCHANGED <<mObjects, animations, status>>
      PROVE  Reg!Next
  BY <1>2, <1>3, AllocateImplements
<1>4. CASE createMeshComponent(g, c)
  BY <1>3, <1>4 DEF createMeshComponent, scene, Slots
<1>5. CASE createSoundComponent(g, c)
  BY <1>3, <1>5 DEF createSoundComponent, scene, Slots
<1>6. CASE createPhysicsComponent(g, c)
  BY <1>3, <1>6 DEF createPhysicsComponent, scene, Slots
<1>7. CASE createCameraComponent(g, c) /\ object[g].mName \notin cameras
  BY <1>3, <1>7 DEF createCameraComponent, Slots
<1>8. CASE createCameraComponent(g, c) /\ object[g].mName \in cameras
  <2>1. View /\ View'
    BY ViewHolds, ViewHoldsNext
  <2>2. UNCHANGED <<mObjects, object, component, animations>> /\ status' = "camera name taken"
    BY <1>8 DEF createCameraComponent
  <2>3. Reg!Reason(status')
    BY <1>2, <2>2, NameOfLive DEF Reg!Reason
  <2> QED BY <1>2, <2>1, <2>2, <2>3, SameHeap, Failure
<1> QED BY <1>1, <1>4, <1>5, <1>6, <1>7, <1>8

\* loadMesh and enableComponent: no component changes its type or its owner.
LEMMA FlagHeap ==
    ASSUME RInv, NEW c \in LiveComps, NEW r \in Component,
           r.type = component[c].type, r.mOwner = component[c].mOwner,
           component' = [component EXCEPT ![c] = r], UNCHANGED object
    PROVE  Heap
<1>1. component'[c] = r /\ \A e \in Comps : e # c => component'[e] = component[e]
  BY DEF RInv, IInv, TypeOK, LiveComps
<1>2. LiveComps' = LiveComps
  BY <1>1, FreedIsNoRecord DEF LiveComps
<1>3. \A e \in Comps : OwnerOf(e)' = OwnerOf(e)
  BY <1>1, <1>2 DEF OwnerOf
<1> QED BY <1>3 DEF Heap, TagOf, SlotsOf, Live

LEMMA LoadMeshImplements ==
    ASSUME RInv, RInv', NEW g \in Objects, loadMesh(g)
    PROVE  [Reg!Next]_(Reg!vars)
<1> DEFINE c == object[g].mComponents["MESH"]
           r == [component[c] EXCEPT !.mEntity = TRUE]
<1>0. View /\ View' /\ TypeOK /\ g \in Live /\ status = "running"
  BY ViewHolds, ViewHoldsNext DEF loadMesh, RInv, IInv
<1>1. CASE object[g].mName \in entities
  <2>1. UNCHANGED <<mObjects, object, component, animations>> /\ status' = "entity name taken"
    BY <1>1 DEF loadMesh
  <2>2. Reg!Reason(status')
    BY <1>0, <2>1, NameOfLive DEF Reg!Reason
  <2> QED BY <1>0, <2>1, <2>2, SameHeap, Failure
<1>2. CASE object[g].mName \notin entities
  <2>1. component' = [component EXCEPT ![c].mEntity = TRUE]
        /\ UNCHANGED <<mObjects, object, animations, status>>
    BY <1>2 DEF loadMesh
  <2>2. c \in LiveComps
    BY <1>0 DEF loadMesh, RInv, IInv, SlotsOwnComponents, Slots
  <2>3. r \in Component /\ r.type = component[c].type /\ r.mOwner = component[c].mOwner
    BY <1>0, <2>2, LiveComponent DEF Component
  <2>4. Heap
    BY <2>1, <2>2, <2>3, FlagHeap
  <2> QED BY <1>0, <2>1, <2>4, Stutter
<1> QED BY <1>1, <1>2

LEMMA EnableImplements ==
    ASSUME RInv, RInv', NEW g \in Objects, NEW t \in Slots, NEW b \in BOOLEAN, enableComponent(g, t, b)
    PROVE  [Reg!Next]_(Reg!vars)
<1> DEFINE c == object[g].mComponents[t]
           r == [component[c] EXCEPT !.mEnable = b]
<1>0. View /\ View' /\ TypeOK /\ g \in Live /\ status = "running"
  BY ViewHolds, ViewHoldsNext DEF enableComponent, RInv, IInv
<1>1. CASE c = NULL
  BY <1>0, <1>1, SameHeap, Stutter DEF enableComponent, scene
<1>2. CASE c # NULL /\ t = "MESH" /\ ~component[c].mEntity
  <2>1. UNCHANGED <<mObjects, object, component, animations>> /\ status' = "undefined"
    BY <1>2 DEF enableComponent, scene
  <2>2. g \in Objects /\ Reg!Registered(g) /\ SlotsOf(g)["MESH"] # NULL
    BY <1>0, <1>2, NameOfLive
  <2>3. Reg!Reason(status')
    BY <2>1, <2>2 DEF Reg!Reason
  <2> QED BY <1>0, <2>1, <2>3, SameHeap, Failure
<1>3. CASE c # NULL /\ ~(t = "MESH" /\ ~component[c].mEntity)
  <2>1. component' = [component EXCEPT ![c].mEnable = b]
        /\ UNCHANGED <<mObjects, object, animations, status>>
    BY <1>3 DEF enableComponent, scene
  <2>2. c \in LiveComps
    BY <1>0, <1>3 DEF RInv, IInv, SlotsOwnComponents
  <2>3. r \in Component /\ r.type = component[c].type /\ r.mOwner = component[c].mOwner
    BY <1>0, <2>2, LiveComponent DEF Component
  <2>4. Heap
    BY <2>1, <2>2, <2>3, FlagHeap
  <2> QED BY <1>0, <2>1, <2>4, Stutter
<1> QED BY <1>1, <1>2, <1>3

-----------------------------------------------------------------------------
(***************************************************************************)
(* Animations.                                                             *)
(***************************************************************************)
\* A flag of an object is nothing the registry shows.
LEMMA AnimationHeap ==
    ASSUME RInv, NEW g \in Live, NEW b, object' = [object EXCEPT ![g].mAnimation = b],
           b \in BOOLEAN, UNCHANGED component
    PROVE  Heap
<1>1. g \in Objects /\ object[g] \in GameObject /\ TypeOK
  BY LiveObject DEF Live, RInv, IInv
<1>2. /\ object'[g] \in GameObject
      /\ object'[g].mTag = object[g].mTag /\ object'[g].mComponents = object[g].mComponents
      /\ \A h \in Objects : h # g => object'[h] = object[h]
  BY <1>1 DEF GameObject, TypeOK
<1>3. Live' = Live
  BY <1>1, <1>2, FreedIsNoRecord DEF Live
<1>4. \A h \in Objects : TagOf(h)' = TagOf(h) /\ SlotsOf(h)' = SlotsOf(h)
  BY <1>2, <1>3 DEF TagOf, SlotsOf, Live
<1>5. \A c \in Comps : OwnerOf(c)' = OwnerOf(c)
  BY DEF OwnerOf, LiveComps
<1> QED BY <1>4, <1>5 DEF Heap

LEMMA AnimationImplements ==
    ASSUME RInv, RInv', NEW g \in Objects, createAnimation(g) \/ destroyAnimation(g)
    PROVE  Reg!Next
<1> DEFINE n == object[g].mName
<1>0. View /\ View' /\ TypeOK /\ g \in Live /\ status = "running"
  BY ViewHolds, ViewHoldsNext DEF createAnimation, destroyAnimation, RInv, IInv
<1>1. /\ n \in Names /\ EntryOf(n) # {}
      /\ AnimationOf(n) = Moves[animations[n]] /\ animations[n] \in {"none", "live", "dangling"}
  BY <1>0, NameOfLive
<1>2. AnimationOf(n) = "none" <=> animations[n] = "none"
  BY <1>1, MovesTo
<1>3. ASSUME NEW a \in {"none", "live"}, animations' = [animations EXCEPT ![n] = a]
      PROVE  \A m \in Names : AnimationOf(m)' = IF m = n THEN Moves[a] ELSE AnimationOf(m)
  BY <1>0, <1>1, <1>3 DEF View, TypeOK
<1>4. ASSUME NEW b \in BOOLEAN, object' = [object EXCEPT ![g].mAnimation = b],
             UNCHANGED <<mObjects, component>>
      PROVE  Heap /\ \A m \in Names : EntryOf(m)' = EntryOf(m)
  <2>1. Heap
    BY <1>0, <1>4, AnimationHeap
  <2> QED BY <1>0, <1>4, <2>1 DEF View
<1>5. CASE createAnimation(g) /\ animations[n] = "none"
  <2>1. /\ object' = [object EXCEPT ![g].mAnimation = TRUE]
        /\ animations' = [animations EXCEPT ![n] = "live"]
        /\ UNCHANGED <<mObjects, component, status>>
    BY <1>5 DEF createAnimation
  <2>2. Heap /\ \A m \in Names : EntryOf(m)' = EntryOf(m)
    BY <1>4, <2>1
  <2>3. \A m \in Names : AnimationOf(m)' = IF m = n THEN "moving" ELSE AnimationOf(m)
    BY <1>3, <2>1, MovesTo
  <2>4. Reg!Animate(n)
    BY <1>1, <1>2, <1>5, <2>1, <2>2, <2>3 DEF Reg!Animate, Heap
  <2> QED BY <1>0, <1>1, <2>4 DEF Reg!Next
<1>6. CASE destroyAnimation(g) /\ animations[n] # "none"
  <2>1. /\ object' = [object EXCEPT ![g].mAnimation = FALSE]
        /\ animations' = [animations EXCEPT ![n] = "none"]
        /\ UNCHANGED <<mObjects, component, status>>
    BY <1>6 DEF destroyAnimation
  <2>2. Heap /\ \A m \in Names : EntryOf(m)' = EntryOf(m)
    BY <1>4, <2>1
  <2>3. \A m \in Names : AnimationOf(m)' = IF m = n THEN "none" ELSE AnimationOf(m)
    BY <1>3, <2>1, MovesTo
  <2>4. Reg!Stop(n)
    BY <1>1, <1>2, <1>6, <2>1, <2>2, <2>3 DEF Reg!Stop, Heap
  <2> QED BY <1>0, <1>1, <2>4 DEF Reg!Next
<1>7. CASE createAnimation(g) /\ animations[n] # "none"
  <2>1. UNCHANGED <<mObjects, object, component, animations>> /\ status' = "animation name taken"
    BY <1>7 DEF createAnimation
  <2>2. Reg!Reason(status')
    BY <1>1, <1>2, <1>7, <2>1 DEF Reg!Reason
  <2> QED BY <1>0, <2>1, <2>2, SameHeap, Failure
<1>8. CASE destroyAnimation(g) /\ animations[n] = "none"
  <2>1. UNCHANGED <<mObjects, object, component, animations>> /\ status' = "destroy without animation"
    BY <1>8 DEF destroyAnimation
  <2>2. Reg!Reason(status')
    BY <1>1, <1>2, <1>8, <2>1 DEF Reg!Reason
  <2> QED BY <1>0, <2>1, <2>2, SameHeap, Failure
<1> QED BY <1>5, <1>6, <1>7, <1>8

LEMMA KeyframeImplements ==
    ASSUME RInv, RInv', NEW g \in Objects, addAnimationKeyframe(g)
    PROVE  [Reg!Next]_(Reg!vars)
<1> DEFINE n == object[g].mName
<1>0. View /\ View' /\ g \in Live /\ status = "running"
  BY ViewHolds, ViewHoldsNext DEF addAnimationKeyframe
<1>1. UNCHANGED <<mObjects, object, component, animations>>
  BY DEF addAnimationKeyframe, scene
<1>2. Heap
  BY <1>1, SameHeap
<1>3. CASE animations[n] # "none"
  BY <1>0, <1>1, <1>2, <1>3, Stutter DEF addAnimationKeyframe
<1>4. CASE animations[n] = "none"
  <2>1. status' = "keyframe without animation"
    BY <1>4 DEF addAnimationKeyframe
  <2>2. n \in Names /\ EntryOf(n) # {} /\ AnimationOf(n) = "none"
    BY <1>0, <1>4, NameOfLive, MovesTo
  <2>3. Reg!Reason(status')
    BY <2>1, <2>2 DEF Reg!Reason
  <2> QED BY <1>0, <1>1, <1>2, <2>1, <2>3, Failure
<1> QED BY <1>3, <1>4

LEMMA RenderImplements ==
    ASSUME RInv, RInv', renderOneFrame
    PROVE  [Reg!Next]_(Reg!vars)
<1>0. View /\ View' /\ status = "running"
  BY ViewHolds, ViewHoldsNext DEF renderOneFrame
<1>1. UNCHANGED <<mObjects, object, component, animations>>
  BY DEF renderOneFrame, scene
<1>2. Heap
  BY <1>1, SameHeap
<1>3. CASE ~\E n \in Names : animations[n] = "dangling"
  BY <1>0, <1>1, <1>2, <1>3, Stutter DEF renderOneFrame
<1>4. CASE \E n \in Names : animations[n] = "dangling"
  <2>1. status' = "undefined"
    BY <1>4 DEF renderOneFrame
  <2>2. \E n \in Names : AnimationOf(n) = "left behind"
    BY <1>0, <1>4, MovesTo DEF View
  <2>3. Reg!Reason(status')
    BY <2>1, <2>2 DEF Reg!Reason
  <2> QED BY <1>0, <1>1, <1>2, <2>1, <2>3, Failure
<1> QED BY <1>3, <1>4

-----------------------------------------------------------------------------
(***************************************************************************)
(* Every animation whose node is there is known to its object.             *)
(***************************************************************************)
\* Steps that keep the objects whose animations run.
LEMMA FlaggedKept ==
    ASSUME LiveFlagged,
           \A n \in Names : animations'[n] = "live" => animations[n] = "live",
           \A g \in Live : animations'[object[g].mName] = "live" =>
               /\ g \in Live' /\ object'[g].mName = object[g].mName
               /\ object'[g].mAnimation = object[g].mAnimation
    PROVE  LiveFlagged'
BY DEF LiveFlagged, Flagged

LEMMA FreeKeepsFlagged ==
    ASSUME RInv, NEW gone \in SUBSET Live, Free(gone), Release(gone)
    PROVE  LiveFlagged'
<1>1. IInv /\ TypeOK /\ LiveFlagged
  BY DEF RInv, IInv
<1>2. ASSUME NEW g \in Live, animations'[object[g].mName] = "live"
      PROVE  /\ g \in Live' /\ object'[g].mName = object[g].mName
             /\ object'[g].mAnimation = object[g].mAnimation
  <2>1. object[g].mName \in Names /\ nodes[object[g].mName] = g
    BY <1>1, LiveObject DEF IInv, MapMatchesHeap, NodesMatchMap
  <2>2. g \notin gone
    BY <1>2, <2>1 DEF Release
  <2> QED BY <1>1, <2>2, FreeTypes
<1>3. \A n \in Names : animations'[n] = "live" => animations[n] = "live"
  BY DEF Release
<1> QED BY <1>1, <1>2, <1>3, FlaggedKept

LEMMA NextKeepsFlagged ==
    ASSUME RInv, Next
    PROVE  LiveFlagged'
<1>0. IInv /\ TypeOK /\ LiveFlagged
  BY DEF RInv, IInv
<1>1. ASSUME UNCHANGED <<object, animations>> PROVE LiveFlagged'
  BY <1>0, <1>1 DEF LiveFlagged, Flagged, Live
<1>2. CASE Create
  <2>1. PICK n \in Names, tag \in Tags, g \in Objects : createGameObject(n, tag, g)
    BY <1>2 DEF Create
  <2>2. UNCHANGED animations /\ \A h \in Live : object'[h] = object[h] /\ h \in Live'
    BY <1>0, <2>1 DEF createGameObject, Live, TypeOK
  <2> QED BY <1>0, <2>2, FlaggedKept
<1>3. CASE Remove
  <2>1. ASSUME NEW n \in Names, removeGameObject(n) PROVE LiveFlagged'
    <3>1. {mObjects[n]} \in SUBSET Live
      BY <1>0, <2>1 DEF removeGameObject, IInv, MapMatchesHeap
    <3> QED BY <2>1, <3>1, FreeKeepsFlagged DEF removeGameObject
  <2>2. ASSUME NEW tag \in Tags, removeGameObjectByTag(tag) PROVE LiveFlagged'
    <3>1. findObjectsByTag(tag) \in SUBSET Live
      BY <1>0 DEF findObjectsByTag, IInv, MapMatchesHeap
    <3> QED BY <2>2, <3>1, FreeKeepsFlagged DEF removeGameObjectByTag
  <2> QED BY <1>3, <2>1, <2>2 DEF Remove
<1>4. CASE CreateComponent
  <2>1. PICK g \in Objects, c \in Comps :
                      \/ createMeshComponent(g, c) \/ createSoundComponent(g, c)
                      \/ createPhysicsComponent(g, c) \/ createCameraComponent(g, c)
    BY <1>4 DEF CreateComponent
  <2>2. /\ UNCHANGED animations /\ g \in Live
        /\ object' = object \/ \E t \in Slots : allocate(g, t, c)
    BY <2>1 DEF createMeshComponent, createSoundComponent, createPhysicsComponent,
                createCameraComponent, scene, Slots
  <2>3. ASSUME NEW t \in Slots, allocate(g, t, c) PROVE LiveFlagged'
    <3>1. \A h \in Live : /\ h \in Live' /\ object'[h].mName = object[h].mName
                          /\ object'[h].mAnimation = object[h].mAnimation
      BY <1>0, <2>2, <2>3, StoreAssumption, AllocateResult DEF Live
    <3> QED BY <1>0, <2>2, <3>1, FlaggedKept
  <2> QED BY <1>1, <2>2, <2>3
<1>5. CASE UseObject
  <2>1. PICK g \in Objects :
                      \/ \E t \in Slots, b \in BOOLEAN : enableComponent(g, t, b)
                      \/ loadMesh(g)
                      \/ createAnimation(g) \/ addAnimationKeyframe(g) \/ destroyAnimation(g)
    BY <1>5 DEF UseObject
  <2>2. CASE UNCHANGED <<object, animations>>
    BY <1>1, <2>2
  <2>3. ASSUME NEW b \in BOOLEAN, NEW a, g \in Live, a = IF b THEN "live" ELSE "none",
               object' = [object EXCEPT ![g].mAnimation = b],
               animations' = [animations EXCEPT ![object[g].mName] = a]
        PROVE  LiveFlagged'
    <3>1. object[g].mName \in Names /\ object[g] \in GameObject /\ g \in Objects
      BY <1>0, <2>3, LiveObject DEF Live
    <3>2. /\ object'[g] \in GameObject /\ object'[g].mName = object[g].mName
          /\ object'[g].mAnimation = b
          /\ \A h \in Objects : h # g => object'[h] = object[h]
      BY <1>0, <2>3, <3>1 DEF TypeOK, GameObject
    <3>3. Live' = Live
      BY <2>3, <3>2, FreedIsNoRecord DEF Live
    <3>4. SUFFICES ASSUME NEW n \in Names, animations'[n] = "live" PROVE Flagged(n)'
      BY DEF LiveFlagged
    <3>5. CASE n = object[g].mName
      <4>1. b
        BY <1>0, <2>3, <3>4, <3>5 DEF TypeOK
      <4> QED BY <2>3, <3>2, <3>3, <3>5, <4>1 DEF Flagged
    <3>6. CASE n # object[g].mName
      <4>1. Flagged(n)
        BY <1>0, <2>3, <3>4, <3>6 DEF TypeOK, LiveFlagged
      <4> QED BY <3>2, <3>3, <3>6, <4>1 DEF Flagged, Live
    <3> QED BY <3>5, <3>6
  <2>4. CASE createAnimation(g)
    BY <2>2, <2>3, <2>4 DEF createAnimation
  <2>5. CASE destroyAnimation(g)
    BY <2>2, <2>3, <2>5 DEF destroyAnimation
  <2> QED BY <2>1, <2>2, <2>4, <2>5 DEF enableComponent, loadMesh, addAnimationKeyframe, scene
<1>6. CASE renderOneFrame
  BY <1>1, <1>6 DEF renderOneFrame, scene
<1>7. CASE close
  BY <1>7 DEF close, LiveFlagged
<1> QED BY <1>2, <1>3, <1>4, <1>5, <1>6, <1>7 DEF Next

-----------------------------------------------------------------------------
(***************************************************************************)
(* The refinement.                                                         *)
(***************************************************************************)
LEMMA InitImplements ==
    ASSUME Init
    PROVE  RInv /\ Reg!Init
<1>1. IInv
  BY InitEstablishesInvariant, StoreAssumption
<1>2. LiveFlagged
  BY DEF Init, LiveFlagged
<1>3. View
  BY <1>1, <1>2, ViewHolds DEF RInv
<1>4. Live = {} /\ LiveComps = {}
  BY DEF Init, Live, LiveComps
<1>5. \A n \in Names : EntryOf(n) = {} /\ AnimationOf(n) = "none"
  BY <1>3, MovesTo DEF Init, View
<1>6. Reg!Init
  BY <1>4, <1>5 DEF Reg!Init, Reg!NoSlots, TagOf, SlotsOf, OwnerOf, Init
<1> QED BY <1>1, <1>2, <1>6 DEF RInv

LEMMA NextKeepsRInv ==
    ASSUME RInv, [Next]_vars
    PROVE  RInv'
<1>1. IInv'
  BY NextKeepsInvariant, StoreAssumption DEF RInv
<1>2. CASE Next
  BY <1>1, <1>2, NextKeepsFlagged DEF RInv
<1>3. CASE UNCHANGED vars
  BY <1>1, <1>3 DEF RInv, LiveFlagged, Flagged, Live, vars
<1> QED BY <1>2, <1>3

LEMMA NextImplements ==
    ASSUME RInv, RInv', [Next]_vars
    PROVE  [Reg!Next]_(Reg!vars)
<1>1. CASE Create
  BY <1>1, CreateImplements DEF Create
<1>2. CASE Remove
  BY <1>2, RemoveImplements
<1>3. CASE CreateComponent
  BY <1>3, CreateComponentImplements
<1>4. CASE UseObject
  BY <1>4, EnableImplements, LoadMeshImplements, AnimationImplements, KeyframeImplements DEF UseObject
<1>5. CASE renderOneFrame
  BY <1>5, RenderImplements
<1>6. CASE close
  BY <1>6, CloseImplements
<1>7. CASE UNCHANGED vars
  <2>1. UNCHANGED <<mObjects, object, component, animations, status>>
    BY <1>7 DEF vars
  <2>2. View /\ View'
    BY ViewHolds, ViewHoldsNext
  <2> QED BY <2>1, <2>2, SameHeap, Stutter
<1> QED BY <1>1, <1>2, <1>3, <1>4, <1>5, <1>6, <1>7 DEF Next

LEMMA RegistryInvariant == Spec => []RInv
<1>1. Init => RInv
  BY InitImplements
<1>2. RInv /\ [Next]_vars => RInv'
  BY NextKeepsRInv
<1> QED BY <1>1, <1>2, PTL DEF Spec

\* The map, the heap, the factories and Ogre's tables together are the registry
\* that callers see: for every set of names, tags and addresses.
THEOREM StoreImplementsRegistry == Spec => ImplementsRegistry
<1>1. Init => RInv /\ Reg!Init
  BY InitImplements
<1>2. RInv /\ [Next]_vars => RInv'
  BY NextKeepsRInv
<1>3. RInv /\ RInv' /\ [Next]_vars => [Reg!Next]_(Reg!vars)
  BY NextImplements
<1> QED BY <1>1, <1>2, <1>3, PTL DEF Spec, ImplementsRegistry, Reg!Spec
=============================================================================
