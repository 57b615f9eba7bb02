----------------------------- MODULE Registry ------------------------------
(***************************************************************************)
(* What the game objects promise to those who use them by name and tag:    *)
(* at most one object has a name, what is created stays until it is        *)
(* removed, what belongs to it goes with it, and a call that fails leaves  *)
(* everything as it was.  ObjectStore implements this with a map, heap     *)
(* blocks, factories and Ogre's own tables.                                *)
(***************************************************************************)
EXTENDS Integers, FiniteSets

CONSTANTS
    Names, Tags,        \* of objects
    Objects, Comps,     \* identities of objects and components, used again
    Slots,              \* types of components
    NULL

VARIABLES
    entry,      \* the objects that have a name: none or one
    tag,        \* of each object, NULL for one that is not there
    slot,       \* the components of each object
    owner,      \* type and object of each component that exists, or NULL
    animation,  \* under each name: "none", "moving", or "left behind" by a dead object
    phase       \* "open", "closed", or how a call failed

vars == <<entry, tag, slot, owner, animation, phase>>

NoSlots == [t \in Slots |-> NULL]
Init ==
    /\ entry = [n \in Names |-> {}]
    /\ tag = [g \in Objects |-> NULL]
    /\ slot = [g \in Objects |-> NoSlots]
    /\ owner = [c \in Comps |-> NULL]
    /\ animation = [n \in Names |-> "none"]
    /\ phase = "open"

Registered(g) == \E n \in Names : g \in entry[n]

Create(n, k, g) ==
    /\ UNCHANGED <<slot, owner, animation, phase>>
    /\ entry[n] = {} /\ ~Registered(g)
    /\ entry' = [entry EXCEPT ![n] = {g}]
    /\ tag' = [tag EXCEPT ![g] = k]

Attach(g, t, c) ==
    /\ UNCHANGED <<entry, tag, animation, phase>>
    /\ Registered(g) /\ owner[c] = NULL
    /\ slot' = [slot EXCEPT ![g][t] = c]
    /\ owner' = [owner EXCEPT ![c] = <<t, g>>]

\* An object takes along what is in its slots, not what it had there before.
Owned(gone) == {slot[g][t] : g \in gone, t \in Slots}

LeftBehind(n, gone) == entry[n] \cap gone # {} /\ animation[n] = "moving"

Gone(gone) ==
    /\ entry' = [n \in Names |-> entry[n] \ gone]
    /\ tag' = [g \in Objects |-> IF g \in gone THEN NULL ELSE tag[g]]
    /\ slot' = [g \in Objects |-> IF g \in gone THEN NoSlots ELSE slot[g]]
    /\ owner' = [c \in Comps |-> IF c \in Owned(gone) THEN NULL ELSE owner[c]]

RemoveAll(gone) ==
    /\ UNCHANGED phase
    /\ Gone(gone)
    /\ animation' = [n \in Names |-> IF LeftBehind(n, gone) THEN "left behind" ELSE animation[n]]

Remove(n) == entry[n] # {} /\ RemoveAll(entry[n])
RemoveTagged(k) == RemoveAll({g \in Objects : tag[g] = k})

Animate(n) ==
    /\ UNCHANGED <<entry, tag, slot, owner, phase>>
    /\ entry[n] # {} /\ animation[n] = "none"
    /\ animation' = [animation EXCEPT ![n] = "moving"]

Stop(n) ==
    /\ UNCHANGED <<entry, tag, slot, owner, phase>>
    /\ entry[n] # {} /\ animation[n] # "none"
    /\ animation' = [animation EXCEPT ![n] = "none"]

\* What makes a call fail.  Ogre's entities and cameras are not in the promise.
Reason(why) ==
    CASE why = "node name taken"           -> \E n \in Names : entry[n] # {}
      [] why = "animation name taken"      -> \E n \in Names : entry[n] # {} /\ animation[n] # "none"
      [] why = "keyframe without animation"-> \E n \in Names : entry[n] # {} /\ animation[n] = "none"
      [] why = "destroy without animation" -> \E n \in Names : entry[n] # {} /\ animation[n] = "none"
      [] why \in {"entity name taken", "camera name taken"} -> \E n \in Names : entry[n] # {}
      [] why = "undefined" -> \/ \E g \in Objects : Registered(g) /\ slot[g]["MESH"] # NULL
                              \/ \E n \in Names : animation[n] = "left behind"
      [] OTHER -> FALSE

Fail ==
    /\ phase' \notin {"open", "closed"} /\ Reason(phase')
    /\ UNCHANGED <<entry, tag, slot, owner, animation>>

Close ==
    /\ phase' = "closed"
    /\ Gone(UNION {entry[n] : n \in Names})
    /\ animation' = [n \in Names |-> "none"]

Next ==
    /\ phase = "open"
    /\ \/ Fail
       \/ \E n \in Names : Animate(n) \/ Stop(n) \/ Remove(n)
       \/ \E k \in Tags : RemoveTagged(k)
       \/ \E n \in Names, k \in Tags, g \in Objects : Create(n, k, g)
       \/ \E c \in Comps, g \in Objects, t \in Slots : Attach(g, t, c)
       \/ Close

Spec == Init /\ [][Next]_vars
=============================================================================
