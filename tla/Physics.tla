------------------------------ MODULE Physics ------------------------------
(***************************************************************************)
(* The physics components, Bullet's world and its contact manifolds, and   *)
(* PhysicsManager::updateWorld, which calls script handlers while it goes  *)
(* through the manifolds: a handler may destroy the objects and load the   *)
(* bodies that the loop is about.                                          *)
(*                                                                         *)
(* A game object with its physics component is one address here; the       *)
(* other parts of an object are ObjectStore's subject.  The variables      *)
(* after history only record what happened.                                *)
(***************************************************************************)
EXTENDS Naturals, Sequences, FiniteSets, Functions

CONSTANTS
    Objects,        \* addresses of game objects
    Bodies,         \* addresses of Bullet's rigid bodies
    NULL, Freed,    \* the null pointer; the content of a freed address
    Contract,       \* what scripts refrain from (see the assumption)
    MaxManifolds,   \* bound: pairs of bodies that are close at one time
    MaxOps          \* bound: calls the handlers of one frame make

ASSUME PhysicsAssumption ==
    /\ NULL \notin Objects \cup Bodies
    /\ Freed \notin [mBody : Bodies \cup {NULL}, Cmass : {"unset", "light", "heavy"}]
    /\ Freed \notin [user : Objects, static : BOOLEAN]
    \* a component is loaded once; it is not moved or pushed before it is loaded
    /\ Contract \subseteq {"load once", "load first"}
    /\ MaxManifolds \in Nat /\ MaxOps \in Nat

VARIABLES
    component,      \* the physics component of the object at each address
    body,           \* the rigid body at each address; its shape points at the same object
    world,          \* the bodies in mDynamicsWorld
    manifolds,      \* the dispatcher's array: pairs of bodies
    pc,             \* where updateWorld stands
    i, numManifolds,
    a, b,           \* the objects of the manifold under way
    handling,       \* a script handler runs
    ops,
    \* history
    pairs,          \* the objects of the manifolds when the loop began
    told,           \* whom onCollide was sent to, and about whom
    spoiled         \* a handler destroyed an object of one of this frame's pairs

bodyVars == <<component, body, world, manifolds>>
loopVars == <<pc, i, numManifolds, a, b, pairs, told>>
vars == <<bodyVars, loopVars, handling, ops, spoiled>>

Init ==
    /\ component = [g \in Objects |-> Freed]
    /\ body = [r \in Bodies |-> Freed]
    /\ world = {}
    /\ manifolds = <<>>
    /\ pc = "frame" /\ i = 0 /\ numManifolds = 0 /\ a = NULL /\ b = NULL
    /\ handling = FALSE /\ ops = 0
    /\ pairs = <<>> /\ told = <<>> /\ spoiled = FALSE

Live == {g \in Objects : component[g] # Freed}

\* Scripts and the application's own code run between the native steps.
MayCall ==
    /\ pc # "undefined"
    /\ handling \/ pc = "frame"
    /\ ops < MaxOps /\ ops' = ops + 1
    /\ UNCHANGED handling

-----------------------------------------------------------------------------
(***************************************************************************)
(* The component.                                                          *)
(***************************************************************************)
\* Cmass is not initialised.
createPhysicsComponent(g) ==
    /\ MayCall
    /\ g \notin Live
    /\ component' = [component EXCEPT ![g] = [mBody |-> NULL, Cmass |-> "unset"]]
    /\ UNCHANGED <<body, world, manifolds, loopVars, spoiled>>

NewBody(g, static) == [user |-> g, static |-> static]

\* loadBox and loadSphere: a body of mass 0 is static.  The body there was is
\* neither taken out of the world nor deleted.
load(g, mass) ==
    /\ MayCall
    /\ g \in Live
    /\ "load once" \in Contract => component[g].mBody = NULL
    /\ \E r \in Bodies :
         /\ body[r] = Freed
         /\ body' = [body EXCEPT ![r] = NewBody(g, mass = 0)]
         /\ component' = [component EXCEPT ![g] =
                [mBody |-> r, Cmass |-> IF mass < 1 THEN "light" ELSE "heavy"]]
         /\ world' = world \cup {r}
    /\ UNCHANGED <<manifolds, loopVars, spoiled>>

About(q, r) == {k \in DOMAIN q : r \in {q[k][1], q[k][2]}}
LeftInWorld(r) == UNCHANGED <<world, manifolds>>    \* variant: only deleted
\* Bullet releases the manifolds of the body with it, and fills the holes with
\* others.
removeFromWorld(r) ==
    /\ world' = world \ {r}
    /\ IF About(manifolds, r) = {} THEN UNCHANGED manifolds
       ELSE LET kept == DOMAIN manifolds \ About(manifolds, r)
            IN \E place \in Bijection(1 .. Cardinality(kept), kept) :
                 manifolds' = [k \in DOMAIN place |-> manifolds[place[k]]]

NotDeleted(r) == body               \* variant
Deleted(r) == [body EXCEPT ![r] = Freed]

InPairs(g) == \E k \in DOMAIN pairs : g \in {pairs[k][1], pairs[k][2]}

\* ~PhysicsComponent, when its object dies.
destroyObject(g) ==
    /\ MayCall
    /\ g \in Live
    /\ component' = [component EXCEPT ![g] = Freed]
    /\ IF component[g].mBody = NULL
       THEN UNCHANGED <<body, world, manifolds>>
       ELSE /\ removeFromWorld(component[g].mBody)
            /\ body' = Deleted(component[g].mBody)
    /\ spoiled' = (spoiled \/ InPairs(g))
    /\ UNCHANGED loopVars

\* addForce and addTorque use mBody, whatever it is.
addForce(g) ==
    /\ MayCall
    /\ g \in Live
    /\ "load first" \in Contract => component[g].mBody # NULL
    /\ pc' = IF component[g].mBody = NULL THEN "undefined" ELSE pc
    /\ UNCHANGED <<bodyVars, i, numManifolds, a, b, pairs, told, spoiled>>

\* onTransform, called when Ogre updates the object's node: light bodies follow
\* it.  Before the first load Cmass holds whatever the allocation left.
onTransform(g) ==
    /\ MayCall
    /\ g \in Live
    /\ "load first" \in Contract => component[g].mBody # NULL
    /\ \E light \in CASE component[g].Cmass = "unset" -> BOOLEAN
                      [] component[g].Cmass = "light" -> {TRUE}
                      [] OTHER -> {FALSE} :
         pc' = IF light /\ component[g].mBody = NULL THEN "undefined" ELSE pc
    /\ UNCHANGED <<bodyVars, i, numManifolds, a, b, pairs, told, spoiled>>

-----------------------------------------------------------------------------
(***************************************************************************)
(* updateWorld.                                                            *)
(***************************************************************************)
\* Bullet keeps a manifold for two bodies that are close, not both static.
Close == {p \in world \X world : p[1] # p[2] /\ ~(body[p[1]].static /\ body[p[2]].static)}
SamePair(p, q) == {p[1], p[2]} = {q[1], q[2]}
Manifolds ==
    {q \in UNION {[1 .. n -> Close] : n \in 0 .. MaxManifolds} :
        \A k, m \in DOMAIN q : k # m => ~SamePair(q[k], q[m])}

UserPair(p) == <<body[p[1]].user, body[p[2]].user>>

stepSimulation ==
    /\ pc = "frame" /\ ~handling
    /\ manifolds' \in Manifolds
    /\ numManifolds' = Len(manifolds')
    /\ i' = 0
    /\ pairs' = [k \in DOMAIN manifolds' |-> UserPair(manifolds'[k])]
    /\ told' = <<>> /\ spoiled' = FALSE
    /\ ops' = 0
    /\ pc' = "loop"
    /\ UNCHANGED <<component, body, world, a, b, handling>>

OneMore == i <= numManifolds        \* variant
Remaining == i < numManifolds

\* getManifoldByIndexInternal(i) and the objects its bodies point at.
nextManifold ==
    /\ pc = "loop" /\ ~handling
    /\ Remaining
    /\ IF i < Len(manifolds)
       THEN /\ a' = UserPair(manifolds[i + 1])[1]
            /\ b' = UserPair(manifolds[i + 1])[2]
            /\ pc' = "a"
       ELSE pc' = "undefined" /\ UNCHANGED <<a, b>>
    /\ i' = i + 1
    /\ UNCHANGED <<bodyVars, numManifolds, handling, ops, pairs, told, spoiled>>

\* injectScriptEvent("onCollide") runs the object's handler, if it has one.
Inject(to, about, then) ==
    IF to \in Live
    THEN /\ told' = Append(told, <<to, about>>)
         /\ handling' \in BOOLEAN
         /\ pc' = then
    ELSE pc' = "undefined" /\ UNCHANGED <<told, handling>>

tellA ==
    /\ pc = "a" /\ ~handling
    /\ Inject(a, b, "b")
    /\ UNCHANGED <<bodyVars, i, numManifolds, a, b, ops, pairs, spoiled>>

ItselfToB == b                  \* variant
AboutToB == a
tellB ==
    /\ pc = "b" /\ ~handling
    /\ Inject(b, AboutToB, "loop")
    /\ UNCHANGED <<bodyVars, i, numManifolds, a, b, ops, pairs, spoiled>>

handlerReturns ==
    /\ handling
    /\ handling' = FALSE
    /\ UNCHANGED <<bodyVars, loopVars, ops, spoiled>>

updateDone ==
    /\ pc = "loop" /\ ~handling
    /\ ~Remaining
    /\ pc' = "frame"
    /\ i' = 0 /\ numManifolds' = 0 /\ a' = NULL /\ b' = NULL
    /\ pairs' = <<>> /\ told' = <<>> /\ spoiled' = FALSE
    /\ ops' = 0
    /\ UNCHANGED <<bodyVars, handling>>

-----------------------------------------------------------------------------
Native == stepSimulation \/ nextManifold \/ tellA \/ tellB \/ updateDone

Call ==
    \E g \in Objects :
        \/ createPhysicsComponent(g)
        \/ \E mass \in {0, 1} : load(g, mass)
        \/ destroyObject(g)
        \/ addForce(g) \/ onTransform(g)

Next == Native \/ Call \/ handlerReturns

Spec == Init /\ [][Next]_vars

-----------------------------------------------------------------------------
(***************************************************************************)
(* Properties                                                              *)
(***************************************************************************)
Component == [mBody : Bodies \cup {NULL}, Cmass : {"unset", "light", "heavy"}]
Body == [user : Objects, static : BOOLEAN]

\* Type invariant: no manifold is about a body that left the world.
TypeOK ==
    /\ component \in [Objects -> Component \cup {Freed}]
    /\ body \in [Bodies -> Body \cup {Freed}]
    /\ world \subseteq {r \in Bodies : body[r] # Freed}
    /\ manifolds \in Seq(world \X world) /\ Len(manifolds) <= MaxManifolds
    /\ pc \in {"frame", "loop", "a", "b", "undefined"}
    /\ i \in Nat /\ numManifolds \in 0 .. MaxManifolds
    /\ {a, b} \subseteq Objects \cup {NULL}
    /\ {handling, spoiled} \subseteq BOOLEAN /\ ops \in 0 .. MaxOps
    /\ pairs \in Seq(Objects \X Objects) /\ told \in Seq(Objects \X Objects)

\* "This part is broken!" says PhysicsManager.cpp:72 of the loop's two calls.  As
\* far as objects, bodies and manifolds go, one thing breaks them: a handler that
\* destroys an object of one of this frame's pairs.  Then b may be deleted when it
\* is told, and the loop reads past the manifolds that are left.  Else nothing
\* that is gone is used, whatever else handlers create, load and destroy.  (What
\* the calls do to Lua's stack is ScriptBridge's subject.)
BrokenOnlyIfSpoiled == pc = "undefined" => spoiled

\* The world holds the bodies of the live components and nothing else, each
\* pointing at the object it belongs to, and no body leaks (load, and
\* ~PhysicsComponent, over the reuse of addresses).
WorldMatchesComponents ==
    /\ world = {component[g].mBody : g \in Live} \ {NULL}
    /\ world = {r \in Bodies : body[r] # Freed}
    /\ \A g \in Live : component[g].mBody # NULL => body[component[g].mBody].user = g

\* When updateWorld is done, both objects of every manifold the frame began
\* with were told about the other, once and in turn, even if handlers destroyed
\* some of them: a loop that lost a manifold on the way does not come to its
\* end.  (What stood at an object's address was told, if another took it.)
Mutual(p) == <<p, <<p[2], p[1]>>>>
EveryPairTold ==
    pc = "loop" /\ ~handling /\ ~Remaining
        => told = [k \in 1 .. 2 * Len(pairs) |-> Mutual(pairs[(k + 1) \div 2])[2 - (k % 2)]]
=============================================================================
