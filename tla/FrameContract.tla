--------------------------- MODULE FrameContract ---------------------------
(***************************************************************************)
(* What the headers promise about frames: GameObject::update is "called    *)
(* every frame" (GameObject.h:101) and Component::update "ONCE each frame  *)
(* BY THE OWNER" (Component.h:61).  Between the beginning and the end of a *)
(* frame's updates every object that stays is updated once, and no object  *)
(* is updated twice; objects may come and go meanwhile.                    *)
(***************************************************************************)
EXTENDS Naturals

CONSTANT Objects

VARIABLES
    members,    \* objects that exist
    updating,   \* between the first and the last update of a frame
    owed,       \* objects that were there at the beginning and await their update
    updates     \* updates each object had in this frame

contractVars == <<members, updating, owed, updates>>

Init ==
    /\ members = {}
    /\ updating = FALSE
    /\ owed = {}
    /\ updates = [g \in Objects |-> 0]

BeginFrame ==
    /\ ~updating
    /\ updating' = TRUE
    /\ owed' = members
    /\ updates' = [g \in Objects |-> 0]
    /\ UNCHANGED members

Update(g) ==
    /\ updating
    /\ g \in members
    /\ updates[g] = 0
    /\ updates' = [updates EXCEPT ![g] = 1]
    /\ owed' = owed \ {g}
    /\ UNCHANGED <<members, updating>>

Join(g) ==
    /\ g \notin members
    /\ members' = members \cup {g}
    /\ updates' = [updates EXCEPT ![g] = 0]
    /\ UNCHANGED <<updating, owed>>

Leave(gone) ==
    /\ members' = members \ gone
    /\ owed' = owed \ gone
    /\ UNCHANGED <<updating, updates>>

EndFrame ==
    /\ updating
    /\ owed = {}
    /\ updating' = FALSE
    /\ UNCHANGED <<members, owed, updates>>

Next ==
    \/ BeginFrame \/ EndFrame
    \/ \E g \in Objects : Update(g) \/ Join(g)
    \/ \E gone \in SUBSET members : Leave(gone)

Spec == Init /\ [][Next]_contractVars
=============================================================================
