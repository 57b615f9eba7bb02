----------------------------- MODULE Animation -----------------------------
(***************************************************************************)
(* The animations of a mesh component: queueAnimation sets the current and *)
(* the next one, and update moves the current one and lets the next one    *)
(* show.  Times count in ticks; a frame takes from one to MaxStep of them. *)
(* The fields that are set and never read (mTransitionTimeTotal,           *)
(* mTransitionTimeCur, mNextLooping, mAnimationLooping) are left out.      *)
(***************************************************************************)
EXTENDS Integers

CONSTANTS
    Anims,      \* the animations of the mesh
    Missing,    \* names that are no animation of the mesh
    Length,     \* of each animation
    NoAnimation,    \* the null pointer
    MaxStep,    \* bound: ticks of a frame
    Contract    \* "different": the header's condition on queueAnimation

ASSUME AnimationAssumption ==
    /\ Anims \cap Missing = {}
    /\ Length \in [Anims -> Nat \ {0}]
    /\ NoAnimation \notin Anims
    /\ MaxStep \in Nat \ {0}
    /\ Contract \subseteq {"different"}

VARIABLES
    mEntity,    \* the mesh was loaded
    anim,       \* Ogre's AnimationState of each animation
    mCurrentAnimation, mNextAnimation,
    mPlayAnimationForward,
    mD_device,  \* BaseApplication's sensor, never initialised
    status      \* "running", "exception" or "undefined"

animationVars == <<mEntity, anim, mCurrentAnimation, mNextAnimation, mPlayAnimationForward, mD_device, status>>

\* What Ogre makes an AnimationState of.
NewState == [enabled |-> FALSE, loop |-> TRUE, weight |-> 1, time |-> 0]

AnimationInit ==
    /\ mEntity = FALSE
    /\ anim = [n \in Anims |-> NewState]
    /\ mCurrentAnimation = NoAnimation /\ mNextAnimation = NoAnimation
    /\ mPlayAnimationForward = TRUE
    /\ mD_device \in {"no device", "other"}
    /\ status = "running"

-----------------------------------------------------------------------------
\* A second entity of the same name is refused.
loadMesh ==
    /\ status = "running"
    /\ IF mEntity THEN status' = "exception" /\ UNCHANGED mEntity
                  ELSE mEntity' = TRUE /\ UNCHANGED status
    /\ UNCHANGED <<anim, mCurrentAnimation, mNextAnimation, mPlayAnimationForward, mD_device>>

(***************************************************************************)
(* queueAnimation.  The first one becomes the current animation, at once   *)
(* and for good, whatever transition and direction were asked for.         *)
(***************************************************************************)
queueFirst(n, looped) ==
    /\ status = "running"
    /\ mCurrentAnimation = NoAnimation
    /\ CASE ~mEntity          -> status' = "undefined" /\ UNCHANGED <<anim, mCurrentAnimation>>
         [] mEntity /\ n \in Missing -> status' = "exception" /\ UNCHANGED <<anim, mCurrentAnimation>>
         [] mEntity /\ n \in Anims ->
              /\ anim' = [anim EXCEPT ![n].enabled = TRUE, ![n].loop = looped]
              /\ mCurrentAnimation' = n
              /\ UNCHANGED status
    /\ UNCHANGED <<mEntity, mNextAnimation, mPlayAnimationForward, mD_device>>

\* A later one with a transition time becomes the next animation; it starts at
\* 0 without weight, and its direction becomes that of the current one, too.
\* A missing one, or one without a transition time, changes nothing.
queueNext(n, looped, forward) ==
    /\ status = "running"
    /\ mCurrentAnimation # NoAnimation
    /\ n \in Anims
    /\ "different" \in Contract => n # mCurrentAnimation
    /\ anim' = [anim EXCEPT ![n].loop = looped, ![n].weight = 0, ![n].time = 0]
    /\ mNextAnimation' = n
    /\ mPlayAnimationForward' = forward
    /\ UNCHANGED <<mEntity, mCurrentAnimation, mD_device, status>>

-----------------------------------------------------------------------------
(***************************************************************************)
(* update.                                                                 *)
(***************************************************************************)
\* Ogre's addTime: a looped animation wraps around.
Wrapped(n, t) == t % Length[n]

\* A short animation stays where it is when the step would reach its end.
EndMissed(n, t) == IF t > Length[n] \/ t < 0 THEN anim[n].time ELSE t       \* variant
StuckHalfway(n, t) == IF 2 * t >= Length[n] \/ t <= 0 THEN anim[n].time ELSE t   \* variant
EndHeld(n, t) == IF t >= Length[n] \/ t <= 0 THEN anim[n].time ELSE t

Moved(n, dT) ==
    LET t == anim[n].time + (IF mPlayAnimationForward THEN dT ELSE -dT)
    IN [anim EXCEPT ![n].time = IF anim[n].loop THEN Wrapped(n, t) ELSE EndHeld(n, t)]

\* While the current animation is looped, the next one shows in its place; the
\* current one is never retired, and the next one's time stands still.
ShownDisabled(states) ==            \* variant: setEnabled is left out
    IF mNextAnimation # NoAnimation /\ anim[mCurrentAnimation].loop
    THEN [[states EXCEPT ![mCurrentAnimation].weight = 0] EXCEPT ![mNextAnimation].weight = 1]
    ELSE states
NextShown(states) ==
    IF mNextAnimation # NoAnimation /\ anim[mCurrentAnimation].loop
    THEN [[states EXCEPT ![mCurrentAnimation].weight = 0]
             EXCEPT ![mNextAnimation].enabled = TRUE, ![mNextAnimation].weight = 1]
    ELSE states

update ==
    /\ status = "running"
    /\ IF mCurrentAnimation = NoAnimation
       THEN UNCHANGED anim
       ELSE \E dT \in 1 .. MaxStep : anim' = NextShown(Moved(mCurrentAnimation, dT))
    /\ UNCHANGED <<mEntity, mCurrentAnimation, mNextAnimation, mPlayAnimationForward, mD_device, status>>

\* With a device that happens to equal TSS_NO_DEVICE_ID, an update every quarter
\* of a second turns testGhost, which only scripts could have created.
updateWithoutGhost ==
    /\ status = "running"
    /\ mD_device = "no device"
    /\ status' = "undefined"
    /\ UNCHANGED <<mEntity, anim, mCurrentAnimation, mNextAnimation, mPlayAnimationForward, mD_device>>

-----------------------------------------------------------------------------
AnimationNext ==
    \/ loadMesh
    \/ \E n \in Anims \cup Missing, looped \in BOOLEAN :
        \/ queueFirst(n, looped)
        \/ \E forward \in BOOLEAN : queueNext(n, looped, forward)
    \/ update \/ updateWithoutGhost

AnimationSpec == AnimationInit /\ [][AnimationNext]_animationVars

\* Every frame updates the component (GameObject::update, called by
\* BaseApplication::update), and run never passes a dt of 0.
AnimationFairSpec == AnimationSpec /\ WF_animationVars(update)

-----------------------------------------------------------------------------
(***************************************************************************)
(* Properties                                                              *)
(***************************************************************************)
AnimationState == [enabled : BOOLEAN, loop : BOOLEAN, weight : 0 .. 1, time : Nat]

\* Type invariant; no animation stands at its very end.
AnimationTypeOK ==
    /\ mEntity \in BOOLEAN
    /\ anim \in [Anims -> AnimationState]
    /\ \A n \in Anims : anim[n].time < Length[n]
    /\ mCurrentAnimation \in Anims \cup {NoAnimation}
    /\ mNextAnimation \in Anims \cup {NoAnimation}
    /\ mPlayAnimationForward \in BOOLEAN
    /\ mD_device \in {"no device", "other"}
    /\ status \in {"running", "exception", "undefined"}

\* As long as nobody queues the current animation itself, every update leaves a
\* mesh that was ever animated with an animation that is enabled and has weight,
\* however often the next animation was replaced (queueAnimation takes weights
\* away, and only update gives them back).
Shows(n) == anim[n].enabled /\ anim[n].weight = 1
SomethingShows ==
    [][update /\ mCurrentAnimation # NoAnimation => (\E n \in Anims : Shows(n))']_animationVars

\* An animation that is not looped plays to where the next step might end it,
\* forwards or backwards, unless a queued one turns it round, whatever else is
\* queued meanwhile.
Short == mCurrentAnimation # NoAnimation /\ ~anim[mCurrentAnimation].loop /\ status = "running"
Time == IF mCurrentAnimation = NoAnimation THEN 0 ELSE anim[mCurrentAnimation].time
NearEnd == mCurrentAnimation # NoAnimation /\ Time + MaxStep >= Length[mCurrentAnimation]
ShortAnimationsFinish ==
    /\ Short /\ mPlayAnimationForward ~> NearEnd \/ ~mPlayAnimationForward \/ ~Short
    /\ Short /\ ~mPlayAnimationForward ~> Time <= MaxStep \/ mPlayAnimationForward \/ ~Short
=============================================================================
