------------------------------- MODULE Input -------------------------------
(***************************************************************************)
(* InputManager: SDL's event queue, the handler each event reaches, the    *)
(* active actions, and what run and update make of them in the same frame. *)
(* The user acts at any time; SDL_PollEvent gathers what happened into the *)
(* queue and hands out one event, and run polls once per frame.            *)
(*                                                                         *)
(* The scripts that the handlers call are FrameLoop's subject; they do not *)
(* change this state.                                                      *)
(***************************************************************************)
EXTENDS Integers, Sequences

CONSTANTS
    Keys,           \* the keys the user has, by the names of mKeyboardMap and SCANCODE
    MouseButtons,   \* SDL's numbers of mouse buttons
    JoyButtons,     \* SDL's numbers of joystick buttons
    StrayBytes,     \* what evt.button.button may hold in a joystick event
    QueueLimit      \* events SDL keeps; it drops the ones that follow

NUM_ACTIONS == 11

\* enum InputActions
ACTION_UP == 0
ACTION_DOWN == 1
ACTION_LEFT == 2
ACTION_RIGHT == 3
ACTION_JUMP == 4
ACTION_ATTACK == 5
ACTION_CROUCH == 6
FIRST_PERSON == 7
THIRD_PERSON == 8
ACTION_PAUSE == 9
DEBUG == 10
GLOW == 11
InputActions == 0 .. 11

\* The default mappings.  No mouse or joystick button is mapped.
mKeyboardMap ==
    [key_6 |-> FIRST_PERSON, key_7 |-> THIRD_PERSON,
     s |-> ACTION_DOWN, w |-> ACTION_UP, a |-> ACTION_LEFT, d |-> ACTION_RIGHT,
     SPACE |-> ACTION_JUMP, LCTRL |-> ACTION_ATTACK, RCTRL |-> ACTION_CROUCH,
     RETURN |-> ACTION_PAUSE, BACKQUOTE |-> DEBUG, key_3 |-> GLOW]
MappedKeys == DOMAIN mKeyboardMap

\* SDL's scancodes, which number places on the keyboard, and the keycode of
\* escape, which is its character.
SCANCODE ==
    [a |-> 4, d |-> 7, s |-> 22, w |-> 26, x |-> 27, key_3 |-> 32, key_6 |-> 35, key_7 |-> 36,
     RETURN |-> 40, ESCAPE |-> 41, SPACE |-> 44, BACKQUOTE |-> 53, LCTRL |-> 224, RCTRL |-> 228]
SDLK_ESCAPE == 27

ASSUME InputAssumption ==
    /\ Keys \subseteq DOMAIN SCANCODE
    /\ MouseButtons \subseteq 1 .. 255
    /\ JoyButtons \subseteq 0 .. 255
    /\ StrayBytes \subseteq 0 .. 255
    /\ QueueLimit \in Nat \ {0}

VARIABLES
    held,           \* the keys that are down
    queue,          \* SDL's events
    mActiveActions,
    done,           \* run's done
    crashed,        \* a handler copied a string that is not one
    \* history
    lost,           \* SDL dropped an event
    sent            \* the action message sent in the last frame: <<>> or <<action, state>>

vars == <<held, queue, mActiveActions, done, crashed, lost, sent>>
userVars == <<held, lost>>
frameVars == <<mActiveActions, done, crashed, sent>>

Init ==
    /\ held = {} /\ queue = <<>> /\ lost = FALSE
    /\ mActiveActions = [a \in 0 .. NUM_ACTIONS - 1 |-> FALSE]
    /\ done = FALSE /\ crashed = FALSE
    /\ sent = <<>>

Running == ~done /\ ~crashed

-----------------------------------------------------------------------------
(***************************************************************************)
(* The user, and SDL's queue.                                              *)
(***************************************************************************)
KeyEvent(type, k) == [type |-> type, key |-> k, button |-> 0]
ButtonEvent(type, b) == [type |-> type, key |-> "none", button |-> b]

Queued(evt) ==
    IF Len(queue) < QueueLimit
    THEN queue' = Append(queue, evt) /\ UNCHANGED lost
    ELSE lost' = TRUE /\ UNCHANGED queue

press(k) ==
    /\ Running /\ k \notin held
    /\ held' = held \cup {k}
    /\ Queued(KeyEvent("keydown", k))
    /\ UNCHANGED frameVars

release(k) ==
    /\ Running /\ k \in held
    /\ held' = held \ {k}
    /\ Queued(KeyEvent("keyup", k))
    /\ UNCHANGED frameVars

\* Repeats of a held key, motion, window events: update has no use for them.
otherEvent ==
    /\ Running
    /\ Queued(KeyEvent("other", "none"))
    /\ UNCHANGED <<held, frameVars>>

useMouse(b) ==
    /\ Running
    /\ \E type \in {"mousedown", "mouseup"} : Queued(ButtonEvent(type, b))
    /\ UNCHANGED <<held, frameVars>>

useJoystick(b) ==
    /\ Running
    /\ \E type \in {"joydown", "joyup"} : Queued(ButtonEvent(type, b))
    /\ UNCHANGED <<held, frameVars>>

closeWindow ==
    /\ Running
    /\ Queued(KeyEvent("quit", "none"))
    /\ UNCHANGED <<held, frameVars>>

User ==
    \/ \E k \in Keys : press(k) \/ release(k)
    \/ \E b \in MouseButtons : useMouse(b)
    \/ \E b \in JoyButtons : useJoystick(b)
    \/ otherEvent \/ closeWindow

-----------------------------------------------------------------------------
(***************************************************************************)
(* One frame: the event update polls, and the rest of run.                 *)
(***************************************************************************)
NewestOf(q) == q[Len(q)]            \* variant: the last event comes out first
OldestOf(q) == Head(q)
Polled(type) == Running /\ queue # <<>> /\ OldestOf(queue).type = type

\* getKeystate indexes SDL's table, which is by scancode, with a keycode.
getKeystate(code) == \E k \in held : SCANCODE[k] = code

\* After the handler: the escape check.
RestOfFrame(quit) ==
    /\ queue' = IF queue = <<>> THEN queue ELSE Tail(queue)
    /\ done' = (quit \/ getKeystate(SDLK_ESCAPE))
    /\ UNCHANGED userVars

activeKept(action, state) ==        \* variant: a release does not end the action
    mActiveActions' = [a \in 0 .. NUM_ACTIONS - 1 |-> mActiveActions[a] \/ (a = action /\ state)]

setActiveGrowing(action, state) ==  \* variant: an array that grows with its index
    mActiveActions' = [a \in DOMAIN mActiveActions \cup {action} |->
                        IF a = action THEN state ELSE mActiveActions[a]]

\* mActiveActions[action] = state.  GLOW is past the array: the byte there is the
\* padding before the strings that follow, and nothing reads it.
setActive(action, state) ==
    mActiveActions' = [a \in 0 .. NUM_ACTIONS - 1 |-> IF a = action THEN state ELSE mActiveActions[a]]

KeyHandler(k, state) ==
    /\ IF k \in MappedKeys
       THEN setActive(mKeyboardMap[k], state) /\ sent' = <<mKeyboardMap[k], state>>
       ELSE sent' = <<>> /\ UNCHANGED mActiveActions
    /\ UNCHANGED crashed
    /\ RestOfFrame(FALSE)

onKeyDown ==
    /\ Polled("keydown")
    /\ KeyHandler(OldestOf(queue).key, TRUE)

onKeyUp ==
    /\ Polled("keyup")
    /\ KeyHandler(OldestOf(queue).key, FALSE)

\* A handler of buttons, none of which is mapped: it copies the button's string,
\* and what is past the strings need not be one.
ButtonHandler(index, strings) ==
    /\ sent' = <<>>
    /\ crashed' \in IF index \in 0 .. strings - 1 THEN {FALSE} ELSE BOOLEAN
    /\ UNCHANGED mActiveActions
    /\ RestOfFrame(FALSE)

\* The three strings of mMouseButtonStrings; the fifteen of mJoyButtonStrings
\* follow them in memory.
MouseHandler(b) == ButtonHandler(b - 1, 3 + 15)

onMouseDown ==
    /\ Polled("mousedown")
    /\ MouseHandler(OldestOf(queue).button)

onMouseUp ==
    /\ Polled("mouseup")
    /\ MouseHandler(OldestOf(queue).button)

\* A joystick press goes to onMouseUp, with a byte the event does not have.
joyButtonDown ==
    /\ Polled("joydown")
    /\ \E b \in StrayBytes : MouseHandler(b)

onJoyButtonUp ==
    /\ Polled("joyup")
    /\ ButtonHandler(OldestOf(queue).button, 15)

NoHandler(quit) ==
    /\ sent' = <<>>
    /\ UNCHANGED <<mActiveActions, crashed>>
    /\ RestOfFrame(quit)

noEvent == Running /\ queue = <<>> /\ NoHandler(FALSE)
ignoredEvent == Polled("other") /\ NoHandler(FALSE)
quitEvent == Polled("quit") /\ NoHandler(TRUE)

Frame ==
    \/ onKeyDown \/ onKeyUp
    \/ onMouseDown \/ onMouseUp
    \/ joyButtonDown \/ onJoyButtonUp
    \/ noEvent \/ ignoredEvent \/ quitEvent

Next == User \/ Frame

Spec == Init /\ [][Next]_vars

\* The loop goes on by itself, whatever the user does.
FairSpec == Spec /\ WF_vars(Frame)

-----------------------------------------------------------------------------
(***************************************************************************)
(* Properties                                                              *)
(***************************************************************************)
Event == [type : {"keydown", "keyup", "other", "quit", "mousedown", "mouseup", "joydown", "joyup"},
          key : Keys \cup {"none"}, button : 0 .. 255]

\* Type invariant.
TypeOK ==
    /\ held \subseteq Keys
    /\ queue \in Seq(Event) /\ Len(queue) <= QueueLimit
    /\ mActiveActions \in [0 .. NUM_ACTIONS - 1 -> BOOLEAN]
    /\ {done, crashed, lost} \subseteq BOOLEAN
    /\ sent \in {<<>>} \cup (InputActions \X BOOLEAN)

\* The keys whose action is in the array, and the events still queued about one.
Kept == {k \in Keys \cap MappedKeys : mKeyboardMap[k] < NUM_ACTIONS}
About(k) == {i \in 1 .. Len(queue) : queue[i].key = k}
Active(k) == mActiveActions[mKeyboardMap[k]]
IsFirst(i, k) == i \in About(k) /\ \A j \in About(k) : i <= j
IsLast(i, k) == i \in About(k) /\ \A j \in About(k) : j <= i

\* What the actions say now and what is still queued add up to the keys that
\* are held, as long as SDL dropped nothing: the last event queued about a key
\* tells its state, or its action does when there is none (update, onKeyDown,
\* onKeyUp and the default mappings, one key to an action).
QueueAddsUp ==
    ~lost => \A k \in Kept :
        /\ About(k) = {} => (Active(k) <=> k \in held)
        /\ \A i \in 1 .. Len(queue) : IsLast(i, k) => (queue[i].type = "keydown" <=> k \in held)

\* sendActionMessage is "called when the state of any action changes"
\* (InputManager.h:84), and only then: a listener is never told the same state
\* of an action twice in a row, as long as SDL dropped nothing.
OnlyChangesAreSent ==
    [][~lost /\ Frame /\ sent' # <<>> /\ sent'[1] < NUM_ACTIONS
            => mActiveActions[sent'[1]] # sent'[2]]_vars

\* An action whose key was released ends, or its key is pressed again, however
\* many other events crowd the queue, unless the program ends or SDL drops
\* events.
ReleasedActionsEnd ==
    \A k \in Kept : k \notin held ~> ~Active(k) \/ k \in held \/ ~Running \/ lost

-----------------------------------------------------------------------------
\* BaseApplication.cpp:840 says "(temporary) Quit the application when escape is
\* pressed": a frame with escape held ends the program.  It does not; X does.
EscapeQuits == [][Frame /\ "ESCAPE" \in held => done']_vars
=============================================================================
