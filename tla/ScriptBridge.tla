---------------------------- MODULE ScriptBridge ----------------------------
(***************************************************************************)
(* The bridge between game objects and Lua: the global userdata of each    *)
(* scripted object, the class whose methods are its handlers, the events   *)
(* that injectScriptEvent passes to them, and the calls a handler makes.   *)
(*                                                                         *)
(* Native code works on the stack of the C frame it runs in.  At the base, *)
(* below every call, only its depth matters: slot 0 is the first, slot -1  *)
(* the frame's own entry, and nothing was allocated below.  The other C    *)
(* frame is _l_newGameObject's, while onCreate runs above it.              *)
(***************************************************************************)
EXTENDS Integers, Sequences, SequencesExt

CONSTANTS
    Names, Objects, Classes,
    NULL, Freed,    \* no object; the content of a freed address
    Contract,       \* what scripts keep to (see the assumption)
    MaxCalls,       \* bound: nested handlers
    MaxOps          \* bound: calls scripts make during one native call

Handlers == {"onCreate", "onUpdate"}
Sent == {"onUpdate"}    \* stands for what the application sends

GameObject == [mName : Names, mHasScript : BOOLEAN, mMesh : BOOLEAN]

\* complete: the class of a scripted object has every handler that is sent;
\* globals: nobody assigns to the name of a live scripted object; alive: nobody
\* uses a destroyed one; results: nobody uses what new returned; loaded: nobody
\* uses a component the object has not; args: exec gets its fourth argument.
ASSUME BridgeAssumption ==
    /\ Contract \subseteq {"complete", "globals", "alive", "results", "loaded", "args"}
    /\ {NULL, Freed} \cap Objects = {} /\ Freed \notin GameObject
    /\ MaxCalls \in Nat \ {0} /\ MaxOps \in Nat

VARIABLES
    mObjects,       \* the application's map
    object,         \* the game object at each address
    global,         \* Lua's global of each name
    methods,        \* the handlers each class has
    depth,          \* values on the base stack
    calls,          \* running calls, innermost last
    status,         \* "starting", "running", "exception" or "undefined"
    ops,
    result          \* what the last new returned in the running handler

vars == <<mObjects, object, global, methods, depth, calls, status, ops, result>>

Userdata == [mPtr : Objects, class : Classes]
NoValue == [mPtr |-> NULL, class |-> "none"]        \* nil, or no userdata at all

Live == {g \in Objects : object[g] # Freed}
Scripted == {g \in Live : object[g].mHasScript}

\* The running calls: Lua functions, and new under the onCreate it caused.
Call == [fn : {"init", "handler", "new"}, self : Userdata \cup {NoValue}, about : Objects \cup {NULL}]

\* findFilesWithExtension's scripts may leave values; the registration of the
\* classes leaves the ssuge table.
LeftByScripts == 0 .. 1

Init ==
    /\ mObjects = [n \in Names |-> NULL]
    /\ object = [g \in Objects |-> Freed]
    /\ global = [n \in Names |-> NoValue]
    /\ methods \in [Classes -> SUBSET Handlers]
    /\ \E left \in LeftByScripts : depth = 1 + left
    /\ calls = <<>>
    /\ status = "starting"
    /\ ops = 0
    /\ result = NoValue

-----------------------------------------------------------------------------
(***************************************************************************)
(* executeFunction("init").                                                *)
(***************************************************************************)
\* The nil that was looked up stays on the stack.
initMissing ==
    /\ status = "starting" /\ calls = <<>>
    /\ depth' = depth + 1
    /\ status' = "running"
    /\ UNCHANGED <<mObjects, object, global, methods, calls, ops, result>>

callInit ==
    /\ status = "starting" /\ calls = <<>>
    /\ calls' = <<[fn |-> "init", self |-> NoValue, about |-> NULL]>>
    /\ ops' = 0
    /\ UNCHANGED <<mObjects, object, global, methods, depth, status, result>>

\* The error message of a failed init stays, too.
initReturns(failed) ==
    /\ status = "starting" /\ Len(calls) = 1
    /\ calls' = <<>>
    /\ depth' = IF failed THEN depth + 1 ELSE depth
    /\ status' = "running"
    /\ result' = NoValue
    /\ UNCHANGED <<mObjects, object, global, methods, ops>>

-----------------------------------------------------------------------------
(***************************************************************************)
(* injectScriptEvent.                                                      *)
(***************************************************************************)
MethodFoundOnce(value, event) ==    \* variant: asks for onCreate, whatever the event
    value # NoValue /\ "onCreate" \in methods[value.class]
MethodFound(value, event) == value # NoValue /\ event \in methods[value.class]

HandlerOf(value, g) == [fn |-> "handler", self |-> value, about |-> g]

\* lua_pop takes one value more than was pushed when the global or its method is
\* missing.  The pushes themselves need a slot.
PoppedTooMany == depth - 1

\* Sent by the application, below every call.
injectEvent(g, event) ==
    /\ status = "running" /\ calls = <<>>
    /\ g \in Live
    /\ IF ~object[g].mHasScript THEN UNCHANGED <<depth, calls, status>>
       ELSE IF depth < -1 THEN status' = "undefined" /\ UNCHANGED <<depth, calls>>
       ELSE IF MethodFound(global[object[g].mName], event)
            THEN calls' = <<HandlerOf(global[object[g].mName], g)>> /\ UNCHANGED <<depth, status>>
            ELSE depth' = PoppedTooMany /\ UNCHANGED <<calls, status>>
    /\ ops' = 0
    /\ UNCHANGED <<mObjects, object, global, methods, result>>

AfterHandler == 0

\* Normally or with an error, which is logged: lua_settop(L, 0).
handlerReturns ==
    /\ Len(calls) = 1 /\ Last(calls).fn = "handler"
    /\ calls' = <<>>
    /\ depth' = AfterHandler
    /\ result' = NoValue
    /\ UNCHANGED <<mObjects, object, global, methods, status, ops>>

UnderNew == Front(calls)            \* variant: new goes on running
UnderOnCreate == SubSeq(calls, 1, Len(calls) - 2)

\* onCreate returns into new, whose frame the same settop empties: what new
\* then returns is the function itself.
onCreateReturns ==
    /\ Len(calls) > 1
    /\ calls' = UnderOnCreate
    /\ result' = NoValue
    /\ UNCHANGED <<mObjects, object, global, methods, depth, status, ops>>

-----------------------------------------------------------------------------
(***************************************************************************)
(* What handlers, and init, call.                                          *)
(***************************************************************************)
Scripting == calls # <<>> /\ status \in {"starting", "running"}
MakesCall == Scripting /\ ops < MaxOps /\ ops' = ops + 1

GlobalKept(n, value) == IF global[n] = NoValue THEN value ELSE global[n]    \* variant
GlobalSet(n, value) == value

(***************************************************************************)
(* _l_newGameObject: the global comes first, then the object, which a name *)
(* that is in use refuses with an exception; then onCreate.  Without an    *)
(* onCreate one value too many is popped, and new returns the class.       *)
(***************************************************************************)
newGameObject(n, class, hasScript, g) ==
    /\ MakesCall
    /\ g \notin Live
    /\ "complete" \in Contract /\ hasScript => Sent \subseteq methods[class]
    /\ LET value == [mPtr |-> g, class |-> class]
       IN /\ global' = [global EXCEPT ![n] = GlobalSet(n, value)]
          /\ IF mObjects[n] # NULL
             THEN status' = "exception" /\ UNCHANGED <<mObjects, object, calls, result>>
             ELSE /\ mObjects' = [mObjects EXCEPT ![n] = g]
                  /\ object' = [object EXCEPT ![g] =
                         [mName |-> n, mHasScript |-> hasScript, mMesh |-> FALSE]]
                  /\ IF hasScript /\ MethodFound(global'[n], "onCreate")
                     THEN /\ Len(calls) + 2 <= 2 * MaxCalls
                          /\ calls' = calls \o <<[fn |-> "new", self |-> value, about |-> g],
                                                 HandlerOf(global'[n], g)>>
                     ELSE UNCHANGED calls
                  /\ result' = IF hasScript THEN NoValue ELSE value
                  /\ UNCHANGED status
    /\ UNCHANGED <<methods, depth>>

\* The userdata and the global of a destroyed object stay.
destroyObjectWithTag(gone) ==
    /\ MakesCall
    /\ gone \subseteq Live /\ gone # {}
    /\ mObjects' = [n \in Names |-> IF mObjects[n] \in gone THEN NULL ELSE mObjects[n]]
    /\ object' = [g \in Objects |-> IF g \in gone THEN Freed ELSE object[g]]
    /\ UNCHANGED <<global, methods, depth, calls, status, result>>

\* Values a script has at hand: its globals, self, and what new returned.
AtHand == {global[n] : n \in Names} \cup {Last(calls).self, result}

\* name = value.
assignGlobal(n, value) ==
    /\ MakesCall
    /\ value \in AtHand \cup {NoValue}
    /\ "globals" \in Contract => mObjects[n] \notin Scripted
    /\ global' = [global EXCEPT ![n] = value]
    /\ UNCHANGED <<mObjects, object, methods, depth, calls, status, result>>

\* object.handler = f: __newindex is the class, which all its objects share.
setHandler(class, handler) ==
    /\ MakesCall
    /\ \E value \in AtHand \ {NoValue} : value.class = class
    /\ methods' = [methods EXCEPT ![class] = @ \cup {handler}]
    /\ UNCHANGED <<mObjects, object, global, depth, calls, status, result>>

Unusable(value, component, args) ==
    \/ value.mPtr \notin Live
    \/ component = "mesh" /\ ~object[value.mPtr].mMesh
    \/ ~args

\* __lua_GameObject_exec: no pointer is checked, and data is only set if there
\* are four arguments.  Of the operations, only createComponent matters here.
exec(value, component, args) ==
    /\ MakesCall
    /\ value \in AtHand
    /\ "alive" \in Contract /\ value # NoValue => value.mPtr \in Live
    /\ "results" \in Contract => value # NoValue
    /\ "loaded" \in Contract /\ component = "mesh" /\ value.mPtr \in Live => object[value.mPtr].mMesh
    /\ "args" \in Contract => args
    /\ IF Unusable(value, component, args)
       THEN status' = "undefined" /\ UNCHANGED object
       ELSE /\ object' = IF component = "self" THEN [object EXCEPT ![value.mPtr].mMesh = TRUE] ELSE object
            /\ UNCHANGED status
    /\ UNCHANGED <<mObjects, global, methods, depth, calls, result>>

-----------------------------------------------------------------------------
Native ==
    \/ initMissing \/ callInit
    \/ \E g \in Objects, event \in Sent : injectEvent(g, event)

Returns ==
    \/ \E failed \in BOOLEAN : initReturns(failed)
    \/ handlerReturns \/ onCreateReturns

Script ==
    \/ \E n \in Names, class \in Classes, hasScript \in BOOLEAN, g \in Objects :
         newGameObject(n, class, hasScript, g)
    \/ \E gone \in SUBSET Objects : destroyObjectWithTag(gone)
    \/ \E value \in Userdata \cup {NoValue} :
        \/ \E n \in Names : assignGlobal(n, value)
        \/ \E component \in {"self", "mesh"}, args \in BOOLEAN : exec(value, component, args)
    \/ \E class \in Classes, handler \in Handlers : setHandler(class, handler)

Next == Native \/ Returns \/ Script

Spec == Init /\ [][Next]_vars

-----------------------------------------------------------------------------
(***************************************************************************)
(* Properties                                                              *)
(***************************************************************************)
\* Type invariant: the calls are init's or one event's, and above it pairs of a
\* new and its onCreate.
TypeOK ==
    /\ mObjects \in [Names -> Objects \cup {NULL}]
    /\ object \in [Objects -> GameObject \cup {Freed}]
    /\ global \in [Names -> Userdata \cup {NoValue}]
    /\ methods \in [Classes -> SUBSET Handlers]
    /\ depth \in Int
    /\ calls \in Seq(Call)
    /\ \A k \in DOMAIN calls : calls[k].fn = "new" <=> k % 2 = 0
    /\ Len(calls) # 0 => Len(calls) % 2 = 1
    /\ status \in {"starting", "running", "exception", "undefined"}
    /\ ops \in 0 .. MaxOps
    /\ result \in Userdata \cup {NoValue}

\* The native code uses no deleted object, no missing component and no memory
\* below Lua's stack, however handlers create, destroy and call each other,
\* within the contract (injectScriptEvent's pops, __lua_GameObject_exec).
NeverUndefined == status # "undefined"

\* A live scripted object is what its global means, so that an event to an
\* object runs that object's handler, over destruction and reuse of names and
\* addresses (_l_newGameObject sets the global before the object exists).
GlobalsMeanTheirObjects ==
    status # "exception" => \A g \in Scripted : global[object[g].mName].mPtr = g

\* Each running handler got the object its event was for as self.
SelfIsTheObject == \A k \in DOMAIN calls : calls[k].self.mPtr = calls[k].about
=============================================================================
