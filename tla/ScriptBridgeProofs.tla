------------------------- MODULE ScriptBridgeProofs -------------------------
(***************************************************************************)
(* Proofs about ScriptBridge: within the contract no native code uses what *)
(* is not there, and every handler runs for the object its event was for,  *)
(* for every set of names, addresses and classes, however deep handlers    *)
(* nest and however many calls they make.                                  *)
(***************************************************************************)
EXTENDS ScriptBridge, SequenceTheorems, TLAPS

-----------------------------------------------------------------------------
(***************************************************************************)
(* The invariant.                                                          *)
(***************************************************************************)
\* A live object is in the application's map under its name.
InMap == \A g \in Live : mObjects[object[g].mName] = g

\* The class behind the global of a scripted object has every handler sent.
HandlersThere ==
    status # "exception" => \A g \in Scripted : Sent \subseteq methods[global[object[g].mName].class]

\* The base stack keeps its function's slot: nothing is ever popped too often.
StackKept == depth >= 0

IInv ==
    /\ TypeOK
    /\ InMap
    /\ "globals" \in Contract => GlobalsMeanTheirObjects /\ SelfIsTheObject
    /\ {"globals", "complete"} \subseteq Contract => HandlersThere /\ StackKept

\* Objects are records.
LEMMA LiveObject ==
    ASSUME TypeOK, NEW g \in Live
    PROVE  /\ g \in Objects /\ object[g] \in GameObject
           /\ object[g].mName \in Names /\ object[g].mHasScript \in BOOLEAN
BY DEF TypeOK, Live, GameObject

LEMMA Values ==
    /\ NoValue \notin Userdata /\ NoValue.mPtr = NULL
    /\ \A value \in Userdata : value.mPtr \in Objects /\ value.class \in Classes
    /\ \A g \in Objects, c \in Classes : [mPtr |-> g, class |-> c] \in Userdata
BY BridgeAssumption DEF NoValue, Userdata

\* What depends on calls alone.
CallsOK(s) ==
    /\ s \in Seq(Call)
    /\ \A k \in DOMAIN s : s[k].fn = "new" <=> k % 2 = 0
    /\ Len(s) # 0 => Len(s) % 2 = 1

SelfIn(s) == \A k \in DOMAIN s : s[k].self.mPtr = s[k].about

LEMMA OneCall ==
    ASSUME NEW c \in Call, c.fn # "new"
    PROVE  CallsOK(<<c>>) /\ (c.self.mPtr = c.about => SelfIn(<<c>>))
BY DEF CallsOK, SelfIn

LEMMA NoCalls == CallsOK(<<>>) /\ SelfIn(<<>>)
BY DEF CallsOK, SelfIn

\* new and onCreate above a running call.
LEMMA TwoMoreCalls ==
    ASSUME NEW s, CallsOK(s), s # <<>>, NEW c \in Call, NEW d \in Call, c.fn = "new", d.fn # "new"
    PROVE  /\ CallsOK(s \o <<c, d>>)
           /\ SelfIn(s) /\ c.self.mPtr = c.about /\ d.self.mPtr = d.about => SelfIn(s \o <<c, d>>)
<1> DEFINE t == s \o <<c, d>>
           n == Len(s)
<1>1. s \in Seq(Call) /\ n \in Nat /\ n % 2 = 1 /\ DOMAIN s = 1 .. n
  BY LenProperties, EmptySeq DEF CallsOK
<1>2. <<c, d>> \in Seq(Call) /\ Len(<<c, d>>) = 2
  OBVIOUS
<1>3. /\ t \in Seq(Call) /\ Len(t) = n + 2 /\ DOMAIN t = 1 .. n + 2
      /\ \A k \in 1 .. n : t[k] = s[k]
      /\ t[n + 1] = c /\ t[n + 2] = d
  BY <1>1, <1>2, LenProperties
<1> HIDE DEF t, n
<1>4. (n + 1) % 2 = 0 /\ (n + 2) % 2 = 1
  BY <1>1
<1>5. \A k \in 1 .. n + 2 : k \in 1 .. n \/ k = n + 1 \/ k = n + 2
  BY <1>1
<1>6. \A k \in DOMAIN t : t[k].fn = "new" <=> k % 2 = 0
  BY <1>1, <1>3, <1>4, <1>5 DEF CallsOK
<1>7. SelfIn(s) /\ c.self.mPtr = c.about /\ d.self.mPtr = d.about => SelfIn(t)
  BY <1>1, <1>3, <1>5 DEF SelfIn
<1> QED BY <1>1, <1>3, <1>4, <1>6, <1>7 DEF CallsOK, t

\* onCreate and new return.
LEMMA TwoCallsFewer ==
    ASSUME NEW s, CallsOK(s), Len(s) > 1
    PROVE  /\ CallsOK(SubSeq(s, 1, Len(s) - 2))
           /\ SelfIn(s) => SelfIn(SubSeq(s, 1, Len(s) - 2))
<1> DEFINE t == SubSeq(s, 1, Len(s) - 2)
           n == Len(s)
<1>1. s \in Seq(Call) /\ n \in Nat /\ n % 2 = 1 /\ n > 1 /\ DOMAIN s = 1 .. n
  BY LenProperties DEF CallsOK
<1>2. n - 2 \in Nat /\ (n - 2) % 2 = 1
  BY <1>1
<1>3. t \in Seq(Call) /\ Len(t) = n - 2 /\ DOMAIN t = 1 .. n - 2 /\ \A k \in 1 .. n - 2 : t[k] = s[k]
  BY <1>1, <1>2, SubSeqProperties, LenProperties
<1> HIDE DEF t, n
<1>4. \A k \in 1 .. n - 2 : k \in 1 .. n
  BY <1>1, <1>2
<1>5. CallsOK(t)
  BY <1>1, <1>2, <1>3, <1>4 DEF CallsOK
<1>6. SelfIn(s) => SelfIn(t)
  BY <1>1, <1>3, <1>4 DEF SelfIn
<1> QED BY <1>5, <1>6 DEF t

\* The type invariant in two parts, and SelfIsTheObject.
TypeRest ==
    /\ mObjects \in [Names -> Objects \cup {NULL}]
    /\ object \in [Objects -> GameObject \cup {Freed}]
    /\ global \in [Names -> Userdata \cup {NoValue}]
    /\ methods \in [Classes -> SUBSET Handlers]
    /\ depth \in Int
    /\ status \in {"starting", "running", "exception", "undefined"}
    /\ ops \in 0 .. MaxOps
    /\ result \in Userdata \cup {NoValue}

LEMMA TypeSplit == (TypeOK <=> TypeRest /\ CallsOK(calls)) /\ (SelfIsTheObject <=> SelfIn(calls))
BY DEF TypeOK, TypeRest, CallsOK, SelfIsTheObject, SelfIn
LEMMA TypeSplitNext ==
    (TypeOK' <=> TypeRest' /\ CallsOK(calls')) /\ (SelfIsTheObject' <=> SelfIn(calls'))
BY DEF TypeOK, TypeRest, CallsOK, SelfIsTheObject, SelfIn

-----------------------------------------------------------------------------
LEMMA InitEstablishesInvariant ==
    ASSUME Init
    PROVE  IInv
<1>1. \A g \in Objects : object[g] = Freed
  BY DEF Init
<1>2. Live = {}
  BY <1>1 DEF Live
<1>3. TypeRest
  BY BridgeAssumption DEF Init, TypeRest, LeftByScripts
<1>4. CallsOK(calls) /\ SelfIn(calls)
  BY NoCalls DEF Init
<1>5. depth >= 0
  BY DEF Init, LeftByScripts
<1> QED BY <1>2, <1>3, <1>4, <1>5, TypeSplit
        DEF IInv, InMap, GlobalsMeanTheirObjects, HandlersThere, StackKept, Scripted

\* Steps that leave objects, globals and methods alone.
LEMMA ObjectsKept ==
    ASSUME IInv, UNCHANGED <<mObjects, object, global, methods>>,
           TypeOK', status = "exception" => status' = "exception"
    PROVE  /\ InMap'
           /\ "globals" \in Contract => GlobalsMeanTheirObjects'
           /\ {"globals", "complete"} \subseteq Contract => HandlersThere'
<1>1. Live' = Live /\ Scripted' = Scripted
  BY DEF Live, Scripted
<1> QED BY <1>1 DEF IInv, InMap, GlobalsMeanTheirObjects, HandlersThere

-----------------------------------------------------------------------------
\* executeFunction("init"), and every return.
LEMMA InitAndReturnsKeepInvariant ==
    ASSUME IInv, initMissing \/ callInit \/ Returns
    PROVE  IInv'
<1>0. TypeRest /\ CallsOK(calls) /\ ("globals" \in Contract => SelfIn(calls))
  BY TypeSplit DEF IInv
<1>1. UNCHANGED <<mObjects, object, global, methods>>
  BY DEF initMissing, callInit, Returns, initReturns, handlerReturns, onCreateReturns
<1>2. status = "exception" => status' = "exception"
  BY DEF initMissing, callInit, Returns, initReturns, handlerReturns, onCreateReturns
<1>3. TypeRest' /\ (StackKept => StackKept')
  BY <1>0, BridgeAssumption DEF TypeRest, StackKept, AfterHandler,
     initMissing, callInit, Returns, initReturns, handlerReturns, onCreateReturns
<1>4. CallsOK(calls') /\ ("globals" \in Contract => SelfIn(calls'))
  <2>1. CASE initMissing
    BY <1>0, <2>1 DEF initMissing
  <2>2. CASE callInit
    <3> DEFINE c == [fn |-> "init", self |-> NoValue, about |-> NULL]
    <3>1. c \in Call /\ c.fn # "new" /\ c.self.mPtr = c.about
      BY Values DEF Call
    <3>2. calls' = <<c>>
      BY <2>2 DEF callInit
    <3> HIDE DEF c
    <3> QED BY <3>1, <3>2, OneCall
  <2>3. CASE (\E failed \in BOOLEAN : initReturns(failed)) \/ handlerReturns
    BY <2>3, NoCalls DEF initReturns, handlerReturns
  <2>4. CASE onCreateReturns
    BY <1>0, <2>4, TwoCallsFewer DEF onCreateReturns, UnderOnCreate
  <2> QED BY <2>1, <2>2, <2>3, <2>4 DEF Returns
<1>5. TypeOK'
  BY <1>3, <1>4, TypeSplitNext
<1> QED BY <1>1, <1>2, <1>3, <1>4, <1>5, ObjectsKept, TypeSplitNext DEF IInv

\* What the global of a scripted object is when an event is sent.
LEMMA EventFindsItsHandler ==
    ASSUME IInv, "globals" \in Contract, status # "exception", NEW g \in Scripted
    PROVE  LET value == global[object[g].mName]
           IN /\ value \in Userdata /\ value # NoValue /\ value.mPtr = g
              /\ "complete" \in Contract => \A event \in Sent : MethodFound(value, event)
<1> DEFINE value == global[object[g].mName]
<1>1. g \in Live /\ g \in Objects /\ object[g].mName \in Names
  BY LiveObject DEF IInv, Scripted
<1>2. value \in Userdata \cup {NoValue}
  BY <1>1 DEF IInv, TypeOK
<1>3. value.mPtr = g
  BY DEF IInv, GlobalsMeanTheirObjects
<1>4. value # NoValue
  BY <1>1, <1>3, Values, BridgeAssumption
<1>5. "complete" \in Contract => Sent \subseteq methods[value.class]
  BY DEF IInv, HandlersThere
<1> QED BY <1>2, <1>3, <1>4, <1>5 DEF MethodFound

\* injectScriptEvent, below every call.
LEMMA InjectEventKeepsInvariant ==
    ASSUME IInv, NEW g \in Objects, NEW event \in Sent, injectEvent(g, event)
    PROVE  IInv'
<1> DEFINE value == global[object[g].mName]
           c == HandlerOf(value, g)
<1>0. TypeRest /\ CallsOK(calls) /\ TypeOK /\ g \in Live /\ status = "running"
  BY TypeSplit DEF IInv, injectEvent
<1>1. UNCHANGED <<mObjects, object, global, methods, result>> /\ ops' = 0
  BY DEF injectEvent
<1>2. value \in Userdata \cup {NoValue}
  BY <1>0, LiveObject DEF TypeRest
<1>3. \/ UNCHANGED <<depth, calls, status>>
      \/ status' = "undefined" /\ UNCHANGED <<depth, calls>> /\ depth < -1
      \/ calls' = <<c>> /\ UNCHANGED <<depth, status>> /\ object[g].mHasScript
      \/ depth' = depth - 1 /\ UNCHANGED <<calls, status>> /\ object[g].mHasScript
                            /\ ~MethodFound(value, event)
  BY <1>0, LiveObject DEF injectEvent, PoppedTooMany
<1>4. TypeRest'
  BY <1>0, <1>1, <1>3, BridgeAssumption DEF TypeRest
<1>5. c \in Call /\ c.fn # "new" /\ c.about = g /\ c.self = value
  BY <1>2 DEF Call, HandlerOf
<1>6. object[g].mHasScript => g \in Scripted
  BY <1>0 DEF Scripted
<1>7. "globals" \in Contract /\ object[g].mHasScript => value.mPtr = g
  BY <1>0, <1>6, EventFindsItsHandler
<1> HIDE DEF c
<1>8. CallsOK(calls') /\ ("globals" \in Contract => SelfIn(calls'))
  <2>1. CASE calls' = calls
    BY <1>0, <2>1, TypeSplit DEF IInv
  <2>2. CASE calls' = <<c>> /\ object[g].mHasScript
    BY <1>5, <1>7, <2>2, OneCall
  <2> QED BY <1>3, <2>1, <2>2
<1>9. {"globals", "complete"} \subseteq Contract => StackKept'
  BY <1>0, <1>3, <1>6, EventFindsItsHandler DEF IInv, StackKept
<1>10. TypeOK'
  BY <1>4, <1>8, TypeSplitNext
<1> QED BY <1>0, <1>1, <1>8, <1>9, <1>10, ObjectsKept, TypeSplitNext DEF IInv

-----------------------------------------------------------------------------
(***************************************************************************)
(* What handlers, and init, call.                                          *)
(***************************************************************************)
\* new: an object, and onCreate above the handler that called it.
LEMMA NewKeepsInvariant ==
    ASSUME IInv, NEW n \in Names, NEW class \in Classes, NEW hasScript \in BOOLEAN, NEW g \in Objects,
           newGameObject(n, class, hasScript, g)
    PROVE  IInv'
<1> DEFINE value == [mPtr |-> g, class |-> class]
           o == [mName |-> n, mHasScript |-> hasScript, mMesh |-> FALSE]
<1>0. TypeRest /\ CallsOK(calls) /\ TypeOK /\ calls # <<>> /\ status \in {"starting", "running"}
  BY TypeSplit DEF IInv, newGameObject, MakesCall, Scripting
<1>1. /\ global' = [global EXCEPT ![n] = value] /\ UNCHANGED <<methods, depth>>
      /\ ops' = ops + 1 /\ ops < MaxOps /\ g \notin Live
      /\ "complete" \in Contract /\ hasScript => Sent \subseteq methods[class]
  BY DEF newGameObject, MakesCall, GlobalSet
<1>2. value \in Userdata /\ value.mPtr = g /\ value.class = class
  BY Values
<1>3. o \in GameObject /\ o.mName = n /\ o.mHasScript = hasScript
  BY DEF GameObject
<1> HIDE DEF value, o
<1>4. /\ global' \in [Names -> Userdata \cup {NoValue}] /\ global'[n] = value
      /\ \A m \in Names : m # n => global'[m] = global[m]
  BY <1>0, <1>1, <1>2 DEF TypeRest
<1>5. CASE mObjects[n] # NULL
  <2>1. status' = "exception" /\ UNCHANGED <<mObjects, object, calls, result>>
    BY <1>5 DEF newGameObject
  <2>2. TypeRest'
    BY <1>0, <1>1, <1>4, <2>1, BridgeAssumption DEF TypeRest
  <2>3. Live' = Live
    BY <2>1 DEF Live
  <2>4. TypeOK'
    BY <1>0, <2>1, <2>2, TypeSplitNext
  <2> QED BY <1>0, <1>1, <2>1, <2>3, <2>4, TypeSplit, TypeSplitNext
          DEF IInv, InMap, GlobalsMeanTheirObjects, HandlersThere, StackKept
<1>6. CASE mObjects[n] = NULL
  <2>1. /\ mObjects' = [mObjects EXCEPT ![n] = g] /\ object' = [object EXCEPT ![g] = o]
        /\ status' = status /\ result' = IF hasScript THEN NoValue ELSE value
    BY <1>6 DEF newGameObject, value, o
  <2>2. /\ mObjects' \in [Names -> Objects \cup {NULL}] /\ mObjects'[n] = g
        /\ \A m \in Names : m # n => mObjects'[m] = mObjects[m]
    BY <1>0, <2>1 DEF TypeRest
  <2>3. /\ object' \in [Objects -> GameObject \cup {Freed}] /\ object'[g] = o
        /\ \A h \in Objects : h # g => object'[h] = object[h]
    BY <1>0, <1>3, <2>1 DEF TypeRest
  <2>4. TypeRest'
    BY <1>0, <1>1, <1>2, <1>4, <2>1, <2>2, <2>3, BridgeAssumption DEF TypeRest
  <2>5. CallsOK(calls') /\ ("globals" \in Contract => SelfIn(calls'))
    <3>1. CASE hasScript /\ MethodFound(global'[n], "onCreate")
      <4> DEFINE c == [fn |-> "new", self |-> value, about |-> g]
                 d == HandlerOf(value, g)
      <4>1. calls' = calls \o <<c, d>>
        BY <1>4, <1>6, <3>1 DEF newGameObject, value
      <4>2. c \in Call /\ d \in Call /\ c.fn = "new" /\ d.fn # "new"
            /\ c.self.mPtr = c.about /\ d.self.mPtr = d.about
        BY <1>2 DEF Call, HandlerOf
      <4> HIDE DEF c, d
      <4> QED BY <1>0, <4>1, <4>2, TwoMoreCalls, TypeSplit DEF IInv
    <3>2. CASE ~(hasScript /\ MethodFound(global'[n], "onCreate"))
      <4>1. calls' = calls
        BY <1>6, <3>2 DEF newGameObject
      <4> QED BY <1>0, <4>1, TypeSplit DEF IInv
    <3> QED BY <3>1, <3>2
  <2>6. Live' = Live \cup {g} /\ \A h \in Live : h # g /\ object'[h] = object[h] /\ object[h].mName \in Names
    <3>1. o # Freed
      BY <1>3, <1>0, BridgeAssumption
    <3> QED BY <1>0, <1>1, <2>3, <3>1, LiveObject DEF Live
  <2>7. \A h \in Live : object[h].mName # n
    BY <1>6, <2>6, BridgeAssumption DEF IInv, InMap, Live
  <2>8. InMap'
    BY <1>3, <2>2, <2>3, <2>6, <2>7 DEF IInv, InMap
  <2>9. \A h \in Scripted' : (h = g /\ hasScript) \/ (h \in Scripted /\ h # g)
    BY <1>1, <1>3, <2>3, <2>6 DEF Scripted
  <2>10. "globals" \in Contract => GlobalsMeanTheirObjects'
    BY <1>2, <1>3, <1>4, <2>1, <2>3, <2>6, <2>7, <2>9 DEF IInv, GlobalsMeanTheirObjects, Scripted
  <2>11. {"globals", "complete"} \subseteq Contract => HandlersThere' /\ StackKept'
    BY <1>1, <1>2, <1>3, <1>4, <2>1, <2>3, <2>6, <2>7, <2>9 DEF IInv, HandlersThere, StackKept, Scripted
  <2>12. TypeOK'
    BY <2>4, <2>5, TypeSplitNext
  <2> QED BY <2>5, <2>8, <2>10, <2>11, <2>12, TypeSplitNext DEF IInv
<1> QED BY <1>5, <1>6

\* Objects die; their globals stay.
LEMMA DestroyKeepsInvariant ==
    ASSUME IInv, NEW gone \in SUBSET Objects, destroyObjectWithTag(gone)
    PROVE  IInv'
<1>0. TypeRest /\ CallsOK(calls) /\ TypeOK
  BY TypeSplit DEF IInv
<1>1. /\ mObjects' = [m \in Names |-> IF mObjects[m] \in gone THEN NULL ELSE mObjects[m]]
      /\ object' = [h \in Objects |-> IF h \in gone THEN Freed ELSE object[h]]
      /\ UNCHANGED <<global, methods, depth, calls, status, result>>
      /\ ops' = ops + 1 /\ ops < MaxOps
  BY DEF destroyObjectWithTag, MakesCall
<1>2. TypeRest'
  BY <1>0, <1>1, BridgeAssumption DEF TypeRest
<1>3. TypeOK'
  BY <1>0, <1>1, <1>2, TypeSplitNext
<1>4. Live' = Live \ gone /\ \A h \in Live' : object'[h] = object[h]
  BY <1>1 DEF Live
<1>5. \A h \in Live' : h \in Live /\ object[h].mName \in Names /\ mObjects[object[h].mName] = h
  BY <1>0, <1>4, LiveObject DEF IInv, InMap
<1>6. InMap'
  BY <1>1, <1>4, <1>5 DEF InMap
<1>7. Scripted' \subseteq Scripted
  BY <1>4 DEF Scripted
<1>8. \A h \in Scripted' : object'[h].mName = object[h].mName
  BY <1>4 DEF Scripted
<1> QED BY <1>0, <1>1, <1>3, <1>6, <1>7, <1>8, TypeSplit, TypeSplitNext
        DEF IInv, GlobalsMeanTheirObjects, HandlersThere, StackKept

\* name = value leaves the globals of scripted objects alone.
LEMMA AssignKeepsInvariant ==
    ASSUME IInv, NEW n \in Names, NEW value \in Userdata \cup {NoValue}, assignGlobal(n, value)
    PROVE  IInv'
<1>0. TypeRest /\ CallsOK(calls) /\ TypeOK
  BY TypeSplit DEF IInv
<1>1. /\ global' = [global EXCEPT ![n] = value]
      /\ "globals" \in Contract => mObjects[n] \notin Scripted
      /\ UNCHANGED <<mObjects, object, methods, depth, calls, status, result>>
      /\ ops' = ops + 1 /\ ops < MaxOps
  BY DEF assignGlobal, MakesCall
<1>2. /\ global' \in [Names -> Userdata \cup {NoValue}]
      /\ \A m \in Names : m # n => global'[m] = global[m]
  BY <1>0, <1>1 DEF TypeRest
<1>3. TypeRest'
  BY <1>0, <1>1, <1>2, BridgeAssumption DEF TypeRest
<1>4. TypeOK'
  BY <1>0, <1>1, <1>3, TypeSplitNext
<1>5. Live' = Live /\ Scripted' = Scripted
  BY <1>1 DEF Live, Scripted
<1>6. InMap'
  BY <1>1, <1>5 DEF IInv, InMap
<1>7. \A h \in Scripted : h \in Live /\ object[h].mName \in Names /\ mObjects[object[h].mName] = h
  BY <1>0, LiveObject DEF IInv, InMap, Scripted
<1>8. "globals" \in Contract => \A h \in Scripted : global'[object[h].mName] = global[object[h].mName]
  BY <1>1, <1>2, <1>7
<1> QED BY <1>0, <1>1, <1>4, <1>5, <1>6, <1>8, TypeSplit, TypeSplitNext
        DEF IInv, GlobalsMeanTheirObjects, HandlersThere, StackKept

\* Methods only come; a component is created.
LEMMA SetHandlerKeepsInvariant ==
    ASSUME IInv, NEW class \in Classes, NEW handler \in Handlers, setHandler(class, handler)
    PROVE  IInv'
<1>0. TypeRest /\ CallsOK(calls) /\ TypeOK
  BY TypeSplit DEF IInv
<1>1. /\ methods' = [methods EXCEPT ![class] = methods[class] \cup {handler}]
      /\ UNCHANGED <<mObjects, object, global, depth, calls, status, result>>
      /\ ops' = ops + 1 /\ ops < MaxOps
  BY DEF setHandler, MakesCall
<1>2. methods' \in [Classes -> SUBSET Handlers] /\ \A c \in Classes : methods[c] \subseteq methods'[c]
  BY <1>0, <1>1 DEF TypeRest
<1>3. TypeRest'
  BY <1>0, <1>1, <1>2, BridgeAssumption DEF TypeRest
<1>4. TypeOK'
  BY <1>0, <1>1, <1>3, TypeSplitNext
<1>5. Live' = Live /\ Scripted' = Scripted
  BY <1>1 DEF Live, Scripted
<1>6. "globals" \in Contract /\ status # "exception"
          => \A h \in Scripted : global[object[h].mName].class \in Classes
  BY EventFindsItsHandler, Values
<1>7. {"globals", "complete"} \subseteq Contract => HandlersThere'
  BY <1>1, <1>2, <1>5, <1>6 DEF IInv, HandlersThere
<1> QED BY <1>0, <1>1, <1>4, <1>5, <1>7, TypeSplit, TypeSplitNext
        DEF IInv, InMap, GlobalsMeanTheirObjects, StackKept

LEMMA ExecKeepsInvariant ==
    ASSUME IInv, NEW value \in Userdata \cup {NoValue}, NEW component \in {"self", "mesh"},
           NEW args \in BOOLEAN, exec(value, component, args)
    PROVE  IInv'
<1>0. TypeRest /\ CallsOK(calls) /\ TypeOK
  BY TypeSplit DEF IInv
<1>1. /\ UNCHANGED <<mObjects, global, methods, depth, calls, result>>
      /\ ops' = ops + 1 /\ ops < MaxOps
      /\ status \in {"starting", "running"} /\ status' \in {status, "undefined"}
  BY DEF exec, MakesCall, Scripting
<1>2. CASE object' = object
  <2>1. TypeRest'
    BY <1>0, <1>1, <1>2, BridgeAssumption DEF TypeRest
  <2>2. TypeOK'
    BY <1>0, <1>1, <2>1, TypeSplitNext
  <2> QED BY <1>0, <1>1, <1>2, <2>2, ObjectsKept, TypeSplit, TypeSplitNext DEF IInv, StackKept
<1>3. CASE object' # object
  <2> DEFINE g == value.mPtr
             o == [object[g] EXCEPT !.mMesh = TRUE]
  <2>1. g \in Live /\ object' = [object EXCEPT ![g] = o] /\ status' = status
    BY <1>3 DEF exec, Unusable
  <2>2. g \in Objects /\ object[g] \in GameObject
    BY <1>0, <2>1, LiveObject
  <2>3. o \in GameObject /\ o.mName = object[g].mName /\ o.mHasScript = object[g].mHasScript
    BY <2>2 DEF GameObject
  <2> HIDE DEF g, o
  <2>4. /\ object' \in [Objects -> GameObject \cup {Freed}] /\ object'[g] = o
        /\ \A h \in Objects : h # g => object'[h] = object[h]
    BY <1>0, <2>1, <2>2, <2>3 DEF TypeRest
  <2>5. TypeRest'
    BY <1>0, <1>1, <2>1, <2>4, BridgeAssumption DEF TypeRest
  <2>6. TypeOK'
    BY <1>0, <1>1, <2>5, TypeSplitNext
  <2>7. o # Freed
    BY <2>3, <1>0, BridgeAssumption
  <2>8. Live' = Live /\ \A h \in Live : /\ object'[h].mName = object[h].mName
                                        /\ object'[h].mHasScript = object[h].mHasScript
    BY <2>1, <2>3, <2>4, <2>7 DEF Live
  <2>9. Scripted' = Scripted /\ \A h \in Scripted : object'[h].mName = object[h].mName
    BY <2>8 DEF Scripted
  <2> QED BY <1>0, <1>1, <2>1, <2>6, <2>8, <2>9, TypeSplit, TypeSplitNext
          DEF IInv, InMap, GlobalsMeanTheirObjects, HandlersThere, StackKept
<1> QED BY <1>2, <1>3

LEMMA NextKeepsInvariant ==
    ASSUME IInv, [Next]_vars
    PROVE  IInv'
<1>1. CASE initMissing \/ callInit \/ Returns
  BY <1>1, InitAndReturnsKeepInvariant
<1>2. CASE \E g \in Objects, event \in Sent : injectEvent(g, event)
  BY <1>2, InjectEventKeepsInvariant
<1>3. CASE \E n \in Names, class \in Classes, hasScript \in BOOLEAN, g \in Objects :
               newGameObject(n, class, hasScript, g)
  <2>1. PICK n \in Names, class \in Classes, hasScript \in BOOLEAN, g \in Objects :
            newGameObject(n, class, hasScript, g)
    BY <1>3
  <2> QED BY <2>1, NewKeepsInvariant
<1>4. CASE \E gone \in SUBSET Objects : destroyObjectWithTag(gone)
  BY <1>4, DestroyKeepsInvariant
<1>5. CASE \E value \in Userdata \cup {NoValue}, n \in Names : assignGlobal(n, value)
  BY <1>5, AssignKeepsInvariant
<1>6. CASE \E value \in Userdata \cup {NoValue}, component \in {"self", "mesh"}, args \in BOOLEAN :
               exec(value, component, args)
  <2>1. PICK value \in Userdata \cup {NoValue}, component \in {"self", "mesh"}, args \in BOOLEAN :
            exec(value, component, args)
    BY <1>6
  <2> QED BY <2>1, ExecKeepsInvariant
<1>7. CASE \E class \in Classes, handler \in Handlers : setHandler(class, handler)
  BY <1>7, SetHandlerKeepsInvariant
<1>8. CASE UNCHANGED vars
  <2>1. TypeOK' /\ SelfIsTheObject' = SelfIsTheObject /\ StackKept' = StackKept
    BY <1>8 DEF vars, IInv, TypeOK, SelfIsTheObject, StackKept
  <2> QED BY <1>8, <2>1, ObjectsKept DEF vars, IInv
<1> QED BY <1>1, <1>2, <1>3, <1>4, <1>5, <1>6, <1>7, <1>8 DEF Next, Native, Script

THEOREM BridgeInvariant == Spec => []IInv
<1>1. Init => IInv
  BY InitEstablishesInvariant
<1>2. IInv /\ [Next]_vars => IInv'
  BY NextKeepsInvariant
<1> QED BY <1>1, <1>2, PTL DEF Spec

\* The running calls are always init's or one event's, and above it pairs of a
\* new and its onCreate.
THEOREM BridgeTypeOK == Spec => []TypeOK
BY BridgeInvariant, PTL DEF IInv

\* As long as no script assigns to the name of a live scripted object, that name
\* means the object, however many objects were destroyed and made since.
THEOREM BridgeGlobalsMeanTheirObjects ==
    ASSUME "globals" \in Contract
    PROVE  Spec => []GlobalsMeanTheirObjects
<1>1. IInv => GlobalsMeanTheirObjects
  BY DEF IInv
<1> QED BY <1>1, BridgeInvariant, PTL

\* Then every handler, nested or not, got the object its event was for.
THEOREM BridgeSelfIsTheObject ==
    ASSUME "globals" \in Contract
    PROVE  Spec => []SelfIsTheObject
<1>1. IInv => SelfIsTheObject
  BY DEF IInv
<1> QED BY <1>1, BridgeInvariant, PTL

\* Within the whole contract, nothing undefined happens: above all the base stack
\* is never popped below its bottom, because no event misses its handler.
THEOREM BridgeNeverUndefined ==
    ASSUME {"complete", "globals", "alive", "results", "loaded", "args"} \subseteq Contract
    PROVE  Spec => []NeverUndefined
<1>1. Init => NeverUndefined
  BY DEF Init, NeverUndefined
<1>2. ASSUME IInv, NeverUndefined, [Next]_vars
      PROVE  NeverUndefined'
  <2>1. CASE \E g \in Objects, event \in Sent : injectEvent(g, event)
    <3>1. depth >= 0 /\ depth \in Int
      BY <1>2 DEF IInv, StackKept, TypeOK
    <3> QED BY <1>2, <2>1, <3>1 DEF injectEvent, NeverUndefined
  <2>2. CASE \E value \in Userdata \cup {NoValue}, component \in {"self", "mesh"}, args \in BOOLEAN :
                 exec(value, component, args)
    <3>1. PICK value \in Userdata \cup {NoValue}, component \in {"self", "mesh"}, args \in BOOLEAN :
              exec(value, component, args)
      BY <2>2
    <3>2. ~Unusable(value, component, args)
      BY <3>1 DEF exec, Unusable
    <3> QED BY <1>2, <3>1, <3>2 DEF exec, NeverUndefined
  <2>3. CASE \E n \in Names, class \in Classes, hasScript \in BOOLEAN, g \in Objects :
                 newGameObject(n, class, hasScript, g)
    <3>1. PICK n \in Names, class \in Classes, hasScript \in BOOLEAN, g \in Objects :
              newGameObject(n, class, hasScript, g)
      BY <2>3
    <3>2. status' \in {status, "exception"}
      BY <3>1 DEF newGameObject
    <3> QED BY <1>2, <3>2 DEF NeverUndefined
  <2>4. CASE \/ initMissing \/ callInit \/ Returns
             \/ \E gone \in SUBSET Objects : destroyObjectWithTag(gone)
             \/ \E value \in Userdata \cup {NoValue}, n \in Names : assignGlobal(n, value)
             \/ \E class \in Classes, handler \in Handlers : setHandler(class, handler)
             \/ UNCHANGED vars
    BY <1>2, <2>4 DEF NeverUndefined, vars, initMissing, callInit, Returns, initReturns,
       handlerReturns, onCreateReturns, destroyObjectWithTag, assignGlobal, setHandler
  <2> QED BY <1>2, <2>1, <2>2, <2>3, <2>4 DEF Next, Native, Script
<1> QED BY <1>1, <1>2, BridgeInvariant, PTL DEF Spec
=============================================================================
