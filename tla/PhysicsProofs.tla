---------------------------- MODULE PhysicsProofs ----------------------------
(***************************************************************************)
(* Proofs about Physics: the world holds the bodies of the live components, *)
(* and updateWorld tells every pair unless a handler's destroying breaks   *)
(* it, for every number of objects, bodies and manifolds.                  *)
(***************************************************************************)
EXTENDS Physics, FiniteSetTheorems, SequenceTheorems, TLAPS

-----------------------------------------------------------------------------
(***************************************************************************)
(* The invariant.                                                          *)
(***************************************************************************)
\* While a pair is told, it is one of objects.
PairThere == pc \in {"a", "b"} => a \in Objects /\ b \in Objects

\* The handlers run after a telling, and there is one in the loop only.
HandlerInLoop == handling => pc \in {"b", "loop", "undefined"}

\* The loop knows every manifold; it does until a body of one leaves the world.
Whole == Len(manifolds) = numManifolds

\* What the loop has done so far.
ToldSoFar ==
    /\ told \in Seq(Objects \X Objects)
    /\ \A k \in 1 .. Len(told) : told[k] = Mutual(pairs[(k + 1) \div 2])[2 - (k % 2)]

ToldInTurn ==
    /\ ToldSoFar
    /\ pc = "loop" => Len(told) = 2 * i
    /\ pc = "a" => Len(told) = 2 * i - 2
    /\ pc = "b" => Len(told) = 2 * i - 1
    /\ pc \in {"a", "b"} => pairs[i] = <<a, b>>

\* A loop that has lost a manifold before the last pair cannot get there.
Halfway ==
    /\ Len(manifolds) <= numManifolds
    /\ i <= numManifolds
    /\ Len(pairs) = numManifolds
    /\ pc \in {"a", "b"} => i >= 1
    /\ Whole => \A k \in 1 .. numManifolds : pairs[k] = UserPair(manifolds[k])
    /\ (Whole \/ i = numManifolds) => ToldInTurn

LoopInv == pc \in {"loop", "a", "b"} => Halfway

\* Only a destroyed object of a pair makes the loop lose a manifold.
LostIfSpoiled == (pc \in {"loop", "a", "b"} /\ ~spoiled) => Whole

IInv ==
    /\ TypeOK /\ PairThere /\ HandlerInLoop /\ LoopInv
    /\ "load once" \in Contract => WorldMatchesComponents /\ LostIfSpoiled

-----------------------------------------------------------------------------
(***************************************************************************)
(* Facts about components, bodies and manifolds.                           *)
(***************************************************************************)
LEMMA Bounds == MaxManifolds \in Nat /\ MaxOps \in Nat
BY PhysicsAssumption

LEMMA ComponentOfLive ==
    ASSUME TypeOK, NEW g \in Live
    PROVE  g \in Objects /\ component[g] \in Component /\ component[g].mBody \in Bodies \cup {NULL}
BY DEF TypeOK, Live, Component

LEMMA BodyInWorld ==
    ASSUME TypeOK, NEW r \in world
    PROVE  r \in Bodies /\ body[r] \in Body /\ body[r].user \in Objects
BY DEF TypeOK, Body

LEMMA RecordsAreNotFreed ==
    /\ Freed \notin Component /\ Freed \notin Body
    /\ \A g \in Objects, static \in BOOLEAN : NewBody(g, static) \in Body /\ NewBody(g, static).user = g
BY PhysicsAssumption DEF Component, Body, NewBody

LEMMA ManifoldBodies ==
    ASSUME TypeOK, NEW k \in DOMAIN manifolds
    PROVE  /\ manifolds[k] = <<manifolds[k][1], manifolds[k][2]>>
           /\ manifolds[k][1] \in world /\ manifolds[k][2] \in world
<1>1. manifolds \in Seq(world \X world)
  BY DEF TypeOK
<1>2. manifolds[k] \in world \X world
  BY <1>1, ElementOfSeq, LenProperties
<1> QED BY <1>2

LEMMA UsersAreObjects ==
    ASSUME TypeOK, NEW k \in DOMAIN manifolds
    PROVE  /\ UserPair(manifolds[k]) \in Objects \X Objects
           /\ UserPair(manifolds[k])[1] = body[manifolds[k][1]].user
           /\ UserPair(manifolds[k])[2] = body[manifolds[k][2]].user
BY ManifoldBodies, BodyInWorld DEF UserPair

LEMMA FirstNumbers ==
    ASSUME NEW n \in Nat
    PROVE  IsFiniteSet(1 .. n) /\ Cardinality(1 .. n) = n
BY FS_Interval

\* The manifolds that are left when a body goes.
LEMMA RemovedType ==
    ASSUME TypeOK, NEW r, removeFromWorld(r)
    PROVE  /\ manifolds' \in Seq(world' \X world') /\ Len(manifolds') <= MaxManifolds
           /\ About(manifolds, r) = {} => manifolds' = manifolds
           /\ About(manifolds, r) # {} => Len(manifolds') < Len(manifolds)
<1> DEFINE kept == DOMAIN manifolds \ About(manifolds, r)
           n == Cardinality(kept)
<1>0. /\ manifolds \in Seq(world \X world) /\ Len(manifolds) \in Nat /\ Len(manifolds) <= MaxManifolds
      /\ DOMAIN manifolds = 1 .. Len(manifolds) /\ MaxManifolds \in Nat /\ world' = world \ {r}
  BY Bounds, LenProperties DEF TypeOK, removeFromWorld
<1>1. \A k \in kept : manifolds[k] \in world' \X world'
  <2> SUFFICES ASSUME NEW k \in kept PROVE manifolds[k] \in world' \X world'
    OBVIOUS
  <2>1. manifolds[k] = <<manifolds[k][1], manifolds[k][2]>>
        /\ manifolds[k][1] \in world /\ manifolds[k][2] \in world
    BY ManifoldBodies
  <2>2. manifolds[k][1] # r /\ manifolds[k][2] # r
    BY DEF About
  <2> QED BY <1>0, <2>1, <2>2
<1>2. n \in Nat /\ n <= Len(manifolds) /\ (About(manifolds, r) # {} => n < Len(manifolds))
  <2>1. IsFiniteSet(DOMAIN manifolds) /\ Cardinality(DOMAIN manifolds) = Len(manifolds)
    BY <1>0, FirstNumbers
  <2>2. kept \in SUBSET DOMAIN manifolds
    OBVIOUS
  <2>3. About(manifolds, r) # {} => kept # DOMAIN manifolds
    BY DEF About
  <2> HIDE DEF kept
  <2>4. /\ IsFiniteSet(kept) /\ n <= Cardinality(DOMAIN manifolds)
        /\ n = Cardinality(DOMAIN manifolds) => kept = DOMAIN manifolds
    BY <2>1, <2>2, FS_Subset
  <2>5. n \in Nat
    BY <2>4, FS_CardinalityType
  <2> HIDE DEF n
  <2> QED BY <1>0, <2>1, <2>3, <2>4, <2>5
<1>3. CASE About(manifolds, r) = {}
  <2>1. manifolds' = manifolds /\ kept = DOMAIN manifolds
    BY <1>3 DEF removeFromWorld
  <2>2. \A k \in 1 .. Len(manifolds) : manifolds[k] \in world' \X world'
    BY <1>0, <1>1, <2>1
  <2>3. manifolds \in Seq(world' \X world')
    <3>1. manifolds = [k \in 1 .. Len(manifolds) |-> manifolds[k]]
      BY <1>0
    <3> QED BY <1>0, <2>2, <3>1, IsASeq
  <2> QED BY <1>0, <1>3, <2>1, <2>3
<1>4. CASE About(manifolds, r) # {}
  <2>1. PICK place \in Bijection(1 .. n, kept) : manifolds' = [k \in DOMAIN place |-> manifolds[place[k]]]
    BY <1>4 DEF removeFromWorld
  <2>2. place \in [1 .. n -> kept]
    BY DEF Bijection, Injection
  <2> HIDE DEF kept, n
  <2>3. manifolds' = [k \in 1 .. n |-> manifolds[place[k]]]
    BY <2>1, <2>2
  <2>4. \A k \in 1 .. n : manifolds[place[k]] \in world' \X world'
    BY <1>1, <2>2
  <2>5. manifolds' \in Seq(world' \X world') /\ Len(manifolds') = n
    BY <1>2, <2>3, <2>4, IsASeq, LenProperties
  <2> QED BY <1>0, <1>2, <1>4, <2>5
<1> QED BY <1>3, <1>4

\* The users of the manifolds stay the same while no body of theirs is touched.
LEMMA UsersStay ==
    ASSUME TypeOK, UNCHANGED manifolds,
           \A r \in world : About(manifolds, r) # {} => body'[r] = body[r]
    PROVE  \A k \in DOMAIN manifolds : UserPair(manifolds[k])' = UserPair(manifolds[k])
<1> SUFFICES ASSUME NEW k \in DOMAIN manifolds
             PROVE  UserPair(manifolds[k])' = UserPair(manifolds[k])
  OBVIOUS
<1>1. manifolds[k][1] \in world /\ manifolds[k][2] \in world
  BY ManifoldBodies
<1>2. k \in About(manifolds, manifolds[k][1]) /\ k \in About(manifolds, manifolds[k][2])
  BY DEF About
<1>3. body'[manifolds[k][1]] = body[manifolds[k][1]] /\ body'[manifolds[k][2]] = body[manifolds[k][2]]
  BY <1>1, <1>2
<1> QED BY <1>3 DEF UserPair

LEMMA LoopTypes ==
    ASSUME TypeOK
    PROVE  /\ i \in Nat /\ numManifolds \in Nat
           /\ manifolds \in Seq(world \X world)
           /\ Len(manifolds) \in Nat /\ DOMAIN manifolds = 1 .. Len(manifolds)
<1>1. i \in Nat /\ numManifolds \in 0 .. MaxManifolds /\ manifolds \in Seq(world \X world)
  BY DEF TypeOK
<1>2. numManifolds \in Nat
  BY <1>1, Bounds
<1> QED BY <1>1, <1>2, LenProperties

\* The loop's record stays right while manifolds and their bodies are left alone,
\* and when a manifold goes.
LEMMA HalfwayStays ==
    ASSUME TypeOK, LoopInv, UNCHANGED <<i, numManifolds, a, b, pairs, told>>,
           pc' = pc \/ pc' = "undefined", Len(manifolds') \in Nat,
           \/ /\ UNCHANGED manifolds
              /\ \A r \in world : About(manifolds, r) # {} => body'[r] = body[r]
           \/ Len(manifolds') < Len(manifolds)
    PROVE  LoopInv'
<1>0. /\ DOMAIN manifolds = 1 .. Len(manifolds) /\ Len(manifolds) \in Nat
      /\ i \in Nat /\ numManifolds \in Nat
  BY LoopTypes
<1>1. CASE pc' \notin {"loop", "a", "b"}
  BY <1>1 DEF LoopInv
<1>2. ASSUME pc' \in {"loop", "a", "b"}
      PROVE  Halfway'
  <2>1. Halfway /\ pc' = pc
    BY <1>2 DEF LoopInv
  <2>2. ToldInTurn => ToldInTurn'
    BY <2>1 DEF ToldInTurn, ToldSoFar
  <2>3. Whole' => Whole /\ \A k \in 1 .. numManifolds' : pairs'[k] = UserPair(manifolds[k])'
    <3>1. CASE /\ UNCHANGED manifolds
               /\ \A r \in world : About(manifolds, r) # {} => body'[r] = body[r]
      <4>1. \A k \in DOMAIN manifolds : UserPair(manifolds[k])' = UserPair(manifolds[k])
        BY <3>1, UsersStay
      <4> QED BY <1>0, <2>1, <3>1, <4>1 DEF Halfway, Whole
    <3>2. CASE Len(manifolds') < Len(manifolds)
      <4>1. Len(manifolds') # numManifolds'
        BY <1>0, <2>1, <3>2 DEF Halfway
      <4> QED BY <4>1 DEF Whole
    <3> QED BY <3>1, <3>2
  <2>4. Len(manifolds') <= numManifolds'
    BY <1>0, <2>1 DEF Halfway
  <2> QED BY <2>1, <2>2, <2>3, <2>4 DEF Halfway
<1> QED BY <1>1, <1>2 DEF LoopInv

-----------------------------------------------------------------------------
(***************************************************************************)
(* The calls.                                                              *)
(***************************************************************************)
LEMMA InitEstablishesInvariant ==
    ASSUME Init
    PROVE  IInv
<1>1. component \in [Objects -> Component \cup {Freed}] /\ body \in [Bodies -> Body \cup {Freed}]
  BY DEF Init
<1>2. manifolds \in Seq(world \X world) /\ Len(manifolds) = 0
      /\ pairs \in Seq(Objects \X Objects) /\ told \in Seq(Objects \X Objects)
  BY EmptySeq DEF Init
<1>3. TypeOK
  <2>1. world \subseteq {r \in Bodies : body[r] # Freed}
    BY DEF Init
  <2>2. {handling, spoiled} \subseteq BOOLEAN /\ pc \in {"frame"} /\ {a, b} \subseteq Objects \cup {NULL}
    BY DEF Init
  <2>3. i = 0 /\ numManifolds = 0 /\ ops = 0
    BY DEF Init
  <2>4. Len(manifolds) <= MaxManifolds
    BY <1>2, Bounds
  <2>5. i \in Nat /\ numManifolds \in 0 .. MaxManifolds /\ ops \in 0 .. MaxOps
    BY <2>3, Bounds
  <2> QED BY <1>1, <1>2, <2>1, <2>2, <2>4, <2>5 DEF TypeOK
<1>4. Live = {} /\ world = {} /\ \A r \in Bodies : body[r] = Freed
  BY DEF Init, Live
<1>5. WorldMatchesComponents
  BY <1>4 DEF WorldMatchesComponents
<1> QED BY <1>3, <1>5 DEF IInv, PairThere, HandlerInLoop, LoopInv, LostIfSpoiled, Init

LEMMA OpsBounded ==
    ASSUME TypeOK, MayCall
    PROVE  ops' \in 0 .. MaxOps
<1>1. ops \in 0 .. MaxOps /\ MaxOps \in Nat
  BY Bounds DEF TypeOK
<1>2. ops < MaxOps /\ ops' = ops + 1
  BY DEF MayCall
<1> QED BY <1>1, <1>2

\* What a call leaves alone, and what is left to show of it.
LEMMA CallKeeps ==
    ASSUME IInv, MayCall, UNCHANGED <<i, numManifolds, a, b, pairs, told>>,
           pc' = pc \/ pc' = "undefined",
           component' \in [Objects -> Component \cup {Freed}],
           body' \in [Bodies -> Body \cup {Freed}],
           world' \subseteq {r \in Bodies : body'[r] # Freed},
           manifolds' \in Seq(world' \X world') /\ Len(manifolds') <= MaxManifolds,
           spoiled' \in BOOLEAN,
           "load once" \in Contract => WorldMatchesComponents',
           \/ /\ UNCHANGED manifolds
              /\ \A r \in world : About(manifolds, r) # {} => body'[r] = body[r]
           \/ Len(manifolds') < Len(manifolds),
           ("load once" \in Contract /\ pc \in {"loop", "a", "b"} /\ ~spoiled') =>
               ~spoiled /\ UNCHANGED manifolds
    PROVE  IInv'
<1>1. ops' \in 0 .. MaxOps /\ handling' = handling /\ (handling \/ pc = "frame")
  <2>1. ops' \in 0 .. MaxOps
    BY OpsBounded DEF IInv
  <2>2. handling' = handling
    BY DEF MayCall
  <2>3. handling \/ pc = "frame"
    BY DEF MayCall
  <2> QED BY <2>1, <2>2, <2>3, Zenon
<1>2. TypeOK'
  BY <1>1 DEF IInv, TypeOK
<1>3. PairThere' /\ HandlerInLoop'
  BY <1>1 DEF IInv, PairThere, HandlerInLoop
<1>4. LoopInv'
  <2>1. Len(manifolds') \in Nat
    BY LenProperties
  <2> QED BY <2>1, HalfwayStays DEF IInv
<1>5. "load once" \in Contract => LostIfSpoiled'
  <2> SUFFICES ASSUME "load once" \in Contract, pc' \in {"loop", "a", "b"}, ~spoiled'
               PROVE  Whole'
    BY DEF LostIfSpoiled
  <2>1. pc = pc'
    OBVIOUS
  <2> QED BY <2>1 DEF IInv, LostIfSpoiled, Whole
<1> QED BY <1>2, <1>3, <1>4, <1>5 DEF IInv

LEMMA CreateKeepsInvariant ==
    ASSUME IInv, NEW g \in Objects, createPhysicsComponent(g)
    PROVE  IInv'
<1> DEFINE c == [mBody |-> NULL, Cmass |-> "unset"]
<1>1. MayCall /\ g \notin Live /\ component' = [component EXCEPT ![g] = c]
      /\ UNCHANGED <<body, world, manifolds, loopVars, spoiled>>
  BY DEF createPhysicsComponent
<1>2. c \in Component /\ c.mBody = NULL
  BY DEF Component
<1> HIDE DEF c
<1>3. /\ component' \in [Objects -> Component \cup {Freed}] /\ component'[g] = c
      /\ \A h \in Objects : h # g => component'[h] = component[h]
  BY <1>1, <1>2 DEF IInv, TypeOK
<1>4. Live' = Live \cup {g}
  BY <1>1, <1>2, <1>3, RecordsAreNotFreed DEF Live
<1>5. \A h \in Live : h \in Objects /\ h # g /\ component'[h] = component[h]
  BY <1>1, <1>3 DEF Live
<1>6. {component'[h].mBody : h \in Live'} \ {NULL} = {component[h].mBody : h \in Live} \ {NULL}
  BY <1>2, <1>3, <1>4, <1>5
<1>7. "load once" \in Contract => WorldMatchesComponents'
  <2>1. \A h \in Live' : h = g \/ h \in Live
    BY <1>4
  <2> QED BY <1>1, <1>2, <1>3, <1>5, <1>6, <2>1 DEF IInv, WorldMatchesComponents
<1> QED BY <1>1, <1>3, <1>7, CallKeeps DEF IInv, TypeOK, loopVars

LEMMA LoadKeepsInvariant ==
    ASSUME IInv, NEW g \in Objects, NEW mass \in {0, 1}, load(g, mass)
    PROVE  IInv'
<1>1. MayCall /\ g \in Live /\ UNCHANGED <<manifolds, loopVars, spoiled>>
      /\ ("load once" \in Contract => component[g].mBody = NULL)
  BY DEF load
<1>2. PICK r \in Bodies :
        /\ body[r] = Freed
        /\ body' = [body EXCEPT ![r] = NewBody(g, mass = 0)]
        /\ component' = [component EXCEPT ![g] =
               [mBody |-> r, Cmass |-> IF mass < 1 THEN "light" ELSE "heavy"]]
        /\ world' = world \cup {r}
  BY DEF load
<1> DEFINE c == [mBody |-> r, Cmass |-> IF mass < 1 THEN "light" ELSE "heavy"]
           o == NewBody(g, mass = 0)
<1>3. c \in Component /\ c.mBody = r /\ o \in Body /\ o.user = g /\ c # Freed /\ o # Freed
  <2>1. c \in Component /\ c.mBody = r
    BY DEF Component
  <2>2. o \in Body /\ o.user = g
    BY RecordsAreNotFreed
  <2> QED BY <2>1, <2>2, RecordsAreNotFreed
<1>4. component' = [component EXCEPT ![g] = c] /\ body' = [body EXCEPT ![r] = o]
  BY <1>2
<1> HIDE DEF c, o
<1>5. /\ component' \in [Objects -> Component \cup {Freed}] /\ component'[g] = c
      /\ \A h \in Objects : h # g => component'[h] = component[h]
  BY <1>3, <1>4 DEF IInv, TypeOK
<1>6. /\ body' \in [Bodies -> Body \cup {Freed}] /\ body'[r] = o
      /\ \A x \in Bodies : x # r => body'[x] = body[x]
  BY <1>3, <1>4 DEF IInv, TypeOK
<1>7. r \notin world /\ world \subseteq Bodies
  BY <1>2 DEF IInv, TypeOK
<1>8. world' \subseteq {x \in Bodies : body'[x] # Freed}
  BY <1>2, <1>3, <1>6 DEF IInv, TypeOK
<1>9. manifolds' \in Seq(world' \X world') /\ Len(manifolds') <= MaxManifolds
  <2>1. manifolds \in Seq(world \X world) /\ Len(manifolds) \in Nat
    BY LenProperties DEF IInv, TypeOK
  <2>2. world \X world \subseteq world' \X world'
    BY <1>2
  <2>3. manifolds \in Seq(world' \X world')
    BY <2>1, <2>2, SeqMonotonic
  <2> QED BY <1>1, <2>3 DEF IInv, TypeOK
<1>10. Live' = Live
  BY <1>1, <1>3, <1>5 DEF Live
<1>11. ASSUME "load once" \in Contract
       PROVE  WorldMatchesComponents'
  <2>1. WorldMatchesComponents /\ component[g].mBody = NULL
    BY <1>1, <1>11 DEF IInv
  <2>2. r # NULL
    BY PhysicsAssumption
  <2>3. \A h \in Live : h \in Objects /\ (h # g => component'[h] = component[h])
    BY <1>5 DEF Live
  <2>4. world' = {component'[h].mBody : h \in Live'} \ {NULL}
    <3>1. world = {component[h].mBody : h \in Live} \ {NULL}
      BY <2>1 DEF WorldMatchesComponents
    <3>2. component'[g].mBody = r
      BY <1>3, <1>5
    <3> QED BY <1>1, <1>2, <1>10, <2>1, <2>2, <2>3, <3>1, <3>2
  <2>5. world' = {x \in Bodies : body'[x] # Freed}
    <3>1. world = {x \in Bodies : body[x] # Freed}
      BY <2>1 DEF WorldMatchesComponents
    <3> QED BY <1>2, <1>3, <1>6, <3>1
  <2>6. ASSUME NEW h \in Live', component'[h].mBody # NULL
        PROVE  body'[component'[h].mBody].user = h
    <3>1. CASE h = g
      BY <1>3, <1>5, <1>6, <3>1
    <3>2. CASE h # g
      <4>1. h \in Live /\ component'[h] = component[h]
        BY <1>10, <2>3, <3>2
      <4>2. component[h].mBody \in world
        BY <2>1, <2>6, <4>1 DEF WorldMatchesComponents
      <4>3. body[component[h].mBody].user = h
        BY <2>1, <2>6, <4>1 DEF WorldMatchesComponents
      <4> QED BY <1>6, <1>7, <4>1, <4>2, <4>3
    <3> QED BY <3>1, <3>2
  <2> QED BY <2>4, <2>5, <2>6 DEF WorldMatchesComponents
<1>12. \A x \in world : body'[x] = body[x]
  BY <1>6, <1>7
<1> QED BY <1>1, <1>5, <1>6, <1>8, <1>9, <1>11, <1>12, CallKeeps DEF IInv, TypeOK, loopVars

LEMMA DestroyKeepsInvariant ==
    ASSUME IInv, NEW g \in Objects, destroyObject(g)
    PROVE  IInv'
<1> DEFINE r == component[g].mBody
<1>1. /\ MayCall /\ g \in Live /\ UNCHANGED loopVars
      /\ component' = [component EXCEPT ![g] = Freed]
      /\ spoiled' = (spoiled \/ InPairs(g)) /\ spoiled' \in BOOLEAN
  BY DEF destroyObject
<1>2. r \in Bodies \cup {NULL}
  BY <1>1, ComponentOfLive DEF IInv
<1>3. /\ component' \in [Objects -> Component \cup {Freed}]
      /\ Live' = Live \ {g}
      /\ \A h \in Live' : h \in Live /\ h # g /\ component'[h] = component[h]
  BY <1>1 DEF IInv, TypeOK, Live
<1>4. CASE r = NULL
  <2>1. UNCHANGED <<body, world, manifolds>>
    BY <1>4 DEF destroyObject
  <2>2. {component'[h].mBody : h \in Live'} \ {NULL} = {component[h].mBody : h \in Live} \ {NULL}
    BY <1>3, <1>4
  <2>3. "load once" \in Contract => WorldMatchesComponents'
    BY <1>3, <2>1, <2>2 DEF IInv, WorldMatchesComponents
  <2> QED BY <1>1, <1>3, <2>1, <2>3, CallKeeps DEF IInv, TypeOK, loopVars
<1>5. CASE r # NULL
  <2>1. removeFromWorld(r) /\ body' = [body EXCEPT ![r] = Freed] /\ r \in Bodies
    BY <1>2, <1>5 DEF destroyObject, Deleted
  <2>2. world' = world \ {r}
    BY <2>1 DEF removeFromWorld
  <2>3. /\ body' \in [Bodies -> Body \cup {Freed}] /\ body'[r] = Freed
        /\ \A x \in Bodies : x # r => body'[x] = body[x]
    BY <2>1 DEF IInv, TypeOK
  <2>4. world' \subseteq {x \in Bodies : body'[x] # Freed}
    BY <2>2, <2>3 DEF IInv, TypeOK
  <2>5. /\ manifolds' \in Seq(world' \X world') /\ Len(manifolds') <= MaxManifolds
        /\ About(manifolds, r) = {} => manifolds' = manifolds
        /\ About(manifolds, r) # {} => Len(manifolds') < Len(manifolds)
    BY <2>1, RemovedType DEF IInv
  <2>6. ASSUME "load once" \in Contract
        PROVE  WorldMatchesComponents'
    <3>1. WorldMatchesComponents
      BY <2>6 DEF IInv
    <3>2. \A h \in Live : h # g /\ component[h].mBody # NULL => component[h].mBody # r
      <4>1. body[r].user = g
        BY <1>1, <1>5, <3>1 DEF WorldMatchesComponents
      <4>2. \A h \in Live : component[h].mBody # NULL => body[component[h].mBody].user = h
        BY <3>1 DEF WorldMatchesComponents
      <4> QED BY <4>1, <4>2
    <3>3. world' = {component'[h].mBody : h \in Live'} \ {NULL}
      <4>1. world = {component[h].mBody : h \in Live} \ {NULL}
        BY <3>1 DEF WorldMatchesComponents
      <4> QED BY <1>1, <1>3, <1>5, <2>2, <3>2, <4>1
    <3>4. world' = {x \in Bodies : body'[x] # Freed}
      <4>1. world = {x \in Bodies : body[x] # Freed}
        BY <3>1 DEF WorldMatchesComponents
      <4> QED BY <2>2, <2>3, <4>1
    <3>5. ASSUME NEW h \in Live', component'[h].mBody # NULL
          PROVE  body'[component'[h].mBody].user = h
      <4>1. h \in Live /\ h # g /\ component'[h] = component[h]
        BY <1>3
      <4>2. component[h].mBody \in Bodies /\ component[h].mBody # r
        BY <3>2, <3>5, <4>1, ComponentOfLive DEF IInv
      <4>3. body[component[h].mBody].user = h
        BY <3>1, <3>5, <4>1 DEF WorldMatchesComponents
      <4> QED BY <2>3, <4>1, <4>2, <4>3
    <3> QED BY <3>3, <3>4, <3>5 DEF WorldMatchesComponents
  <2>7. \A x \in world : About(manifolds, r) = {} /\ About(manifolds, x) # {} => body'[x] = body[x]
    <3>1. world \subseteq Bodies
      BY DEF IInv, TypeOK
    <3> QED BY <2>3, <3>1
  <2>8. ASSUME "load once" \in Contract, pc \in {"loop", "a", "b"}, ~spoiled'
        PROVE  ~spoiled /\ UNCHANGED manifolds
    <3>1. ~spoiled /\ ~InPairs(g)
      BY <1>1, <2>8
    <3>2. Halfway /\ Whole /\ WorldMatchesComponents
      BY <2>8, <3>1 DEF IInv, LoopInv, LostIfSpoiled
    <3>3. body[r].user = g
      BY <1>1, <1>5, <3>2 DEF WorldMatchesComponents
    <3>4. DOMAIN manifolds = 1 .. numManifolds /\ DOMAIN pairs = 1 .. numManifolds
      BY <3>2, LoopTypes, LenProperties DEF IInv, TypeOK, Halfway, Whole
    <3>5. ASSUME NEW k \in About(manifolds, r) PROVE FALSE
      <4>1. k \in DOMAIN pairs /\ pairs[k] = UserPair(manifolds[k]) /\ k \in DOMAIN manifolds
        BY <3>2, <3>4, <3>5 DEF About, Halfway
      <4>2. r = manifolds[k][1] \/ r = manifolds[k][2]
        BY <3>5 DEF About
      <4> QED BY <3>1, <3>3, <4>1, <4>2 DEF InPairs, UserPair
    <3> QED BY <2>5, <3>1, <3>5
  <2> QED BY <1>1, <1>3, <2>3, <2>4, <2>5, <2>6, <2>7, <2>8, CallKeeps DEF loopVars
<1> QED BY <1>4, <1>5

LEMMA ForcesKeepInvariant ==
    ASSUME IInv, NEW g \in Objects, addForce(g) \/ onTransform(g)
    PROVE  IInv'
<1>1. MayCall /\ UNCHANGED <<component, body, world, manifolds, i, numManifolds, a, b, pairs, told, spoiled>>
      /\ (pc' = pc \/ pc' = "undefined")
  BY DEF addForce, onTransform, bodyVars
<1>2. "load once" \in Contract => WorldMatchesComponents'
  BY <1>1 DEF IInv, WorldMatchesComponents, Live
<1> QED BY <1>1, <1>2, CallKeeps DEF IInv, TypeOK

-----------------------------------------------------------------------------
(***************************************************************************)
(* The loop.                                                               *)
(***************************************************************************)
\* Native steps move no component, body or, but for the simulation, manifold.
LEMMA WorldKept ==
    ASSUME IInv, UNCHANGED <<component, body, world>>
    PROVE  "load once" \in Contract => WorldMatchesComponents'
BY DEF IInv, WorldMatchesComponents, Live

LEMMA ManifoldsKept ==
    ASSUME IInv, UNCHANGED <<manifolds, numManifolds, spoiled>>,
           pc' \in {"loop", "a", "b"} => pc \in {"loop", "a", "b"}
    PROVE  "load once" \in Contract => LostIfSpoiled'
BY DEF IInv, LostIfSpoiled, Whole

LEMMA LoopTypesKept ==
    ASSUME TypeOK, UNCHANGED <<component, body, world, manifolds, numManifolds, pairs>>,
           pc' \in {"frame", "loop", "a", "b", "undefined"}, i' \in Nat,
           a' \in Objects \cup {NULL}, b' \in Objects \cup {NULL},
           handling' \in BOOLEAN, spoiled' \in BOOLEAN, ops' \in 0 .. MaxOps, told' \in Seq(Objects \X Objects)
    PROVE  TypeOK'
BY DEF TypeOK

LEMMA StepKeepsInvariant ==
    ASSUME IInv, stepSimulation
    PROVE  IInv'
<1>1. PICK n \in 0 .. MaxManifolds : manifolds' \in [1 .. n -> Close]
  BY DEF stepSimulation, Manifolds
<1>2. UNCHANGED <<component, body, world, a, b, handling>> /\ handling = FALSE
      /\ numManifolds' = Len(manifolds') /\ i' = 0 /\ ops' = 0 /\ pc' = "loop" /\ told' = <<>>
      /\ spoiled' = FALSE
  BY DEF stepSimulation, IInv, TypeOK
<1>3. n \in Nat /\ n <= MaxManifolds
  BY <1>1, Bounds
<1>4. manifolds' \in Seq(world \X world) /\ Len(manifolds') = n /\ DOMAIN manifolds' = 1 .. n
  <2>1. Close \subseteq world \X world
    BY DEF Close
  <2>2. manifolds' \in [1 .. n -> world \X world]
    BY <1>1, <2>1
  <2>3. manifolds' = [k \in 1 .. n |-> manifolds'[k]] /\ \A k \in 1 .. n : manifolds'[k] \in world \X world
    BY <2>2
  <2> QED BY <1>3, <2>2, <2>3, IsASeq, LenProperties
<1>5. pairs' = [k \in 1 .. n |-> UserPair(manifolds'[k])]
  BY <1>4 DEF stepSimulation
<1>6. \A k \in 1 .. n : UserPair(manifolds'[k]) \in Objects \X Objects
  <2> SUFFICES ASSUME NEW k \in 1 .. n PROVE UserPair(manifolds'[k]) \in Objects \X Objects
    OBVIOUS
  <2>1. manifolds'[k] \in world \X world
    BY <1>4, ElementOfSeq
  <2>2. manifolds'[k][1] \in world /\ manifolds'[k][2] \in world
    BY <2>1
  <2> QED BY <2>2, BodyInWorld DEF IInv, UserPair
<1>7. pairs' \in Seq(Objects \X Objects) /\ Len(pairs') = n
  BY <1>3, <1>5, <1>6, IsASeq, LenProperties
<1>8. told' \in Seq(Objects \X Objects) /\ Len(told') = 0
  BY <1>2, EmptySeq
<1>9. TypeOK'
  <2>1. Len(manifolds') <= MaxManifolds /\ i' \in Nat /\ numManifolds' \in 0 .. MaxManifolds /\ ops' \in 0 .. MaxOps
    BY <1>2, <1>3, <1>4, Bounds
  <2> QED BY <1>2, <1>4, <1>7, <1>8, <2>1 DEF IInv, TypeOK
<1>10. Halfway'
  <2>1. \A k \in 1 .. numManifolds' : pairs'[k] = UserPair(manifolds[k])'
    BY <1>2, <1>4, <1>5 DEF UserPair
  <2>2. ToldInTurn'
    BY <1>2, <1>8 DEF ToldInTurn, ToldSoFar
  <2> QED BY <1>2, <1>3, <1>4, <1>7, <2>1, <2>2 DEF Halfway
<1>11. Whole'
  BY <1>2 DEF Whole
<1> QED BY <1>2, <1>9, <1>10, <1>11, WorldKept DEF IInv, PairThere, HandlerInLoop, LoopInv, LostIfSpoiled

LEMMA NextManifoldKeepsInvariant ==
    ASSUME IInv, nextManifold
    PROVE  IInv'
<1>0. TypeOK /\ handling \in BOOLEAN /\ spoiled \in BOOLEAN /\ ops \in 0 .. MaxOps /\ told \in Seq(Objects \X Objects)
      /\ a \in Objects \cup {NULL} /\ b \in Objects \cup {NULL}
  BY DEF IInv, TypeOK
<1>1. /\ UNCHANGED <<component, body, world, manifolds, numManifolds, ops, pairs, told, spoiled>>
      /\ pc = "loop" /\ i < numManifolds /\ i' = i + 1
  BY DEF nextManifold, Remaining, bodyVars
<1>9. handling = FALSE /\ handling' = FALSE
  BY <1>0 DEF nextManifold
<1>2. /\ i \in Nat /\ numManifolds \in Nat /\ manifolds \in Seq(world \X world)
      /\ Len(manifolds) \in Nat /\ DOMAIN manifolds = 1 .. Len(manifolds)
  BY <1>0, LoopTypes
<1>10. i' \in Nat /\ handling' \in BOOLEAN /\ ops' \in 0 .. MaxOps /\ told' \in Seq(Objects \X Objects)
  <2>1. i' \in Nat
    BY <1>1, <1>2
  <2>2. handling' \in BOOLEAN
    BY <1>9
  <2> QED BY <1>0, <1>1, <2>1, <2>2
<1>3. CASE i < Len(manifolds)
  <2>1. i + 1 \in DOMAIN manifolds
    BY <1>2, <1>3
  <2>2. a' = UserPair(manifolds[i + 1])[1] /\ b' = UserPair(manifolds[i + 1])[2] /\ pc' = "a"
    BY <1>3 DEF nextManifold
  <2>3. UserPair(manifolds[i + 1]) \in Objects \X Objects
    BY <2>1, UsersAreObjects DEF IInv
  <2>4. a' \in Objects /\ b' \in Objects /\ UserPair(manifolds[i + 1]) = <<a', b'>>
    BY <2>2, <2>3
  <2>5. TypeOK'
    <3>1. pc' \in {"frame", "loop", "a", "b", "undefined"}
          /\ a' \in Objects \cup {NULL} /\ b' \in Objects \cup {NULL}
      BY <2>2, <2>4
    <3> QED BY <1>0, <1>1, <1>10, <3>1, LoopTypesKept
  <2>6. Halfway'
    <3>1. Halfway
      BY <1>1 DEF IInv, LoopInv
    <3>2. /\ i' <= numManifolds /\ i' >= 1
          /\ i' = numManifolds => Whole
      <4>1. Len(manifolds) <= numManifolds
        BY <3>1 DEF Halfway
      <4>2. i' <= numManifolds /\ i' >= 1
        BY <1>1, <1>2
      <4>3. i' = numManifolds => Len(manifolds) = numManifolds
        <5>1. \A x, y, z \in Nat : x < y /\ y <= z /\ x + 1 = z => y = z
          OBVIOUS
        <5> QED BY <1>1, <1>2, <1>3, <4>1, <5>1
      <4> QED BY <4>2, <4>3 DEF Whole
    <3>3. Whole => ToldInTurn /\ pairs[i'] = <<a', b'>>
      BY <1>1, <1>2, <2>1, <2>4, <3>1 DEF Halfway, Whole
    <3>4. Whole => ToldInTurn'
      BY <1>1, <1>2, <2>2, <3>3 DEF ToldInTurn, ToldSoFar
    <3>5. Whole' => \A k \in 1 .. numManifolds' : pairs'[k] = UserPair(manifolds[k])'
      BY <1>1, <3>1 DEF Halfway, Whole, UserPair
    <3>6. Whole' => Whole
      BY <1>1 DEF Whole
    <3> QED BY <1>1, <2>2, <3>1, <3>2, <3>4, <3>5, <3>6 DEF Halfway
  <2>7. "load once" \in Contract => LostIfSpoiled'
    BY <1>1, ManifoldsKept
  <2> QED BY <1>1, <1>9, <2>2, <2>4, <2>5, <2>6, <2>7, WorldKept DEF IInv, PairThere, HandlerInLoop, LoopInv
<1>4. CASE ~(i < Len(manifolds))
  <2>1. pc' = "undefined" /\ UNCHANGED <<a, b>>
    BY <1>4 DEF nextManifold
  <2>2. TypeOK'
    <3>1. pc' \in {"frame", "loop", "a", "b", "undefined"}
          /\ a' \in Objects \cup {NULL} /\ b' \in Objects \cup {NULL}
      BY <1>0, <2>1
    <3> QED BY <1>0, <1>1, <1>10, <3>1, LoopTypesKept
  <2> QED BY <1>1, <1>9, <2>1, <2>2, WorldKept DEF IInv, PairThere, HandlerInLoop, LoopInv, LostIfSpoiled
<1> QED BY <1>3, <1>4

LEMMA FromOne == \A k, n \in Nat : k >= 1 /\ k <= n => k \in 1 .. n
OBVIOUS

\* The objects of the manifold under way are alive.
LEMMA PairLives ==
    ASSUME IInv, "load once" \in Contract, ~spoiled, pc \in {"a", "b"}
    PROVE  a \in Live /\ b \in Live
<1>1. Halfway /\ Whole /\ ToldInTurn /\ WorldMatchesComponents /\ TypeOK
  BY DEF IInv, LoopInv, LostIfSpoiled, Halfway
<1>2. i \in DOMAIN manifolds /\ <<a, b>> = UserPair(manifolds[i])
  <2>1. i \in Nat /\ numManifolds \in Nat /\ i >= 1 /\ i <= numManifolds
    BY <1>1, LoopTypes DEF Halfway
  <2>2. i \in 1 .. numManifolds
    BY <2>1, FromOne, Zenon
  <2>3. DOMAIN manifolds = 1 .. numManifolds
    <3>1. DOMAIN manifolds = 1 .. Len(manifolds)
      BY <1>1, LoopTypes
    <3> QED BY <1>1, <3>1 DEF Whole
  <2>4. i \in DOMAIN manifolds
    BY <2>2, <2>3
  <2> QED BY <1>1, <2>1, <2>2, <2>4 DEF Halfway, ToldInTurn
<1>3. a = body[manifolds[i][1]].user /\ b = body[manifolds[i][2]].user
  BY <1>2 DEF UserPair
<1>4. manifolds[i][1] \in world /\ manifolds[i][2] \in world
  BY <1>1, <1>2, ManifoldBodies
<1>5. \A r \in world : body[r].user \in Live
  <2> SUFFICES ASSUME NEW r \in world PROVE body[r].user \in Live
    OBVIOUS
  <2>1. PICK g \in Live : component[g].mBody = r /\ r # NULL
    BY <1>1 DEF WorldMatchesComponents
  <2>2. body[r].user = g
    BY <1>1, <2>1 DEF WorldMatchesComponents
  <2> QED BY <2>2
<1> QED BY <1>3, <1>4, <1>5

\* One more telling.
LEMMA OneMoreTold ==
    ASSUME ToldSoFar, NEW to \in Objects, NEW about \in Objects, UNCHANGED pairs,
           told' = Append(told, <<to, about>>),
           <<to, about>> = Mutual(pairs[(Len(told) + 2) \div 2])[2 - ((Len(told) + 1) % 2)]
    PROVE  ToldSoFar' /\ Len(told') = Len(told) + 1
<1> DEFINE n == Len(told)
<1>1. told \in Seq(Objects \X Objects) /\ <<to, about>> \in Objects \X Objects
  BY DEF ToldSoFar
<1>2. n \in Nat
  BY <1>1, LenProperties
<1>3. /\ told' \in Seq(Objects \X Objects) /\ Len(told') = n + 1 /\ told'[n + 1] = <<to, about>>
      /\ \A k \in 1 .. n : told'[k] = told[k]
  BY <1>1, AppendProperties
<1>4. \A k \in 1 .. n : told[k] = Mutual(pairs[(k + 1) \div 2])[2 - (k % 2)]
  BY DEF ToldSoFar
<1>5. <<to, about>> = Mutual(pairs[((n + 1) + 1) \div 2])[2 - ((n + 1) % 2)]
  <2>1. n + 2 = (n + 1) + 1
    BY <1>2
  <2> QED BY <2>1
<1> HIDE DEF n
<1>6. ASSUME NEW k \in 1 .. n + 1
      PROVE  told'[k] = Mutual(pairs'[(k + 1) \div 2])[2 - (k % 2)]
  <2>1. k \in 1 .. n \/ k = n + 1
    BY <1>2
  <2>2. CASE k \in 1 .. n
    BY <1>3, <1>4, <2>2
  <2>3. CASE k = n + 1
    BY <1>3, <1>5, <2>3
  <2> QED BY <2>1, <2>2, <2>3
<1> QED BY <1>3, <1>6 DEF ToldSoFar, n

\* Both tellings: what they have in common.
LEMMA InjectKeepsTypes ==
    ASSUME IInv, NEW to \in Objects, NEW about \in Objects, NEW then \in {"b", "loop"},
           pc \in {"a", "b"}, Inject(to, about, then), handling = FALSE,
           UNCHANGED <<component, body, world, manifolds, i, numManifolds, a, b, ops, pairs, spoiled>>
    PROVE  /\ TypeOK' /\ HandlerInLoop'
           /\ "load once" \in Contract => LostIfSpoiled'
           /\ (pc' = then /\ told' = Append(told, <<to, about>>)) \/ pc' = "undefined"
<1>0. TypeOK /\ spoiled \in BOOLEAN /\ i \in Nat /\ ops \in 0 .. MaxOps /\ told \in Seq(Objects \X Objects)
      /\ a \in Objects \cup {NULL} /\ b \in Objects \cup {NULL}
  BY DEF IInv, TypeOK
<1>3. "load once" \in Contract => LostIfSpoiled'
  BY ManifoldsKept
<1>1. CASE to \in Live
  <2>1. told' = Append(told, <<to, about>>) /\ handling' \in BOOLEAN /\ pc' = then
    BY <1>1 DEF Inject
  <2>2. told' \in Seq(Objects \X Objects)
    BY <1>0, <2>1, AppendProperties
  <2>3. TypeOK'
    BY <1>0, <2>1, <2>2, LoopTypesKept
  <2> QED BY <1>3, <2>1, <2>3 DEF HandlerInLoop
<1>2. CASE to \notin Live
  <2>1. told' = told /\ handling' = handling /\ pc' = "undefined"
    BY <1>2 DEF Inject
  <2>2. handling' \in BOOLEAN
    BY <2>1
  <2>3. TypeOK'
    BY <1>0, <2>1, <2>2, LoopTypesKept
  <2> QED BY <1>3, <2>1, <2>3 DEF HandlerInLoop
<1> QED BY <1>1, <1>2, <1>3

LEMMA TellAKeepsInvariant ==
    ASSUME IInv, tellA
    PROVE  IInv'
<1>1. /\ UNCHANGED <<component, body, world, manifolds, i, numManifolds, a, b, ops, pairs, spoiled>>
      /\ pc = "a" /\ Inject(a, b, "b")
  BY DEF tellA, bodyVars
<1>2. handling = FALSE
  BY DEF tellA, IInv, TypeOK
<1>3. a \in Objects /\ b \in Objects
  BY <1>1 DEF IInv, PairThere
<1>4. /\ TypeOK' /\ HandlerInLoop' /\ ("load once" \in Contract => LostIfSpoiled')
      /\ (pc' = "b" /\ told' = Append(told, <<a, b>>)) \/ pc' = "undefined"
  BY <1>1, <1>2, <1>3, InjectKeepsTypes
<1>5. ASSUME pc' = "b", told' = Append(told, <<a, b>>)
      PROVE  Halfway'
  <2>1. Halfway /\ i \in Nat /\ i >= 1
    BY <1>1, LoopTypes DEF IInv, LoopInv, Halfway
  <2>2. ASSUME ToldInTurn
        PROVE  ToldInTurn'
    <3>1. Len(told) = 2 * i - 2 /\ pairs[i] = <<a, b>> /\ ToldSoFar
      BY <1>1, <2>2 DEF ToldInTurn
    <3>2. (Len(told) + 2) \div 2 = i /\ (Len(told) + 1) % 2 = 1
      BY <2>1, <3>1
    <3>3. <<a, b>> = Mutual(pairs[(Len(told) + 2) \div 2])[2 - ((Len(told) + 1) % 2)]
      <4>1. Mutual(<<a, b>>)[1] = <<a, b>>
        BY DEF Mutual
      <4>2. 2 - ((Len(told) + 1) % 2) = 1
        BY <3>2
      <4> QED BY <3>1, <3>2, <4>1, <4>2, Zenon
    <3>4. ToldSoFar' /\ Len(told') = Len(told) + 1
      BY <1>1, <1>3, <1>5, <3>1, <3>3, OneMoreTold
    <3>5. Len(told') = 2 * i - 1
      BY <2>1, <3>1, <3>4
    <3> QED BY <1>1, <1>5, <3>1, <3>4, <3>5 DEF ToldInTurn
  <2>3. Whole' => Whole /\ \A k \in 1 .. numManifolds' : pairs'[k] = UserPair(manifolds[k])'
    BY <1>1, <2>1 DEF Halfway, Whole, UserPair
  <2> QED BY <1>1, <1>5, <2>1, <2>2, <2>3 DEF Halfway
<1> QED BY <1>1, <1>3, <1>4, <1>5, WorldKept DEF IInv, PairThere, LoopInv

LEMMA TellBKeepsInvariant ==
    ASSUME IInv, tellB
    PROVE  IInv'
<1>1. /\ UNCHANGED <<component, body, world, manifolds, i, numManifolds, a, b, ops, pairs, spoiled>>
      /\ pc = "b" /\ Inject(b, a, "loop")
  BY DEF tellB, AboutToB, bodyVars
<1>2. handling = FALSE
  BY DEF tellB, IInv, TypeOK
<1>3. a \in Objects /\ b \in Objects
  BY <1>1 DEF IInv, PairThere
<1>4. /\ TypeOK' /\ HandlerInLoop' /\ ("load once" \in Contract => LostIfSpoiled')
      /\ (pc' = "loop" /\ told' = Append(told, <<b, a>>)) \/ pc' = "undefined"
  BY <1>1, <1>2, <1>3, InjectKeepsTypes
<1>5. ASSUME pc' = "loop", told' = Append(told, <<b, a>>)
      PROVE  Halfway'
  <2>1. Halfway /\ i \in Nat /\ i >= 1
    BY <1>1, LoopTypes DEF IInv, LoopInv, Halfway
  <2>2. ASSUME ToldInTurn
        PROVE  ToldInTurn'
    <3>1. Len(told) = 2 * i - 1 /\ pairs[i] = <<a, b>> /\ ToldSoFar
      BY <1>1, <2>2 DEF ToldInTurn
    <3>2. (Len(told) + 2) \div 2 = i /\ (Len(told) + 1) % 2 = 0
      BY <2>1, <3>1
    <3>3. <<b, a>> = Mutual(pairs[(Len(told) + 2) \div 2])[2 - ((Len(told) + 1) % 2)]
      <4>1. Mutual(<<a, b>>)[2] = <<b, a>>
        BY DEF Mutual
      <4>2. 2 - ((Len(told) + 1) % 2) = 2
        BY <3>2
      <4> QED BY <3>1, <3>2, <4>1, <4>2, Zenon
    <3>4. ToldSoFar' /\ Len(told') = Len(told) + 1
      BY <1>1, <1>3, <1>5, <3>1, <3>3, OneMoreTold
    <3>5. Len(told') = 2 * i
      BY <2>1, <3>1, <3>4
    <3> QED BY <1>1, <1>5, <3>1, <3>4, <3>5 DEF ToldInTurn
  <2>3. Whole' => Whole /\ \A k \in 1 .. numManifolds' : pairs'[k] = UserPair(manifolds[k])'
    BY <1>1, <2>1 DEF Halfway, Whole, UserPair
  <2> QED BY <1>1, <1>5, <2>1, <2>2, <2>3 DEF Halfway
<1> QED BY <1>1, <1>3, <1>4, <1>5, WorldKept DEF IInv, PairThere, LoopInv

LEMMA HandlerReturnsKeepsInvariant ==
    ASSUME IInv, handlerReturns
    PROVE  IInv'
<1>1. UNCHANGED <<component, body, world, manifolds, pc, i, numManifolds, a, b, pairs, told, ops, spoiled>>
      /\ handling' = FALSE
  BY DEF handlerReturns, bodyVars, loopVars
<1>2. TypeOK'
  BY <1>1 DEF IInv, TypeOK
<1>3. LoopInv'
  <2>1. \A r \in world : About(manifolds, r) # {} => body'[r] = body[r]
    BY <1>1
  <2>2. Len(manifolds') \in Nat
    BY <1>1, LoopTypes DEF IInv
  <2> QED BY <1>1, <2>1, <2>2, HalfwayStays DEF IInv
<1>4. "load once" \in Contract => LostIfSpoiled'
  BY <1>1, ManifoldsKept
<1> QED BY <1>1, <1>2, <1>3, <1>4, WorldKept DEF IInv, PairThere, HandlerInLoop

LEMMA UpdateDoneKeepsInvariant ==
    ASSUME IInv, updateDone
    PROVE  IInv'
<1>1. /\ UNCHANGED <<component, body, world, manifolds>>
      /\ pc' = "frame" /\ i' = 0 /\ numManifolds' = 0 /\ a' = NULL /\ b' = NULL
      /\ pairs' = <<>> /\ told' = <<>> /\ ops' = 0 /\ spoiled' = FALSE
  BY DEF updateDone, bodyVars
<1>2. handling' = FALSE
  BY DEF updateDone, IInv, TypeOK
<1>3. pairs' \in Seq(Objects \X Objects) /\ told' \in Seq(Objects \X Objects)
  BY <1>1, EmptySeq
<1>4. i' \in Nat /\ numManifolds' \in 0 .. MaxManifolds /\ ops' \in 0 .. MaxOps
  BY <1>1, Bounds
<1>5. TypeOK'
  BY <1>1, <1>2, <1>3, <1>4 DEF IInv, TypeOK
<1> QED BY <1>1, <1>2, <1>5, WorldKept DEF IInv, PairThere, HandlerInLoop, LoopInv, LostIfSpoiled

-----------------------------------------------------------------------------
LEMMA NextKeepsInvariant ==
    ASSUME IInv, [Next]_vars
    PROVE  IInv'
<1>1. CASE Native
  BY <1>1, StepKeepsInvariant, NextManifoldKeepsInvariant, TellAKeepsInvariant, TellBKeepsInvariant,
     UpdateDoneKeepsInvariant DEF Native
<1>2. CASE Call
  <2>1. PICK g \in Objects : \/ createPhysicsComponent(g)
                             \/ \E mass \in {0, 1} : load(g, mass)
                             \/ destroyObject(g)
                             \/ addForce(g) \/ onTransform(g)
    BY <1>2 DEF Call
  <2> QED BY <2>1, CreateKeepsInvariant, LoadKeepsInvariant, DestroyKeepsInvariant, ForcesKeepInvariant
<1>3. CASE handlerReturns
  BY <1>3, HandlerReturnsKeepsInvariant
<1>4. CASE UNCHANGED vars
  <2>1. UNCHANGED <<component, body, world, manifolds, pc, i, numManifolds, a, b, pairs, told, ops, handling,
                    spoiled>>
    BY <1>4 DEF vars, bodyVars, loopVars
  <2>2. TypeOK' /\ PairThere' /\ HandlerInLoop'
    BY <2>1 DEF IInv, TypeOK, PairThere, HandlerInLoop
  <2>3. LoopInv'
    <3>1. \A r \in world : About(manifolds, r) # {} => body'[r] = body[r]
      BY <2>1
    <3>2. Len(manifolds') \in Nat
      BY <2>1, LoopTypes DEF IInv
    <3> QED BY <2>1, <3>1, <3>2, HalfwayStays DEF IInv
  <2>4. "load once" \in Contract => LostIfSpoiled'
    BY <2>1, ManifoldsKept
  <2> QED BY <2>1, <2>2, <2>3, <2>4, WorldKept DEF IInv
<1> QED BY <1>1, <1>2, <1>3, <1>4 DEF Next

THEOREM PhysicsInvariant == Spec => []IInv
<1>1. Init => IInv
  BY InitEstablishesInvariant
<1>2. IInv /\ [Next]_vars => IInv'
  BY NextKeepsInvariant
<1> QED BY <1>1, <1>2, PTL DEF Spec

\* No manifold is ever about a body that left the world, whatever handlers do.
THEOREM PhysicsTypeOK == Spec => []TypeOK
BY PhysicsInvariant, PTL DEF IInv

\* With components loaded once, the world holds the bodies of the live ones and
\* nothing else, and no body leaks.
THEOREM PhysicsWorldMatchesComponents ==
    ASSUME "load once" \in Contract
    PROVE  Spec => []WorldMatchesComponents
<1>1. IInv => WorldMatchesComponents
  BY DEF IInv
<1> QED BY <1>1, PhysicsInvariant, PTL

\* When updateWorld ends, both objects of every pair the frame began with were
\* told about the other, each once, whatever handlers created, loaded and
\* destroyed.
THEOREM PhysicsEveryPairTold == Spec => []EveryPairTold
<1>1. IInv => EveryPairTold
  <2> SUFFICES ASSUME IInv, pc = "loop", ~Remaining
               PROVE  told = [k \in 1 .. 2 * Len(pairs) |-> Mutual(pairs[(k + 1) \div 2])[2 - (k % 2)]]
    BY DEF EveryPairTold
  <2>1. Halfway /\ i \in Nat /\ numManifolds \in Nat
    BY LoopTypes DEF IInv, LoopInv
  <2>2. i = numManifolds
    BY <2>1 DEF Remaining, Halfway
  <2>3. Len(told) = 2 * i /\ Len(pairs) = numManifolds /\ told \in Seq(Objects \X Objects)
        /\ \A k \in 1 .. Len(told) : told[k] = Mutual(pairs[(k + 1) \div 2])[2 - (k % 2)]
    BY <2>1, <2>2 DEF Halfway, ToldInTurn, ToldSoFar
  <2>4. told = [k \in 1 .. Len(told) |-> told[k]]
    BY <2>3, LenProperties
  <2>5. Len(told) = 2 * Len(pairs)
    BY <2>2, <2>3
  <2> QED BY <2>3, <2>4, <2>5
<1> QED BY <1>1, PhysicsInvariant, PTL

\* A handler that destroys an object of one of the frame's pairs is all that can
\* make updateWorld use what is gone, with components loaded once and first.
THEOREM PhysicsBrokenOnlyIfSpoiled ==
    ASSUME {"load once", "load first"} \subseteq Contract
    PROVE  Spec => []BrokenOnlyIfSpoiled
<1>1. Init => BrokenOnlyIfSpoiled
  BY DEF Init, BrokenOnlyIfSpoiled
<1>2. ASSUME IInv, BrokenOnlyIfSpoiled, [Next]_vars
      PROVE  BrokenOnlyIfSpoiled'
  <2>1. CASE nextManifold
    <3>1. Halfway /\ pc = "loop" /\ spoiled' = spoiled
      BY <1>2, <2>1 DEF nextManifold, IInv, LoopInv
    <3>2. ~spoiled => i < Len(manifolds)
      BY <1>2, <2>1, <3>1 DEF nextManifold, Remaining, IInv, LostIfSpoiled, Whole
    <3>3. pc' = "undefined" => ~(i < Len(manifolds))
      BY <2>1 DEF nextManifold
    <3> QED BY <3>1, <3>2, <3>3 DEF BrokenOnlyIfSpoiled
  <2>2. CASE tellA
    <3>1. ~spoiled => a \in Live
      BY <1>2, <2>2, PairLives DEF tellA
    <3>2. spoiled' = spoiled /\ (a \in Live => pc' # "undefined")
      BY <2>2 DEF tellA, Inject
    <3> QED BY <3>1, <3>2 DEF BrokenOnlyIfSpoiled
  <2>3. CASE tellB
    <3>1. ~spoiled => b \in Live
      BY <1>2, <2>3, PairLives DEF tellB
    <3>2. spoiled' = spoiled /\ (b \in Live => pc' # "undefined")
      BY <2>3 DEF tellB, Inject
    <3> QED BY <3>1, <3>2 DEF BrokenOnlyIfSpoiled
  <2>4. CASE \E g \in Objects : addForce(g) \/ onTransform(g)
    <3>1. PICK g \in Objects : addForce(g) \/ onTransform(g)
      BY <2>4
    <3>2. component[g].mBody # NULL /\ spoiled' = spoiled
      BY <3>1 DEF addForce, onTransform
    <3>3. pc' = pc
      BY <3>1, <3>2 DEF addForce, onTransform
    <3> QED BY <1>2, <3>2, <3>3 DEF BrokenOnlyIfSpoiled
  <2>5. CASE \/ stepSimulation \/ updateDone \/ handlerReturns \/ UNCHANGED vars
             \/ \E g \in Objects : \/ createPhysicsComponent(g) \/ destroyObject(g)
                                   \/ \E mass \in {0, 1} : load(g, mass)
    BY <1>2, <2>5 DEF stepSimulation, updateDone, handlerReturns, createPhysicsComponent, destroyObject,
       load, vars, loopVars, MayCall, BrokenOnlyIfSpoiled
  <2> QED BY <1>2, <2>1, <2>2, <2>3, <2>4, <2>5 DEF Next, Native, Call
<1> QED BY <1>1, <1>2, PhysicsInvariant, PTL DEF Spec
=============================================================================
