---------------------------- MODULE InputProofs ----------------------------
(***************************************************************************)
(* Proofs that the queued events and the active actions add up to the keys *)
(* that are held, for every set of keys and every limit of the queue.      *)
(*                                                                         *)
(* QueueAddsUp is not inductive: it says nothing of the events before the  *)
(* last one about a key.  In the strengthening the events about a key      *)
(* alternate, the first one changes the key's action, and the last one     *)
(* tells whether the key is held.  A handler touches no other key's action *)
(* because no two keys are mapped to one.                                  *)
(***************************************************************************)
EXTENDS Input, TLAPS

At(q, k) == {i \in 1 .. Len(q) : q[i].key = k}
Down(q, i) == q[i].type = "keydown"
NoneBetween(q, k, i, j) == \A m \in At(q, k) : m <= i \/ j <= m

\* The events of q about k lead from active to down.
Leads(q, k, active, down) ==
    /\ At(q, k) = {} => (active <=> down)
    /\ \A i \in At(q, k) : (\A j \in At(q, k) : j <= i) => (Down(q, i) <=> down)
    /\ \A i \in At(q, k) : (\A j \in At(q, k) : i <= j) => (Down(q, i) <=> ~active)
    /\ \A i, j \in At(q, k) : i < j /\ NoneBetween(q, k, i, j) => (Down(q, i) <=> ~Down(q, j))

\* Only key events name a key.
KeyEventsOnly == \A i \in 1 .. Len(queue) : queue[i].key # "none" => queue[i].type \in {"keydown", "keyup"}

IInv ==
    /\ TypeOK
    /\ KeyEventsOnly
    /\ ~lost => \A k \in Kept : Leads(queue, k, Active(k), k \in held)

-----------------------------------------------------------------------------
(***************************************************************************)
(* Sequences of events.                                                    *)
(***************************************************************************)
\* A press of a key that is up, or a release of one that is down, joins.
LEMMA AppendSame ==
    ASSUME NEW q \in Seq(Event), NEW e \in Event, NEW k, e.key = k,
           NEW active \in BOOLEAN, NEW down \in BOOLEAN,
           Leads(q, k, active, down), (e.type = "keydown") <=> ~down
    PROVE  Leads(Append(q, e), k, active, ~down)
<1> DEFINE r == Append(q, e)
           n == Len(q) + 1
<1>1. /\ Len(q) \in Nat /\ Len(r) = n
      /\ r[n] = e
      /\ \A i \in 1 .. Len(q) : r[i] = q[i]
  OBVIOUS
<1>2. At(r, k) = At(q, k) \cup {n} /\ \A i \in At(q, k) : i \in 1 .. Len(q)
  BY <1>1 DEF At
<1>3. Down(r, n) <=> ~down
  BY <1>1 DEF Down
<1>4. \A i \in At(q, k) : Down(r, i) <=> Down(q, i)
  BY <1>1, <1>2 DEF Down
<1> HIDE DEF r
<1>5. ASSUME NEW i \in At(r, k), \A j \in At(r, k) : j <= i
      PROVE  Down(r, i) <=> ~down
  <2>1. i = n
    BY <1>1, <1>2, <1>5
  <2> QED BY <2>1, <1>3
<1>6. ASSUME NEW i \in At(r, k), \A j \in At(r, k) : i <= j
      PROVE  Down(r, i) <=> ~active
  <2>1. CASE i \in At(q, k)
    BY <2>1, <1>2, <1>4, <1>6 DEF Leads
  <2>2. CASE i = n
    <3>1. At(q, k) = {}
      <4> SUFFICES ASSUME NEW j \in At(q, k)
                   PROVE  FALSE
        OBVIOUS
      <4>1. n <= j /\ j \in 1 .. Len(q)
        BY <2>2, <1>2, <1>6
      <4> QED BY <4>1, <1>1
    <3> QED BY <2>2, <3>1, <1>3 DEF Leads
  <2> QED BY <2>1, <2>2, <1>2
<1>7. ASSUME NEW i \in At(r, k), NEW j \in At(r, k), i < j, NoneBetween(r, k, i, j)
      PROVE  Down(r, i) <=> ~Down(r, j)
  <2>1. i \in At(q, k)
    BY <1>1, <1>2, <1>7
  <2>2. CASE j \in At(q, k)
    <3>1. NoneBetween(q, k, i, j)
      BY <1>2, <1>7 DEF NoneBetween
    <3> QED BY <2>1, <2>2, <3>1, <1>4, <1>7 DEF Leads
  <2>3. CASE j = n
    <3>1. \A m \in At(q, k) : m <= i
      BY <2>1, <2>3, <1>1, <1>2, <1>7 DEF NoneBetween
    <3>2. Down(q, i) <=> down
      BY <2>1, <3>1 DEF Leads
    <3> QED BY <2>1, <2>3, <3>2, <1>3, <1>4
  <2> QED BY <2>2, <2>3, <1>2
<1>8. At(r, k) # {}
  BY <1>2
<1>9. Leads(r, k, active, ~down)
  BY <1>5, <1>6, <1>7, <1>8 DEF Leads
<1> QED BY <1>9 DEF r

\* An event that is not about a key leaves it alone.
LEMMA AppendOther ==
    ASSUME NEW q \in Seq(Event), NEW e \in Event, NEW k, e.key # k,
           NEW active, NEW down, Leads(q, k, active, down)
    PROVE  Leads(Append(q, e), k, active, down)
<1> DEFINE r == Append(q, e)
<1>1. /\ Len(q) \in Nat /\ Len(r) = Len(q) + 1
      /\ r[Len(q) + 1] = e
      /\ \A i \in 1 .. Len(q) : r[i] = q[i]
  OBVIOUS
<1>2. At(r, k) = At(q, k)
  BY <1>1 DEF At
<1>3. \A i \in At(q, k) : Down(r, i) <=> Down(q, i)
  BY <1>1 DEF Down, At
<1> HIDE DEF r
<1>4. Leads(r, k, active, down)
  BY <1>2, <1>3 DEF Leads, NoneBetween
<1> QED BY <1>4 DEF r

\* The positions of the events that are left when the first is gone.
LEMMA TailAt ==
    ASSUME NEW q \in Seq(Event), q # <<>>, NEW k
    PROVE  /\ At(q, k) \in SUBSET Int
           /\ \A i \in At(Tail(q), k) : i >= 1 /\ i + 1 \in At(q, k) /\ (Down(Tail(q), i) <=> Down(q, i + 1))
           /\ \A i \in At(q, k) : i = 1 \/ i - 1 \in At(Tail(q), k)
           /\ 1 \in At(q, k) <=> Head(q).key = k
           /\ \A i \in At(q, k) : i >= 1
<1>1. Len(q) \in Nat /\ Len(q) >= 1 /\ Len(Tail(q)) = Len(q) - 1 /\ Head(q) = q[1]
  OBVIOUS
<1>2. \A i \in 1 .. Len(q) - 1 : Tail(q)[i] = q[i + 1]
  OBVIOUS
<1>3. \A i \in At(Tail(q), k) : i >= 1 /\ i + 1 \in At(q, k) /\ (Down(Tail(q), i) <=> Down(q, i + 1))
  BY <1>1, <1>2 DEF At, Down
<1>4. \A i \in At(q, k) : i = 1 \/ i - 1 \in At(Tail(q), k)
  <2> SUFFICES ASSUME NEW i \in At(q, k), i # 1
               PROVE  i - 1 \in At(Tail(q), k)
    OBVIOUS
  <2>1. i \in 1 .. Len(q) /\ q[i].key = k
    BY DEF At
  <2>2. i - 1 \in 1 .. Len(q) - 1 /\ (i - 1) + 1 = i
    BY <1>1, <2>1
  <2>3. Tail(q)[i - 1] = q[i]
    BY <1>2, <2>2
  <2> QED BY <1>1, <2>1, <2>2, <2>3 DEF At
<1> QED BY <1>1, <1>3, <1>4 DEF At

\* Handling the first event about a key makes the key's action what it says.
LEMMA TailSame ==
    ASSUME NEW q \in Seq(Event), q # <<>>, NEW k, Head(q).key = k,
           NEW active \in BOOLEAN, NEW down \in BOOLEAN, Leads(q, k, active, down)
    PROVE  Leads(Tail(q), k, Down(q, 1), down)
<1> DEFINE r == Tail(q)
<1>1. At(q, k) \in SUBSET Int /\ 1 \in At(q, k) /\ \A i \in At(q, k) : i >= 1
  BY TailAt
<1>2. /\ \A i \in At(r, k) : i >= 1 /\ i + 1 \in At(q, k) /\ (Down(r, i) <=> Down(q, i + 1))
      /\ \A i \in At(q, k) : i = 1 \/ i - 1 \in At(r, k)
  BY TailAt
<1>3. At(r, k) \in SUBSET Int
  BY DEF At
<1> HIDE DEF r
<1>4. ASSUME At(r, k) = {}
      PROVE  Down(q, 1) <=> down
  BY <1>1, <1>2, <1>4 DEF Leads
<1>5. ASSUME NEW i \in At(r, k), \A j \in At(r, k) : j <= i
      PROVE  Down(r, i) <=> down
  <2>1. \A j \in At(q, k) : j <= i + 1
    BY <1>1, <1>2, <1>3, <1>5
  <2> QED BY <2>1, <1>2 DEF Leads
<1>6. ASSUME NEW i \in At(r, k), \A j \in At(r, k) : i <= j
      PROVE  Down(r, i) <=> ~Down(q, 1)
  <2>1. 1 < i + 1 /\ i + 1 \in At(q, k)
    BY <1>2, <1>3
  <2>2. NoneBetween(q, k, 1, i + 1)
    BY <1>1, <1>2, <1>3, <1>6 DEF NoneBetween
  <2>3. Down(q, 1) <=> ~Down(q, i + 1)
    BY <1>1, <2>1, <2>2 DEF Leads
  <2> QED BY <2>3, <1>2
<1>7. ASSUME NEW i \in At(r, k), NEW j \in At(r, k), i < j, NoneBetween(r, k, i, j)
      PROVE  Down(r, i) <=> ~Down(r, j)
  <2>1. i + 1 \in At(q, k) /\ j + 1 \in At(q, k) /\ i + 1 < j + 1
    BY <1>2, <1>3, <1>7
  <2>2. NoneBetween(q, k, i + 1, j + 1)
    <3> SUFFICES ASSUME NEW m \in At(q, k), m # 1
                 PROVE  m <= i + 1 \/ j + 1 <= m
      BY <1>2, <1>3 DEF NoneBetween
    <3>1. m - 1 \in At(r, k) /\ m \in Int
      BY <1>1, <1>2
    <3>2. m - 1 <= i \/ j <= m - 1
      BY <3>1, <1>7 DEF NoneBetween
    <3> QED BY <3>1, <3>2, <1>3
  <2>3. Down(q, i + 1) <=> ~Down(q, j + 1)
    BY <2>1, <2>2 DEF Leads
  <2> QED BY <2>3, <1>2
<1>8. Leads(r, k, Down(q, 1), down)
  BY <1>4, <1>5, <1>6, <1>7 DEF Leads
<1> QED BY <1>8 DEF r

\* Handling another event leaves the key's events as they were.
LEMMA TailOther ==
    ASSUME NEW q \in Seq(Event), q # <<>>, NEW k, Head(q).key # k,
           NEW active \in BOOLEAN, NEW down \in BOOLEAN, Leads(q, k, active, down)
    PROVE  Leads(Tail(q), k, active, down)
<1> DEFINE r == Tail(q)
<1>1. At(q, k) \in SUBSET Int /\ 1 \notin At(q, k) /\ \A i \in At(q, k) : i >= 1
  BY TailAt
<1>2. /\ \A i \in At(r, k) : i >= 1 /\ i + 1 \in At(q, k) /\ (Down(r, i) <=> Down(q, i + 1))
      /\ \A i \in At(q, k) : i - 1 \in At(r, k)
  BY <1>1, TailAt
<1>3. At(r, k) \in SUBSET Int
  BY DEF At
<1> HIDE DEF r
<1>4. ASSUME At(r, k) = {}
      PROVE  active <=> down
  BY <1>2, <1>4 DEF Leads
<1>5. ASSUME NEW i \in At(r, k), \A j \in At(r, k) : j <= i
      PROVE  Down(r, i) <=> down
  <2>1. \A j \in At(q, k) : j <= i + 1
    BY <1>1, <1>2, <1>3, <1>5
  <2> QED BY <2>1, <1>2 DEF Leads
<1>6. ASSUME NEW i \in At(r, k), \A j \in At(r, k) : i <= j
      PROVE  Down(r, i) <=> ~active
  <2>1. \A j \in At(q, k) : i + 1 <= j
    BY <1>1, <1>2, <1>3, <1>6
  <2> QED BY <2>1, <1>2 DEF Leads
<1>7. ASSUME NEW i \in At(r, k), NEW j \in At(r, k), i < j, NoneBetween(r, k, i, j)
      PROVE  Down(r, i) <=> ~Down(r, j)
  <2>1. i + 1 \in At(q, k) /\ j + 1 \in At(q, k) /\ i + 1 < j + 1
    BY <1>2, <1>3, <1>7
  <2>2. NoneBetween(q, k, i + 1, j + 1)
    <3> SUFFICES ASSUME NEW m \in At(q, k), m # 1
                 PROVE  m <= i + 1 \/ j + 1 <= m
      BY <1>2, <1>3 DEF NoneBetween
    <3>1. m - 1 \in At(r, k) /\ m \in Int
      BY <1>1, <1>2
    <3>2. m - 1 <= i \/ j <= m - 1
      BY <3>1, <1>7 DEF NoneBetween
    <3> QED BY <3>1, <3>2, <1>3
  <2>3. Down(q, i + 1) <=> ~Down(q, j + 1)
    BY <2>1, <2>2 DEF Leads
  <2> QED BY <2>3, <1>2
<1>8. Leads(r, k, active, down)
  BY <1>4, <1>5, <1>6, <1>7 DEF Leads
<1> QED BY <1>8 DEF r

-----------------------------------------------------------------------------
(***************************************************************************)
(* The default mappings.                                                   *)
(***************************************************************************)
\* mapKeyAction is called once for each action.
LEMMA OneKeyToAnAction ==
    /\ \A k \in MappedKeys : mKeyboardMap[k] \in InputActions
    /\ \A j, k \in MappedKeys : mKeyboardMap[j] = mKeyboardMap[k] => j = k
BY DEF MappedKeys, mKeyboardMap, InputActions, FIRST_PERSON, THIRD_PERSON, ACTION_DOWN, ACTION_UP,
       ACTION_LEFT, ACTION_RIGHT, ACTION_JUMP, ACTION_ATTACK, ACTION_CROUCH, ACTION_PAUSE, DEBUG, GLOW

LEMMA NoneIsNoKey == "none" \notin Keys /\ "none" \notin MappedKeys
BY InputAssumption DEF SCANCODE, MappedKeys, mKeyboardMap

LEMMA KeptKeys ==
    ASSUME NEW k \in Kept
    PROVE  k \in Keys /\ k \in MappedKeys /\ mKeyboardMap[k] \in 0 .. NUM_ACTIONS - 1 /\ k # "none"
BY OneKeyToAnAction, NoneIsNoKey DEF Kept, InputActions, NUM_ACTIONS

-----------------------------------------------------------------------------
(***************************************************************************)
(* The user's steps.                                                       *)
(***************************************************************************)
\* Events join the queue, or are lost.
LEMMA QueuedTypes ==
    ASSUME TypeOK, KeyEventsOnly, NEW e \in Event, Queued(e),
           e.key # "none" => e.type \in {"keydown", "keyup"}
    PROVE  /\ queue' \in Seq(Event) /\ Len(queue') <= QueueLimit
           /\ lost' \in BOOLEAN
           /\ KeyEventsOnly'
           /\ ~lost' => ~lost /\ queue' = Append(queue, e)
<1>1. queue \in Seq(Event) /\ Len(queue) \in Nat /\ Len(queue) <= QueueLimit /\ QueueLimit \in Nat
  BY InputAssumption DEF TypeOK
<1>2. CASE Len(queue) < QueueLimit
  <2>1. queue' = Append(queue, e) /\ lost' = lost
    BY <1>2 DEF Queued
  <2>2. queue' \in Seq(Event) /\ Len(queue') = Len(queue) + 1
    BY <1>1, <2>1
  <2>3. KeyEventsOnly'
    <3> SUFFICES ASSUME NEW i \in 1 .. Len(queue) + 1, Append(queue, e)[i].key # "none"
                 PROVE  Append(queue, e)[i].type \in {"keydown", "keyup"}
      BY <2>1, <2>2 DEF KeyEventsOnly
    <3>1. CASE i = Len(queue) + 1
      BY <3>1, <1>1
    <3>2. CASE i \in 1 .. Len(queue)
      <4>1. Append(queue, e)[i] = queue[i]
        BY <3>2, <1>1
      <4> QED BY <3>2, <4>1 DEF KeyEventsOnly
    <3> QED BY <3>1, <3>2, <1>1
  <2> QED BY <1>1, <1>2, <2>1, <2>2, <2>3 DEF TypeOK
<1>3. CASE ~(Len(queue) < QueueLimit)
  <2>1. queue' = queue /\ lost' = TRUE
    BY <1>3 DEF Queued
  <2> QED BY <1>1, <2>1 DEF KeyEventsOnly
<1> QED BY <1>2, <1>3

\* The keys a step of the user leaves alone.
LEMMA UserTypes ==
    ASSUME TypeOK, UNCHANGED frameVars, held' \subseteq Keys,
           queue' \in Seq(Event), Len(queue') <= QueueLimit, lost' \in BOOLEAN
    PROVE  TypeOK'
BY DEF TypeOK, frameVars

\* A press of a key that is up, or a release of one that is down.
LEMMA KeyKeepsInvariant ==
    ASSUME IInv, NEW k \in Keys, NEW type \in {"keydown", "keyup"},
           type = "keydown" <=> k \notin held,
           held' = IF k \in held THEN held \ {k} ELSE held \cup {k},
           Queued(KeyEvent(type, k)), UNCHANGED frameVars
    PROVE  IInv'
<1> DEFINE e == KeyEvent(type, k)
<1>1. e \in Event /\ e.key = k /\ e.type = type
  BY DEF Event, KeyEvent
<1> HIDE DEF e
<1>2. TypeOK /\ KeyEventsOnly /\ queue \in Seq(Event)
  BY DEF IInv, TypeOK
<1>3. /\ queue' \in Seq(Event) /\ Len(queue') <= QueueLimit /\ lost' \in BOOLEAN
      /\ KeyEventsOnly'
      /\ ~lost' => ~lost /\ queue' = Append(queue, e)
  BY <1>1, <1>2, QueuedTypes DEF e
<1>4. TypeOK'
  <2>1. held' \subseteq Keys
    BY <1>2 DEF TypeOK
  <2> QED BY <1>2, <1>3, <2>1, UserTypes
<1>5. ASSUME ~lost', NEW j \in Kept
      PROVE  Leads(queue', j, Active(j)', j \in held')
  <2>1. queue' = Append(queue, e) /\ Leads(queue, j, Active(j), j \in held)
    BY <1>3, <1>5 DEF IInv
  <2>2. Active(j)' = Active(j) /\ Active(j) \in BOOLEAN
    BY <1>2, KeptKeys DEF Active, frameVars, TypeOK
  <2>3. CASE j = k
    <3>1. j \in held' <=> ~(j \in held)
      BY <2>3, <1>2
    <3>2. (e.type = "keydown") <=> ~(j \in held)
      BY <2>3, <1>1
    <3>3. Leads(Append(queue, e), j, Active(j), ~(j \in held))
      <4> DEFINE active == Active(j)
                 down == j \in held
      <4>1. active \in BOOLEAN /\ down \in BOOLEAN
        BY <2>2
      <4>2. Leads(queue, j, active, down) /\ ((e.type = "keydown") <=> ~down) /\ e.key = j
        BY <1>1, <2>1, <2>3, <3>2
      <4> HIDE DEF active, down
      <4>3. Leads(Append(queue, e), j, active, ~down)
        BY <1>1, <1>2, <4>1, <4>2, AppendSame
      <4> QED BY <4>3 DEF active, down
    <3>4. Leads(Append(queue, e), j, Active(j), j \in held')
      BY <3>1, <3>3
    <3> QED BY <2>1, <2>2, <3>4
  <2>4. CASE j # k
    <3>1. j \in held' <=> j \in held
      BY <2>4
    <3>2. Leads(Append(queue, e), j, Active(j), j \in held)
      BY <1>1, <1>2, <2>1, <2>4, AppendOther
    <3>3. Leads(Append(queue, e), j, Active(j), j \in held')
      BY <3>1, <3>2
    <3> QED BY <2>1, <2>2, <3>3
  <2> QED BY <2>3, <2>4
<1> QED BY <1>3, <1>4, <1>5 DEF IInv, Kept

\* Events that name no key.
LEMMA OtherKeepsInvariant ==
    ASSUME IInv, NEW e \in Event, e.key = "none", Queued(e), UNCHANGED <<held, frameVars>>
    PROVE  IInv'
<1>1. TypeOK /\ KeyEventsOnly /\ queue \in Seq(Event)
  BY DEF IInv, TypeOK
<1>2. /\ queue' \in Seq(Event) /\ Len(queue') <= QueueLimit /\ lost' \in BOOLEAN
      /\ KeyEventsOnly'
      /\ ~lost' => ~lost /\ queue' = Append(queue, e)
  BY <1>1, QueuedTypes
<1>3. TypeOK'
  BY <1>1, <1>2, UserTypes DEF TypeOK
<1>4. ASSUME ~lost', NEW j \in Kept
      PROVE  Leads(queue', j, Active(j)', j \in held')
  <2>1. queue' = Append(queue, e) /\ Leads(queue, j, Active(j), j \in held)
    BY <1>2, <1>4 DEF IInv
  <2>2. Active(j)' = Active(j)
    BY DEF Active, frameVars
  <2>3. e.key # j
    BY KeptKeys
  <2>4. Leads(Append(queue, e), j, Active(j), j \in held)
    BY <1>1, <2>1, <2>3, AppendOther
  <2> QED BY <2>1, <2>2, <2>4
<1> QED BY <1>2, <1>3, <1>4 DEF IInv, Kept

-----------------------------------------------------------------------------
(***************************************************************************)
(* Frames.                                                                 *)
(***************************************************************************)
\* A key's handler sets its own action, and no other kept key's.
LEMMA KeyHandlerActions ==
    ASSUME TypeOK, NEW name, NEW j \in Keys \cup {"none"}, NEW state \in BOOLEAN,
           KeyHandler(j, state)
    PROVE  /\ mActiveActions' \in [0 .. NUM_ACTIONS - 1 -> BOOLEAN]
           /\ \A k \in Kept : Active(k)' = IF k = j THEN state ELSE Active(k)
<1>1. CASE j \in MappedKeys
  <2>1. mActiveActions' = [a \in 0 .. NUM_ACTIONS - 1 |->
                              IF a = mKeyboardMap[j] THEN state ELSE mActiveActions[a]]
    BY <1>1 DEF KeyHandler, setActive
  <2>2. mActiveActions' \in [0 .. NUM_ACTIONS - 1 -> BOOLEAN]
    BY <2>1 DEF TypeOK
  <2>3. ASSUME NEW k \in Kept
        PROVE  Active(k)' = IF k = j THEN state ELSE Active(k)
    <3>1. mKeyboardMap[k] \in 0 .. NUM_ACTIONS - 1 /\ k \in MappedKeys
      BY KeptKeys
    <3>2. mKeyboardMap[k] = mKeyboardMap[j] <=> k = j
      BY <1>1, <3>1, OneKeyToAnAction
    <3>3. mActiveActions'[mKeyboardMap[k]]
              = IF mKeyboardMap[k] = mKeyboardMap[j] THEN state ELSE mActiveActions[mKeyboardMap[k]]
      BY <2>1, <3>1
    <3> QED BY <3>2, <3>3 DEF Active
  <2> QED BY <2>2, <2>3
<1>2. CASE j \notin MappedKeys
  <2>1. mActiveActions' = mActiveActions
    BY <1>2 DEF KeyHandler
  <2>2. \A k \in Kept : k # j
    BY <1>2, KeptKeys
  <2> QED BY <2>1, <2>2 DEF TypeOK, Active
<1> QED BY <1>1, <1>2

LEMMA KeyHandlerTypes ==
    ASSUME TypeOK, NEW j \in Keys \cup {"none"},
           NEW state \in BOOLEAN, KeyHandler(j, state)
    PROVE  /\ crashed' \in BOOLEAN
           /\ sent' \in {<<>>} \cup (InputActions \X BOOLEAN)
           /\ RestOfFrame(FALSE)
<1>1. crashed' \in BOOLEAN /\ RestOfFrame(FALSE)
  BY DEF KeyHandler, TypeOK
<1>2. CASE j \in MappedKeys
  <2>1. sent' = <<mKeyboardMap[j], state>>
    BY <1>2 DEF KeyHandler
  <2>2. sent' \in InputActions \X BOOLEAN
    BY <1>2, <2>1, OneKeyToAnAction
  <2> QED BY <1>1, <2>2
<1>3. CASE j \notin MappedKeys
  BY <1>1, <1>3 DEF KeyHandler, TypeOK
<1> QED BY <1>2, <1>3

\* What the other handlers leave alone.
LEMMA NoKeyTypes ==
    ASSUME TypeOK,
           \/ \E b \in 0 .. 255 : MouseHandler(b)
           \/ \E b \in 0 .. 255 : ButtonHandler(b, 15)
           \/ \E quit \in BOOLEAN : NoHandler(quit)
    PROVE  /\ mActiveActions' = mActiveActions
           /\ crashed' \in BOOLEAN
           /\ sent' = <<>>
           /\ \E quit \in BOOLEAN : RestOfFrame(quit)
<1>1. CASE \E b \in 0 .. 255 : MouseHandler(b)
  BY <1>1 DEF MouseHandler, ButtonHandler, TypeOK
<1>2. CASE \E b \in 0 .. 255 : ButtonHandler(b, 15)
  BY <1>2 DEF ButtonHandler, TypeOK
<1>3. CASE \E quit \in BOOLEAN : NoHandler(quit)
  BY <1>3 DEF NoHandler, TypeOK
<1> QED BY <1>1, <1>2, <1>3

\* The rest of the frame keeps the types and takes the first event off.
LEMMA RestTypes ==
    ASSUME TypeOK, KeyEventsOnly, NEW quit \in BOOLEAN, RestOfFrame(quit),
           mActiveActions' \in [0 .. NUM_ACTIONS - 1 -> BOOLEAN]
    PROVE  /\ held' = held /\ lost' = lost
           /\ done' \in BOOLEAN
           /\ queue' = IF queue = <<>> THEN queue ELSE Tail(queue)
           /\ queue' \in Seq(Event) /\ Len(queue') <= QueueLimit
           /\ KeyEventsOnly'
<1>1. held' = held /\ lost' = lost /\ done' \in BOOLEAN
      /\ queue' = IF queue = <<>> THEN queue ELSE Tail(queue)
  BY DEF RestOfFrame, userVars, getKeystate
<1>2. queue \in Seq(Event) /\ Len(queue) \in Nat /\ Len(queue) <= QueueLimit /\ QueueLimit \in Nat
  BY InputAssumption DEF TypeOK
<1>3. CASE queue = <<>>
  BY <1>1, <1>2, <1>3 DEF KeyEventsOnly
<1>4. CASE queue # <<>>
  <2>1. queue' = Tail(queue) /\ Len(queue') = Len(queue) - 1 /\ queue' \in Seq(Event)
    BY <1>1, <1>2, <1>4
  <2>2. KeyEventsOnly'
    <3> SUFFICES ASSUME NEW i \in 1 .. Len(queue) - 1, Tail(queue)[i].key # "none"
                 PROVE  Tail(queue)[i].type \in {"keydown", "keyup"}
      BY <2>1 DEF KeyEventsOnly
    <3>1. Tail(queue)[i] = queue[i + 1] /\ i + 1 \in 1 .. Len(queue)
      BY <1>2, <1>4
    <3> QED BY <3>1 DEF KeyEventsOnly
  <2> QED BY <1>1, <1>2, <2>1, <2>2
<1> QED BY <1>3, <1>4

\* The first event of the queue.
LEMMA FirstEvent ==
    ASSUME TypeOK, KeyEventsOnly, queue # <<>>
    PROVE  /\ Head(queue) \in Event
           /\ Head(queue).key \in Keys \cup {"none"}
           /\ Head(queue).button \in 0 .. 255
           /\ Head(queue).key # "none" => Head(queue).type \in {"keydown", "keyup"}
           /\ Down(queue, 1) <=> Head(queue).type = "keydown"
<1>1. queue \in Seq(Event) /\ Len(queue) >= 1 /\ Len(queue) \in Nat /\ Head(queue) = queue[1]
  BY DEF TypeOK
<1>2. Head(queue) \in Event
  BY <1>1
<1> QED BY <1>1, <1>2 DEF Event, KeyEventsOnly, Down

\* What a frame does to the actions of the keys that are kept.
FrameEffect ==
    /\ TypeOK' /\ KeyEventsOnly'
    /\ held' = held /\ lost' = lost
    /\ queue' = IF queue = <<>> THEN queue ELSE Tail(queue)
    /\ \A k \in Kept :
          Active(k)' = IF queue # <<>> /\ Head(queue).key = k THEN Down(queue, 1) ELSE Active(k)

LEMMA KeyFrame ==
    ASSUME TypeOK, KeyEventsOnly, onKeyDown \/ onKeyUp
    PROVE  FrameEffect
<1> DEFINE e == Head(queue)
           state == e.type = "keydown"
<1>1. queue # <<>> /\ KeyHandler(e.key, state)
  BY DEF onKeyDown, onKeyUp, Polled, OldestOf
<1>2. e.key \in Keys \cup {"none"} /\ (Down(queue, 1) <=> state)
  BY <1>1, FirstEvent
<1>3. state \in BOOLEAN
  OBVIOUS
<1> HIDE DEF state
<1>4. /\ mActiveActions' \in [0 .. NUM_ACTIONS - 1 -> BOOLEAN]
      /\ \A k \in Kept : Active(k)' = IF k = e.key THEN state ELSE Active(k)
  BY <1>1, <1>2, <1>3, KeyHandlerActions
<1>5. /\ crashed' \in BOOLEAN
      /\ sent' \in {<<>>} \cup (InputActions \X BOOLEAN)
      /\ RestOfFrame(FALSE)
  BY <1>1, <1>2, <1>3, KeyHandlerTypes
<1>6. /\ held' = held /\ lost' = lost
      /\ done' \in BOOLEAN
      /\ queue' = IF queue = <<>> THEN queue ELSE Tail(queue)
      /\ queue' \in Seq(Event) /\ Len(queue') <= QueueLimit
      /\ KeyEventsOnly'
  BY <1>4, <1>5, RestTypes
<1>7. TypeOK'
  BY <1>4, <1>5, <1>6 DEF TypeOK
<1>8. ASSUME NEW k \in Kept
      PROVE  Active(k)' = IF queue # <<>> /\ e.key = k THEN Down(queue, 1) ELSE Active(k)
  <2>1. state = Down(queue, 1)
    BY <1>2, <1>3 DEF Down
  <2> QED BY <1>1, <1>4, <2>1
<1> QED BY <1>6, <1>7, <1>8 DEF FrameEffect

LEMMA OtherFrame ==
    ASSUME TypeOK, KeyEventsOnly, Frame, ~onKeyDown, ~onKeyUp
    PROVE  FrameEffect
<1>1. queue # <<>> => ~(Head(queue).type \in {"keydown", "keyup"})
  BY DEF Frame, onMouseDown, onMouseUp, joyButtonDown, onJoyButtonUp, noEvent, ignoredEvent, quitEvent,
         Polled, OldestOf
<1>2. \/ \E b \in 0 .. 255 : MouseHandler(b)
      \/ \E b \in 0 .. 255 : ButtonHandler(b, 15)
      \/ \E quit \in BOOLEAN : NoHandler(quit)
  <2>1. queue # <<>> => Head(queue).button \in 0 .. 255
    BY FirstEvent
  <2> QED BY <2>1, InputAssumption
             DEF Frame, onMouseDown, onMouseUp, joyButtonDown, onJoyButtonUp, noEvent, ignoredEvent,
                 quitEvent, Polled, OldestOf
<1>3. /\ mActiveActions' = mActiveActions
      /\ crashed' \in BOOLEAN
      /\ sent' = <<>>
      /\ \E quit \in BOOLEAN : RestOfFrame(quit)
  BY <1>2, NoKeyTypes
<1>4. mActiveActions' \in [0 .. NUM_ACTIONS - 1 -> BOOLEAN]
  BY <1>3 DEF TypeOK
<1>5. /\ held' = held /\ lost' = lost
      /\ done' \in BOOLEAN
      /\ queue' = IF queue = <<>> THEN queue ELSE Tail(queue)
      /\ queue' \in Seq(Event) /\ Len(queue') <= QueueLimit
      /\ KeyEventsOnly'
  BY <1>3, <1>4, RestTypes
<1>6. TypeOK'
  BY <1>3, <1>4, <1>5 DEF TypeOK
<1>7. ASSUME NEW k \in Kept
      PROVE  Active(k)' = Active(k) /\ ~(queue # <<>> /\ Head(queue).key = k)
  <2>1. k # "none"
    BY KeptKeys
  <2> QED BY <1>1, <1>3, <2>1, FirstEvent DEF Active
<1> QED BY <1>5, <1>6, <1>7 DEF FrameEffect

LEMMA FrameKeepsInvariant ==
    ASSUME IInv, Frame
    PROVE  IInv'
<1>1. TypeOK /\ KeyEventsOnly /\ queue \in Seq(Event)
  BY DEF IInv, TypeOK
<1>2. FrameEffect
  BY <1>1, KeyFrame, OtherFrame
<1>3. ASSUME ~lost', NEW k \in Kept
      PROVE  Leads(queue', k, Active(k)', k \in held')
  <2> DEFINE active == Active(k)
             down == k \in held
  <2>1. active \in BOOLEAN /\ down \in BOOLEAN
    BY <1>1, KeptKeys DEF Active, TypeOK
  <2>2. Leads(queue, k, active, down)
    BY <1>2, <1>3 DEF FrameEffect, IInv
  <2>3. held' = held /\ Active(k)' = IF queue # <<>> /\ Head(queue).key = k THEN Down(queue, 1) ELSE active
    BY <1>2 DEF FrameEffect
  <2>4. queue' = IF queue = <<>> THEN queue ELSE Tail(queue)
    BY <1>2 DEF FrameEffect
  <2>5. Leads(queue', k, Active(k)', down)
    <3> HIDE DEF active, down
    <3>1. CASE queue = <<>>
      BY <3>1, <2>2, <2>3, <2>4
    <3>2. CASE queue # <<>> /\ Head(queue).key = k
      <4>1. Leads(Tail(queue), k, Down(queue, 1), down)
        BY <3>2, <1>1, <2>1, <2>2, TailSame
      <4> QED BY <3>2, <4>1, <2>3, <2>4
    <3>3. CASE queue # <<>> /\ Head(queue).key # k
      <4>1. Leads(Tail(queue), k, active, down)
        BY <3>3, <1>1, <2>1, <2>2, TailOther
      <4> QED BY <3>3, <4>1, <2>3, <2>4
    <3> QED BY <3>1, <3>2, <3>3
  <2> QED BY <2>3, <2>5
<1> QED BY <1>2, <1>3 DEF IInv, FrameEffect, Kept

-----------------------------------------------------------------------------
(***************************************************************************)
(* The invariant.                                                          *)
(***************************************************************************)
LEMMA InitEstablishesInvariant ==
    ASSUME Init
    PROVE  IInv
<1>1. TypeOK
  <2>1. queue \in Seq(Event) /\ Len(queue) = 0 /\ 0 <= QueueLimit
    BY InputAssumption DEF Init
  <2>2. mActiveActions \in [0 .. NUM_ACTIONS - 1 -> BOOLEAN]
    BY DEF Init
  <2>3. sent = <<>> /\ held = {}
    BY DEF Init
  <2>4. {done, crashed, lost} \subseteq BOOLEAN
    BY DEF Init
  <2> QED BY <2>1, <2>2, <2>3, <2>4 DEF TypeOK
<1>2. KeyEventsOnly
  BY DEF Init, KeyEventsOnly
<1>3. ASSUME NEW k \in Kept
      PROVE  Leads(queue, k, Active(k), k \in held)
  <2>1. At(queue, k) = {}
    BY DEF Init, At
  <2>2. Active(k) = FALSE /\ ~(k \in held)
    BY KeptKeys DEF Init, Active
  <2> QED BY <2>1, <2>2 DEF Leads
<1> QED BY <1>1, <1>2, <1>3 DEF IInv

LEMMA UserKeepsInvariant ==
    ASSUME IInv, User
    PROVE  IInv'
<1>1. ASSUME NEW k \in Keys, press(k)
      PROVE  IInv'
  BY <1>1, KeyKeepsInvariant DEF press
<1>2. ASSUME NEW k \in Keys, release(k)
      PROVE  IInv'
  BY <1>2, KeyKeepsInvariant DEF release
<1>3. ASSUME NEW b \in MouseButtons, useMouse(b)
      PROVE  IInv'
  <2>1. PICK type \in {"mousedown", "mouseup"} : Queued(ButtonEvent(type, b))
    BY <1>3 DEF useMouse
  <2>2. ButtonEvent(type, b) \in Event /\ ButtonEvent(type, b).key = "none"
    BY InputAssumption DEF ButtonEvent, Event
  <2> QED BY <1>3, <2>1, <2>2, OtherKeepsInvariant DEF useMouse
<1>4. ASSUME NEW b \in JoyButtons, useJoystick(b)
      PROVE  IInv'
  <2>1. PICK type \in {"joydown", "joyup"} : Queued(ButtonEvent(type, b))
    BY <1>4 DEF useJoystick
  <2>2. ButtonEvent(type, b) \in Event /\ ButtonEvent(type, b).key = "none"
    BY InputAssumption DEF ButtonEvent, Event
  <2> QED BY <1>4, <2>1, <2>2, OtherKeepsInvariant DEF useJoystick
<1>5. CASE otherEvent \/ closeWindow
  <2>1. /\ KeyEvent("other", "none") \in Event /\ KeyEvent("other", "none").key = "none"
        /\ KeyEvent("quit", "none") \in Event /\ KeyEvent("quit", "none").key = "none"
    BY DEF KeyEvent, Event
  <2> QED BY <1>5, <2>1, OtherKeepsInvariant DEF otherEvent, closeWindow
<1> QED BY <1>1, <1>2, <1>3, <1>4, <1>5 DEF User

THEOREM InputInvariant == Spec => []IInv
<1>1. Init => IInv
  BY InitEstablishesInvariant
<1>2. IInv /\ [Next]_vars => IInv'
  <2>1. ASSUME IInv, UNCHANGED vars
        PROVE  IInv'
    <3>1. /\ held' = held /\ queue' = queue /\ mActiveActions' = mActiveActions
          /\ done' = done /\ crashed' = crashed /\ lost' = lost /\ sent' = sent
      BY <2>1 DEF vars
    <3>2. TypeOK'
      BY <2>1, <3>1 DEF IInv, TypeOK
    <3>3. KeyEventsOnly'
      BY <2>1, <3>1 DEF IInv, KeyEventsOnly
    <3>4. ASSUME ~lost', NEW k \in Kept
          PROVE  Leads(queue', k, Active(k)', k \in held')
      BY <2>1, <3>1, <3>4 DEF IInv, Active
    <3> QED BY <3>2, <3>3, <3>4 DEF IInv
  <2> QED BY <2>1, UserKeepsInvariant, FrameKeepsInvariant DEF Next
<1> QED BY <1>1, <1>2, PTL DEF Spec

\* The type invariant, for every set of keys and buttons and every limit.
THEOREM InputTypeOK == Spec => []TypeOK
BY InputInvariant, PTL DEF IInv

\* While SDL drops nothing, what is queued and what is active add up to the
\* keys that are held.
THEOREM InputQueueAddsUp == Spec => []QueueAddsUp
<1>1. ASSUME IInv
      PROVE  QueueAddsUp
  <2> SUFFICES ASSUME ~lost, NEW k \in Kept
               PROVE  /\ About(k) = {} => (Active(k) <=> k \in held)
                      /\ \A i \in 1 .. Len(queue) : IsLast(i, k) => (queue[i].type = "keydown" <=> k \in held)
    BY DEF QueueAddsUp
  <2>1. Leads(queue, k, Active(k), k \in held)
    BY <1>1 DEF IInv
  <2>2. About(k) = At(queue, k)
    BY DEF About, At
  <2> QED BY <2>1, <2>2 DEF Leads, IsLast, Down
<1> QED BY <1>1, InputInvariant, PTL

\* While SDL drops nothing, no listener is told twice in a row that an action
\* has the same state.
THEOREM InputOnlyChangesAreSent == Spec => OnlyChangesAreSent
<1> DEFINE A == ~lost /\ Frame /\ sent' # <<>> /\ sent'[1] < NUM_ACTIONS
                    => mActiveActions[sent'[1]] # sent'[2]
<1>1. ASSUME IInv, ~lost, Frame, sent' # <<>>, sent'[1] < NUM_ACTIONS
      PROVE  mActiveActions[sent'[1]] # sent'[2]
  <2>1. TypeOK /\ KeyEventsOnly
    BY <1>1 DEF IInv
  <2>2. onKeyDown \/ onKeyUp
    BY <1>1 DEF Frame, onMouseDown, onMouseUp, joyButtonDown, onJoyButtonUp, noEvent, ignoredEvent,
                quitEvent, MouseHandler, ButtonHandler, NoHandler
  <2> DEFINE k == Head(queue).key
             state == Head(queue).type = "keydown"
  <2>3. /\ queue # <<>> /\ k \in MappedKeys
        /\ sent' = <<mKeyboardMap[k], state>>
    BY <1>1, <2>2 DEF onKeyDown, onKeyUp, KeyHandler, Polled, OldestOf
  <2>4. sent'[1] = mKeyboardMap[k] /\ sent'[2] = state
    BY <2>3
  <2>5. k \in Kept
    BY <1>1, <2>1, <2>3, <2>4, FirstEvent, NoneIsNoKey DEF Kept
  <2>6. Leads(queue, k, Active(k), k \in held)
    BY <1>1, <2>5 DEF IInv
  <2>7. 1 \in At(queue, k) /\ \A j \in At(queue, k) : 1 <= j
    BY <2>1, <2>3, TailAt DEF TypeOK
  <2>8. state <=> ~Active(k)
    <3>1. Down(queue, 1) <=> ~Active(k)
      BY <2>6, <2>7 DEF Leads
    <3> QED BY <3>1, <2>1, <2>3, FirstEvent
  <2> QED BY <2>4, <2>8 DEF Active
<1>2. IInv /\ [Next]_vars => [A]_vars
  BY <1>1
<1>3. Spec => [][A]_vars
  BY <1>2, InputInvariant, PTL DEF Spec
<1> QED BY <1>3 DEF OnlyChangesAreSent

=============================================================================
