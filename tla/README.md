# SSUGE in TLA+

A verification development for the game engine in `src/`: TLA+ modules for the
parts of the engine whose correctness depends on the order of things, TLC
configurations that check them on small instances, and theorems that the TLA+
proof system checks for every instance.

The engine is C++: Ogre draws, SDL brings input, Bullet moves bodies, irrKlang
plays sounds, and Lua scripts decide what happens. The code that is the
engine's own is `src/src` and `src/include`; `src/dependencies` is vendored.
There are no tests and no design documents, so what the code promises is what
its headers and comments say, and what its callers rely on.

## The system

| part | state | operations | what is hard | what makes it correct |
|---|---|---|---|---|
| Game objects, components, factories (`GameObject`, `Component.h`, `factory.h`, `CameraComponent`, part of `BaseApplication`) | the map `mObjects`, the objects, their slots, `msInstances` of each factory, Ogre's scene nodes, entities, cameras, animations | create, find, remove objects; create and load components; scripted animations | addresses and names are used again after they were freed; a second component takes a slot; names must agree with Ogre's | map, heap, nodes, slots and factories agree; nothing leaks that has an owner |
| Application (`BaseApplication`, `main.cpp`) | the frame under way, `done`, the scene; the managers and parts of Ogre that exist | start-up in stages, `run`, `update`, `initializeScene`, destruction | an iterator and an index are held while script handlers change what they point into; a stage that fails leaves half an application to one destructor | every object is updated once a frame; every frame reaches its rendering; a part is used only while it exists, and all is given back |
| Input (`InputManager`) | active actions, mappings, listeners, joysticks | one event per frame, handlers, messages, axes | the queue lags behind the keys and overflows; pads come and go under a fixed array | active actions and queued events add up to the keys; what was released ends; axes follow the sticks |
| Messages (`Message`) | an array of chunks, counts | add, grow, read, copy to and from Lua, `createMessage` | growth in the middle of an add, strings cut into chunks | no store past the array; what was added is read back |
| Script bridge (`ScriptManager`, the Lua part of `GameObject`) | Lua's globals, classes, stack | events to objects, `new`, `exec` | handlers that cause handlers, on one stack; userdata that outlives its object | an event runs its own object's handler; the stack settles |
| Mesh animation (`MeshComponent`) | the current and the next animation, their states in Ogre | `queueAnimation`, `update`, `loadMesh` | weights taken in one call and given back in another | an animated mesh shows an animation; short ones finish |
| Physics (`PhysicsComponent`, `PhysicsManager`) | bodies, the world, contact manifolds | load, destroy, `updateWorld` | handlers that change the array the loop goes through | the world is the components' bodies; both sides of a contact are told |
| Sound (`SoundManager`, `SoundComponent`) | counted sounds, the music, the listener | load, stop, pause, destroy | irrKlang's thread ends sounds meanwhile | references add up; what is given back ends |
| Oculus display (`OgreOculus`) | handles of LibOVR, cameras and viewports of Ogre | set-up, shutdown twice | its set-up may stop at any handle and nobody looks; it is destroyed after the root that owned what it made | what is released was there |
| Helpers, debug drawer, particle component | nothing that changes | | | not modelled, see the end |

How they interact. `BaseApplication::run` owns the one native thread. A frame
polls one event (Input), which sends messages (Messages) to the listeners
through `injectScriptEvent` (Script bridge), updates the sound listener, updates
every object and so every component, acts on active actions, and renders. A
handler runs to its end inside the native loop that sent it, and calls back:
it creates objects (which runs their `onCreate` at once), destroys them by tag,
registers listeners, loads components. So almost every hazard of this engine is
of one kind: native code keeps an iterator, an index, a pointer or a stack depth
over a call to a script. The only other thread is irrKlang's.

## The modules

| module | models | composes |
|---|---|---|
| `Message` | `Message.cpp`, with the loop of `increaseSize` and the store as steps of an add | |
| `Registry` | abstract: objects, tags, slots and animations by name, as the users of the application see them | |
| `ObjectStore` | `mObjects`, objects, components, factories, scene resources | implements `Registry` |
| `FrameContract` | abstract: what the headers promise of a frame (`GameObject.h:101`, `Component.h:61`) | |
| `FrameLoop` | `run`, `update`, `initializeScene`, the loops over listeners, the `onCollide` of a contact, what handlers call | INSTANCE of `ObjectStore`; implements `FrameContract` |
| `Input` | SDL's queue, the handlers, `mActiveActions`, the quit conditions | |
| `Joysticks` | the pads that are opened into `mJoy`, `getAxes`, `getMouseAxes` | |
| `Lifecycle` | `main`, `initialize` and its stages, `ScriptManager`'s constructor, the frames, `~BaseApplication`, `Oculus` | INSTANCE of `Joysticks` |
| `ScriptBridge` | `ScriptManager`, `injectScriptEvent`, `_l_newGameObject`, `__lua_GameObject_exec` | |
| `Physics` | components' bodies, Bullet's world, `updateWorld` and the handlers inside it | |
| `Animation` | `queueAnimation` and `MeshComponent::update` | |
| `Sound` | who holds which of irrKlang's sounds | |
| `MC...` | small instances of the module of that name | |
| `...Proofs` | theorems about the module of that name; `PlaybackProofs` about `Sound` and `Animation`, `LifecycleProofs` also about `Joysticks` | |

Names are those of the code. Some correspondences that are not plain:

- *Addresses.* `Objects`, `Comps`, `Bodies` and `Sounds` are addresses, not
  identities: a freed one may be allocated again, and `Freed` is its content
  meanwhile. Invariants about pointers are about that reuse.
- *Undefined behaviour.* A use of a deleted object, an erased iterator or an
  uninitialised field leads to the status `"undefined"`, in `FrameLoop` to a `pc`
  that says which use it was (`badListener`, `badSound`, `badContact`,
  `badIterator`, `noNinja`). In `FrameLoop`, `Physics` and `Message` those states
  are reachable, as they are in the code, and the properties
  (`UndefinedHasCause`, `BrokenOnlyIfSpoiled`, `StoresInBounds`) say what alone
  leads there; a history variable (`slips`, `spoiled`) records the cause. In
  `ScriptBridge` a contract rules them out, and `NeverUndefined` says so. An
  exception that ends the program is a status of its own. An uninitialised value
  is a choice.
- *`createMessage`.* The pass that counts chunks takes a float as one word, the
  pass that stores takes the double that C++ passes, two words of the 32-bit
  program. So after a float the counting pass reads each argument from an earlier
  word: a string there may be another string (`Found`), or no pointer at all
  (`Wild`), for which the count is any number up to `MaxWild`, or the program
  breaks. Among the run's argument lists are one where a string is read for another
  and two where none is found.
- *Atomicity.* There is one native thread, so an operation that calls no script
  is one step (`ObjectStore`, `Animation`). Where scripts can run in between,
  the native code is cut there (`FrameLoop`, `Physics`, `ScriptBridge`), and
  `calls` or `handling` says that it waits. `Message` is cut at each round of
  `increaseSize`, because whether that loop ends is one of the questions.
- *`FrameLoop` and `ObjectStore`.* Handlers and the scene use the actions of
  `ObjectStore` through INSTANCE with its variables, and two live objects with
  a physics component there may touch when `updateWorld` runs. A script's object
  gets any stale address that a listener list, a waiting handler or the native
  loop remembers, or one other free address: which makes no difference. An
  object's tag and its
  script are what handlers see. Names are numbers in the order of the strings,
  since `std::map` is ordered and the update pass goes in that order.
- *`ScriptBridge`.* On Lua's base stack only the depth counts; the frame of a
  `new` matters only while its `onCreate` runs, and then it is an entry of
  `calls`.
- *`Animation`.* Time is in ticks. Fields that are written and never read
  (`mTransitionTimeTotal`, `mTransitionTimeCur`, `mNextLooping`,
  `mAnimationLooping`) are left out.
- *`Lifecycle`.* A part is a member of `made` from the call that makes it to the
  one that deletes it. What code uses is listed at the stage or deletion it
  stands in (`Needs`, `DeletionNeeds`, `FrameNeeds`), and a use of a part that is
  not there goes into `faults`; the program goes on by luck or crashes. A stage
  ends well, with a code or with an exception (`Endings`), as `main` and
  `initialize` tell them apart.
- *`Joysticks`.* Sticks have the places at rest, at the edge of the dead zone and
  at the ends, which are not symmetric; axes are in 32767ths.
- *Variants.* An operator marked `\* variant` is a mistake somebody could have
  made in that place. Nothing uses it; each property was seen to fail with one.

### What scripts keep to

The engine checks little of what scripts do, so some properties hold only for
scripts that keep to a contract, which is a constant of the module. Each clause
is needed: without it, TLC finds a behaviour that breaks a property.

- `FrameLoop`: none. Handlers destroy whatever they like.
- `Physics`, `Contract`: a component is loaded once (`"load once"`), and before
  it is pushed or moved (`"load first"`). What an `onCollide` destroys is up to it.
- `Animation`, `Contract`: the animation queued is another than the current one
  (`"different"`, which `MeshComponent.h:44` has as a condition).
- `ScriptBridge`, `Contract`: scripted objects have a handler for whatever the
  application sends; nobody assigns to the name of a live one, uses a destroyed
  one, a component it has not, what `new` returned for a scripted one, or `exec`
  with three arguments.
- `Lifecycle`, `Contract`, what the machine and the user keep to: there is a
  sound device (`"soundDevice"`) and LibOVR makes a device manager
  (`"deviceManager"`); no pad comes before the input manager has opened those
  there are and found none (`"padsFirst"`), no more pads than `mJoy` has elements
  (`"fewPads"`), and at most one when the program ends (`"onePad"`).

## The runs

Bounds are constants of the modules, named there.

| run | checks | result |
|---|---|---|
| `message` | `TypeOK`, `StoresInBounds`, `ReadsBack`, `CreateNeverGrows`, `AddsReturn` | pass |
| `object_store` | `TypeOK`, `MapMatchesHeap`, `SlotsOwnComponents`, `FactoriesListLive`, `ImplementsRegistry` (implements `Registry`) | pass |
| `frame` | `TypeOK`, `UndefinedHasCause`, `ListenersToldOnce`, `OnlyLateMissUpdate`, `UpdatesOncePerFrame` (implements `FrameContract`), `FrameEnds` | pass |
| `input` | `TypeOK`, `QueueAddsUp`, `OnlyChangesAreSent`, `ReleasedActionsEnd` | pass |
| `sound` | `TypeOK`, `ReferencesAddUp`, `DeadComponentsFallSilent`, `DroppedSoundsEnd` | pass |
| `physics` | `TypeOK`, `BrokenOnlyIfSpoiled`, `WorldMatchesComponents`, `EveryPairTold` | pass |
| `animation` | `AnimationTypeOK`, `SomethingShows`, `ShortAnimationsFinish` | pass |
| `bridge` | `TypeOK`, `NeverUndefined`, `GlobalsMeanTheirObjects`, `SelfIsTheObject` | pass |
| `lifecycle` | `TypeOK`, `OnlyOculusOutlives`, `AllReturned`, `AxesTrue`, `AxesFollowSticks` | pass |
| `message_strings` | `AddedParamsReadBack` | violated |
| `input_escape` | `EscapeQuits` | violated |
| `oculus_exit` | `OgreEndsWithRoot` | violated |

Why the bounds are enough:

- `message`: strings of none, one and two chunks, with and without a rest, one
  value of each other type, every order of adds, pushes and pops within the
  limit on parameters. The first capacity is the code's 3, or what
  `createMessage` counts; each kind of add makes the array grow, and it can grow
  twice. Four parameters under numbers that wrap at three (256 in the code) make
  the last one share its number with the first. A copied message can be added
  to; a copy of a copy starts where a copy does, from a message that reads back.
  A string that is counted where there is none counts up to two chunks
  (`MaxWild`), less and more than the string has.
- `object_store`: two names, two tags, two objects and two components: enough
  for a name to pass to a new object while the other lives, for an address to
  come back under another type, and for a second component in a slot. The bound
  on a factory's entries for one address, 1, means that the address of a deleted
  physics component is used again only by components of other types.
- `frame`: five names, three of the scene, one before them and `Ninja` between;
  five objects, so that scripts own two at a time; three calls in all, which is
  one for a handler to create an object, one for the new `onCreate` to register
  it, to give it a body or to create another, and one to destroy; at most one
  contact per frame, since the loop over manifolds is `physics`' subject. Every
  kind of event occurs, the jump key's too, and every bad state is reached.
- `input`: two mapped keys and one that is not, a queue of three events, which
  fills; one button of each kind past the arrays of names.
- `sound`: two components and the music over three sounds; a sound's address is
  taken again by another holder.
- `physics`: three objects with a body each and any three pairs of them close,
  so that a destroyed object can be the `a` or the `b` of the pair that is told, of
  a later pair or of one that was told; with fewer pairs, objects in no pair are
  destroyed, which is harmless. Five calls load three bodies, destroy an object and
  create another at its address.
- `animation`: three animations, of four ticks, three, and one, which is shorter
  than a long frame.
- `bridge`: two names, objects and classes, two nested events, four calls.
- `lifecycle`: every stage with every ending it can have; three pads for two
  elements of `mJoy`, so that the array can be too small, full and empty; sticks
  at the places where an axis changes; mouse offsets to both sides.

What the violations show:

- `message_strings`: `addString` stores the full pieces of a string at
  `mParams[mNumParam + i]` (`Message.cpp:160`), which is the end of the message
  only while no earlier string took several chunks. The second long string
  overwrites the first. `Message.h:94` says it is added "to the end of the
  message".
- `input_escape`: `getKeystate` (`InputManager.cpp:280`) asks a table by
  scancode with a keycode. Escape does nothing, the X key quits.
  `BaseApplication.cpp:840` says "Quit the application when escape is pressed".
- `oculus_exit`: the member `oculus` is destroyed after the body of
  `~BaseApplication`, so `shutDownOgre` (`OgreOculus.cpp:89`) removes compositors,
  viewports and cameras of a root that was deleted (`BaseApplication.cpp:55`).
  The comment there (`:53`) says it "will destroy all ogre objects".

## Fairness

- `FrameLoop`: weak fairness of the native step and of a handler's return. There
  is one thread, nothing waits for anything outside it, and a handler is a Lua
  function that returns. Scripts owe nothing: that a handler makes another call
  is never assumed.
- `Input`: weak fairness of frames only: the loop runs by itself. The user owes
  nothing, and may press keys without end.
- `Sound`: weak fairness of each sound's ending, which irrKlang's thread sees
  to. The application owes nothing.
- `Animation`: weak fairness of `update`: every frame updates every component,
  and `run` passes a time that is above zero.
- `Lifecycle`: none. Deadlock is checked, so it ends nowhere but in the end.
- `Message`: weak fairness of the steps of a call under way: a call on the one
  thread runs to its end if it has one.

## What is proved

| module | theorems |
|---|---|
| `MessageProofs` | `MessageTypeOK`, `MessageChunksFit`, `MessageStoresInBounds`, `MessageCreateNeverGrows`, `MessageReadsBack`, `MessageDoublingEnds` |
| `ObjectStoreProofs` | `StoreTypeOK`, `StoreMapMatchesHeap`, `StoreAddNeverRefuses`, `StoreSlotsOwnComponents`, `StoreFactoriesListLive`, `StoreAnimationFlagHolds`, `StoreComponentsDieWithOwner`, `StoreImplementsRegistry` |
| `FrameLoopProofs` | `FrameUsesStore`, `FrameTypeOK`, `FrameListenersToldOnce`, `FrameOnlyLateMissUpdate`, `FrameUpdatesOncePerFrame`, `FrameUndefinedHasCause` |
| `InputProofs` | `InputTypeOK`, `InputQueueAddsUp`, `InputOnlyChangesAreSent` |
| `PhysicsProofs` | `PhysicsTypeOK`, `PhysicsWorldMatchesComponents`, `PhysicsEveryPairTold`, `PhysicsBrokenOnlyIfSpoiled` |
| `ScriptBridgeProofs` | `BridgeTypeOK`, `BridgeGlobalsMeanTheirObjects`, `BridgeSelfIsTheObject`, `BridgeNeverUndefined` |
| `PlaybackProofs`, `Sound` | `SoundTypeOK`, `SoundReferencesAddUp`, `SoundSoundsNotShared`, `SoundDeadComponentsFallSilent`, `SoundLoneOnesOnlyEnd` |
| `PlaybackProofs`, `Animation` | `AnimationKeepsTypes`, `AnimationSomethingShows`, `AnimationPlaysOn` |
| `LifecycleProofs` | `LifecycleTypeOK`, `LifecycleAllReturned`, `LifecycleAxesTrue`, `LifecycleAxesFollowSticks`, `LifecycleOnlyOculusOutlives` |

Every invariant, action property and refinement of the passing runs is among
them; of the runs' properties only the five about liveness are not.

The assumptions are the ASSUMEs of the modules (`MessageAssumption`,
`StoreAssumption`, `InputAssumption`, `SoundAssumption`, `PhysicsAssumption`,
`BridgeAssumption`, `AnimationAssumption`, `FrameAssumption`,
`FrameStoreAssumption`, which is the store's for the frame loop's constants, and
`LifecycleAssumption`, which has `JoyAssumption` for the joysticks').
They only say that constants are of the right kind, that markers such as `NULL`
are no addresses, for the frame loop that names are numbers and the scene's
are among them, and for the joysticks that `mJoy` has more than one element.
There is no bound in the theorems on objects, names, chunks, parameters, keys,
pads, listeners, manifolds or nested calls.
Where a property needs clauses of the contract, the theorem assumes those clauses
and no others: `"load once"` for `PhysicsWorldMatchesComponents`, `"load once"` and
`"load first"` for `PhysicsBrokenOnlyIfSpoiled`, `"globals"` for
`BridgeGlobalsMeanTheirObjects` and `BridgeSelfIsTheObject`, `"different"` for
`AnimationSomethingShows` and `AnimationPlaysOn`; `BridgeNeverUndefined` needs all of
the bridge's. The theorems about messages, the frame loop, and
`PhysicsEveryPairTold`, need none. `LifecycleOnlyOculusOutlives`
needs the whole contract of `Lifecycle`, whose other theorems need none of it.
`MessageDoublingEnds` assumes that each argument list `createMessage` gets needs a
chunk: with the empty one, doubling 0 never ends.

The arguments:

- *Messages.* `ChunksFit`, the array covers the chunks that are counted, is what
  `StoresInBounds` rests on. It is not inductive by itself: while `increaseSize`
  doubles, the array is smaller than the count, and the store that follows is in
  bounds only because the doubling stopped no sooner than it had to. The
  invariant says, for each place the call can be in, how the count, the capacity
  and the array's length stand to each other. An empty string moves the next full
  pieces one item further (`NumInv`: the parameters are at most as many as the
  chunks and the empty strings together), so the store is bounded by the array
  and the number of empty strings: without any it is in the array, with one it
  may be past it, and the model goes there. Neither depends on what
  `createMessage` counted.
  `CreateNeverGrows` is about the lists whose strings the counting pass reads
  where they are, which is those without a string after a float (`counted`). It
  rests on a count: `createMessage` sums over its arguments
  what the adds then use one by one, so a lemma takes the first argument off the
  sum (its cells are in bijection with those of the rest and its own), and the
  invariant `CreateExact` says that what is counted and what is still to come make
  up the capacity.
  `ReadsBack` is about the array's content, and no statement about the readings
  alone is inductive. `ReadInv` says where each parameter that was added lies
  (`Tiles`: the offsets of the items fill the counted chunks without gap), that
  each cell there has the item's number, place, kind and value (`Laid`, `Holds`),
  what of the pending argument is already stored, and while a message is copied,
  which parameters the copy has. The add, the growth and each step of the copy keep
  it. The copy drops what Lua cannot hold by a recursive function (`Carried`);
  what it returns is shown through the smallest length for which it were wrong.
  `MessageDoublingEnds` gives the loop of `increaseSize` a measure.
- *Object store.* `MapMatchesHeap`, `NodesMatchMap` (a scene node for exactly
  the names in the map), `SlotsOwnComponents` and the factories' lists need one
  another: a removal frees the right components
  only if slots own them, and `FactoriesListLive` survives the call to the
  camera factory with a physics component only because no camera has that
  address. The step proof has a case for each action, and the actions that
  destroy a set of objects rest on one lemma about `Free`.
- *Registry.* The store's state is seen through a mapping (`ImplementsRegistry`):
  names, tags and slots of live objects, and an animation as none, live or
  broken. Initial states map to the initial state, and each action to the action
  of that name or to a stutter. Under the store's invariant the mapping does not
  depend on which address an object has, and a further invariant (a flagged
  object's animation is live) rules out "broken".
- *Frame loop.* `FrameUsesStore` comes first: each step is one of the store's
  or leaves the objects alone, so the store's invariants hold here, and what the
  loop needs of them is one lemma (`StoreFacts`). Effect lemmas then say what
  creating, destroying and the rest do to the live objects, and the other proofs
  use only those. The update pass: an object has no update exactly if the
  iterator has yet to come to its name, or it was created behind the iterator
  (`UpdatedSoFar`); this holds over handlers because the map is ordered, a name
  has one object, and the name at the iterator is taken while its element is
  there. At the end of the map nothing is waited for, which is
  `OnlyLateMissUpdate`, and what was there at the beginning is never late, so
  nothing is owed when the frame of `FrameContract` ends; where `++it` uses an
  erased element, the frame never does end. The listeners: no pointer
  is on the list twice, and the message went once through those before the index;
  a registration appends behind it. `UndefinedHasCause` rests on `AllThere`: as
  long as nothing of a kind that the engine holds on to was destroyed, everything
  of the kind is there; each use of a pointer then finds it, and for a track the
  node is that of the animated object of its name.
- *Physics.* Under `"load once"` each body's user is the component that has it,
  so two components never share a body, and what one takes out of the world is
  its own. The loop's invariant says (`Halfway`) how many tellings there were and to
  whom, as long as the array has as many manifolds as were counted; once one is
  lost, all that is left to the loop is the second half of its last pair, or a read
  past the array, so `EveryPairTold` needs no contract. That only the destruction of
  an object of a pair loses one (`LostIfSpoiled`) is what `BrokenOnlyIfSpoiled`
  rests on.
- *Script bridge.* `GlobalsMeanTheirObjects` needs that a live object is in the
  map under its name: `new` overwrites a global before it looks, and only the
  exception that a used name then raises saves the object that has it. That the
  class behind the global has every handler (`HandlersThere`) then keeps the
  stack from being popped (`StackKept`), and with it `NeverUndefined`.
- *Animation.* The current animation is enabled and has its weight, unless a next
  one shows in its place; this needs that the next is never the current one. A
  short animation is brought on by every update until a step could reach its end,
  and nothing takes it back: that is the measure of `ShortAnimationsFinish`.
- *Input.* `QueueAddsUp` says what the keys and the active actions are to the
  events between them. It is inductive once the queue is known to alternate
  presses and releases of a key; the handlers then keep it because no two keys
  share an action.
- *Sound.* `ReferencesAddUp` and `SoundsNotShared` are inductive together, with
  the types, and neither is alone: a drop keeps the count right only if the one
  who drops was the only holder, and a fresh address is shared with nobody only
  if no pointer to it was left. What one call of irrKlang does to one sound is a
  lemma each; two lemmas lift them to all sounds, for a component that gives up
  its sound and for the music, and the steps rest on those.
  `DeadComponentsFallSilent` then follows from the invariant step by step. So does
  what `DroppedSoundsEnd` has of safety: no call touches a sound nobody holds, and
  the first ending of the engine's thread frees it, its reference being the last.
- *Lifecycle.* While nothing has failed, the stage says which parts there are
  (`MadeInOrder`). After a failure it does not, and two things take its place:
  which parts are never there without which others, and with which outcome
  (`KeptTogether`), and that the deletions that were passed left nothing behind
  (`TakenApart`). They hold without any clause of the contract, since a crash ends
  the program before `main` returns, and `AllReturned` follows. That a pointer in
  use is to a part that is there (`PointersGood`) needs the whole contract; under
  it no fault comes before `~Oculus`.
- *Joysticks.* What `getAxes` returns is bounded by the stick's types alone; the
  division by the full scale is where a stick all the way to the left comes out
  below -1.

Only model-checked is liveness: `AddsReturn`, `FrameEnds`, `ReleasedActionsEnd`,
`DroppedSoundsEnd` and `ShortAnimationsFinish`. The proof system here has no rules
for fairness or ENABLED. For three of them a theorem states what a proof by hand
would need besides: the measure that goes down (`MessageDoublingEnds`,
`AnimationPlaysOn`), or that what is awaited cannot be put off
(`SoundLoneOnesOnlyEnd`). The violated properties of `message_strings`,
`input_escape` and `oculus_exit` have nothing to prove.

## What else the code does that nobody may expect

Met while modelling; the modules have these behaviours, no run is about them.

- `Message`: a message made by `createMessage("")` has no capacity, and doubling
  0 never ends (`Message.cpp:81`). `addString("")` counts a parameter without a
  chunk (`:173`), so that the full pieces of a later string, stored by the number of
  parameters (`:160`), may go past the end of the array. `createMessage`'s first
  pass, to "Find out how many chunks the input needs" (`:536`), takes an `'f'` with
  `va_arg(args, float)` (`:565`), the second as the `double` it is (`:607`): every
  argument after a float is counted from the wrong word, and an `'s'` there is
  followed as a pointer that is none. The engine's own formats with a float, the
  `"f"` of `onUpdate`, have nothing after it. The parameter number is a byte, so the 257th parameter answers
  for the first (`:102`). `getInt` of a string throws (`:224`) where the header
  says 0, `getGameObject` returns the bits of anything (`:255`).
- `GameObject`: `destroyAnimation` and `addAnimationKeyframe` throw without an
  animation, where the header says they have no effect (`:240`, `:186`). The
  physics slot is deallocated through the camera factory, so the physics
  factory's vector keeps deleted components (`:57`).
- `CameraComponent`: the camera made is `<name>_camera`, the one destroyed
  `<name>` (`:29`), so a name can have a camera only once.
- `BaseApplication`: `update` increments an iterator whose element a handler may
  have erased (`:667`), where `GameObject.h:101` says update is "called every
  frame". Destroyed objects stay listeners of input and sound, since
  nothing calls `removeListener` or resets `mListener`. The lines of
  `initializeScene` that made the object `Ninja` are commented out (`:404`-`:431`),
  Space is mapped to the jump action (`:345`), and while that is active `update`
  uses the `Ninja` it does not find (`:787`): with the scene as it is, the first
  press of Space. `FrameLoop` has all of these.
- `InputManager`: a joystick's press is handled as a mouse release (`:88`). The
  last action is past the end of `mActiveActions`, higher buttons past the
  arrays of names. `mJoy` is uninitialised without joysticks and too small for
  five, and the destructor closes the second one each time. A stick all the way
  to the left gives an axis slightly below -1 (`InputManager.h:111` says -1 to
  1). Of all devices together the last pad decides, so one at rest mutes the
  others.
- `SoundManager`: `loadBackgroundMusic` (`:129`) drops the looped music it held
  without stopping it, and it plays on beside "the currently playing (2d)
  background music" (`SoundManager.h:80`). The engine is used before the check
  for NULL (`:18`).
- `Oculus`: `setupOgre` uses `m_stereoConfig` although `setupOculus` may have
  failed before it was made (`OgreOculus.cpp:219`), and materials and compositors
  without asking whether they were found (`:199`, `:223`, `:252`): where one is
  missing the program crashes, which `Lifecycle` does not have. `shutDownOculus` runs
  twice and releases the sensor each time (`:71-74`).
- `PhysicsManager`: "This part is broken!" says the comment (`:72`) on the two
  lines that send `onCollide`, and it is right: if the handler of the first
  destroys the other object, the second is sent through a deleted pointer, and if
  either destroys any object of a pair, the loop goes on to the number of manifolds
  it read before (`:58`), past those that are left. `Physics` shows that nothing
  else breaks it; `ScriptBridge`, which has what the calls do to Lua's stack, that
  objects without an `onCollide` leave the stack one value short each time.
- `PhysicsComponent`: a mass of 0 leaves a static body, not `mBody` NULL as the
  header says (`PhysicsComponent.h:77`). A second load leaks the first body.
- `MeshComponent`: the next animation never becomes the current one. The
  direction asked for it is at once the direction of the current one. For a name
  the mesh has not, `queueAnimation` ends without a return value.
- `ScriptManager`, `GameObject`: `injectScriptEvent` pops one value too many
  when a global or a method is missing (`GameObject.cpp:266`, `:273`), and
  empties the stack frame of the `new` that sent `onCreate` (`:286`), so that
  `new` returns the function itself; where the class has no `onCreate`, it
  returns the class. When a script that the constructor runs throws, nobody
  closes the Lua state. Fields set on an object are fields of its class (`:570`).

## Not modelled

- Transforms, camera settings, positions of sounds, forces: arithmetic handed on
  to Ogre, Bullet and irrKlang.
- The overlay with the recent log, `stack_dump`, `Utility`, the singleton and
  exception types: no state that properties could be about.
- `DebugDrawer` and `ParticleComponent`: nothing creates them.
- `src/dependencies`: vendored.

## Plan

In this order; what is done is described above.

1. Done: every module of the table, with its runs; the refinements of `Registry`
   and `FrameContract`; the theorems above.
2. Composition, done for `onCollide`, which is one of the places of `FrameLoop`
   from which handlers are called. Left: the bodies and manifolds of `Physics` in
   the objects of `ObjectStore`, and `ScriptBridge`'s `new` and events in
   `FrameLoop`, so that its `inject` is the bridge's.
3. An abstract sequence of parameters that `Message` implements as long as
   strings are short.
4. Theorems: measures for `FrameEnds` and `ReleasedActionsEnd`; that what
   `FrameLoop` records as a slip of kind `"contact"` is what spoils `Physics`, once
   the two are composed.
