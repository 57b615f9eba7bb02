--------------------------- MODULE PlaybackProofs ---------------------------
(***************************************************************************)
(* Proofs about what components play: Sound, for every set of files,       *)
(* components and sounds, and Animation, for every set of animations,      *)
(* lengths and frames.                                                     *)
(*                                                                         *)
(* The references of each sound add up, and nobody shares one: each of the *)
(* two needs the other, for a drop frees a sound only if its holder was    *)
(* the only one, and a fresh address is shared with nobody only if no      *)
(* pointer to it was left.                                                 *)
(*                                                                         *)
(* No animation reaches its very end, and a mesh that was ever animated    *)
(* shows one.                                                              *)
(***************************************************************************)
EXTENDS Sound, Animation, TLAPS

\* The references of one sound, r, that somebody holds or not.
Good(r, h) == IF r # Freed THEN r.refs = One(r.state # "ended") + One(h) ELSE ~h

\* Who holds s, but for component c; but for the music.
HeldBesides(c, s) == mBackgroundMusic = s \/ \E d \in components \ {c} : mSound[d] = s

SoundInv == TypeOK /\ ReferencesAddUp /\ SoundsNotShared

-----------------------------------------------------------------------------
(***************************************************************************)
(* One sound.                                                              *)
(***************************************************************************)
LEMMA FreedIsNoSound == Freed \notin ISound
  <1>1. \A r \in ISound : r \in [refs : 0 .. 2, state : {"playing", "stopped", "ended"},
                                looped : BOOLEAN, paused : BOOLEAN, music : BOOLEAN]
    BY DEF ISound
  <1> QED BY <1>1, SoundAssumption

\* What stop and pause leave of a sound.
LEMMA StopKeeps ==
  ASSUME NEW r \in ISound, NEW h \in BOOLEAN, Good(r, h)
  PROVE  stop(r) \in ISound /\ Good(stop(r), h)
  <1>1. r # Freed BY FreedIsNoSound
  <1>2. stop(r) \in ISound BY <1>1 DEF stop, ISound
  <1>3. stop(r).refs = r.refs BY DEF stop, ISound
  <1>4. (stop(r).state # "ended") = (r.state # "ended") BY DEF stop, ISound
  <1> QED BY <1>1, <1>2, <1>3, <1>4, FreedIsNoSound DEF Good

LEMMA PauseKeeps ==
  ASSUME NEW r \in ISound, NEW h \in BOOLEAN, Good(r, h)
  PROVE  pause(r) \in ISound /\ Good(pause(r), h)
  <1>1. r # Freed BY FreedIsNoSound
  <1>2. pause(r) \in ISound BY <1>1 DEF pause, ISound
  <1>3. pause(r).refs = r.refs /\ pause(r).state = r.state BY DEF pause, ISound
  <1> QED BY <1>1, <1>2, <1>3, FreedIsNoSound DEF Good

\* Its holder gives a sound back.
LEMMA GiveBackLeaves ==
  ASSUME NEW r \in ISound, Good(r, TRUE)
  PROVE  GiveBack(r) \in ISound \cup {Freed} /\ Good(GiveBack(r), FALSE)
  <1>1. r # Freed BY FreedIsNoSound
  <1>2. r.refs = One(r.state # "ended") + 1 BY <1>1 DEF Good, One
  <1>3. CASE r.state = "ended"
    <2>1. r.refs = 1 BY <1>2, <1>3 DEF One
    <2> QED BY <2>1 DEF GiveBack, Good
  <1>4. CASE r.state # "ended"
    <2>1. r.refs = 2 BY <1>2, <1>4 DEF One
    <2>2. GiveBack(r) = [r EXCEPT !.refs = 1] BY <2>1, <1>1 DEF GiveBack, ISound
    <2>3. GiveBack(r) \in ISound BY <2>2 DEF ISound
    <2>4. GiveBack(r).refs = 1 /\ GiveBack(r).state # "ended" BY <2>2, <1>4 DEF ISound
    <2> QED BY <2>3, <2>4 DEF Good, One
  <1> QED BY <1>3, <1>4

\* The engine lets go of a sound that ended.
LEMMA EndedLeaves ==
  ASSUME NEW e \in ISound, NEW h \in BOOLEAN, e.state = "ended", e.refs = 1 + One(h)
  PROVE  GiveBack(e) \in ISound \cup {Freed} /\ Good(GiveBack(e), h)
  <1>1. e # Freed BY FreedIsNoSound
  <1>2. CASE h
    <2>1. e.refs = 2 BY <1>2 DEF One
    <2>2. GiveBack(e) = [e EXCEPT !.refs = 1] BY <2>1, <1>1 DEF GiveBack, ISound
    <2>3. GiveBack(e) \in ISound BY <2>2 DEF ISound
    <2>4. GiveBack(e).refs = 1 /\ GiveBack(e).state = "ended" BY <2>2 DEF ISound
    <2>5. Good(GiveBack(e), TRUE) BY <2>3, <2>4, FreedIsNoSound DEF Good, One
    <2> QED BY <2>3, <2>5, <1>2
  <1>3. CASE ~h
    <2>1. e.refs = 1 BY <1>3 DEF One
    <2>2. GiveBack(e) = Freed BY <2>1 DEF GiveBack
    <2> QED BY <2>2, <1>3 DEF Good
  <1> QED BY <1>2, <1>3

LEMMA EndLeaves ==
  ASSUME NEW r \in ISound, NEW h \in BOOLEAN, Good(r, h), r.state # "ended"
  PROVE  LET e == [r EXCEPT !.state = "ended"]
         IN GiveBack(e) \in ISound \cup {Freed} /\ Good(GiveBack(e), h)
  <1> DEFINE e == [r EXCEPT !.state = "ended"]
  <1>1. r.refs = 1 + One(h) BY FreedIsNoSound DEF Good, One
  <1>2. e \in ISound BY DEF ISound
  <1>3. e.refs = 1 + One(h) /\ e.state = "ended" BY <1>1 DEF ISound
  <1> HIDE DEF e
  <1>4. GiveBack(e) \in ISound \cup {Freed} /\ Good(GiveBack(e), h) BY <1>2, <1>3, EndedLeaves
  <1> QED BY <1>4 DEF e

LEMMA StartedIsGood ==
  ASSUME NEW looped \in BOOLEAN, NEW music \in BOOLEAN
  PROVE  Started(looped, music) \in ISound /\ Good(Started(looped, music), TRUE)
  <1>1. Started(looped, music) \in ISound BY DEF Started, ISound
  <1>2. Started(looped, music).refs = 2 /\ Started(looped, music).state = "playing" BY DEF Started
  <1> QED BY <1>1, <1>2, FreedIsNoSound DEF Good, One

LEMMA SameHolders ==
  ASSUME NEW r, NEW h, NEW g, h <=> g, Good(r, h)
  PROVE  Good(r, g)
  BY DEF Good, One

-----------------------------------------------------------------------------
(***************************************************************************)
(* All the sounds.                                                         *)
(***************************************************************************)
LEMMA AddUpIsGood ==
  ASSUME TRUE
  PROVE  ReferencesAddUp <=> \A s \in Sounds : Good(sound[s], Held(s))
  BY DEF ReferencesAddUp, Alive, Good

\* A sound that component c holds is held by nobody else.
LEMMA HeldByItAlone ==
  ASSUME SoundInv, NEW c \in components, mSound[c] # NULL
  PROVE  /\ mSound[c] \in Sounds /\ sound[mSound[c]] \in ISound
         /\ Good(sound[mSound[c]], TRUE) /\ ~HeldBesides(c, mSound[c])
  <1> DEFINE t == mSound[c]
  <1>1. t \in Sounds BY DEF SoundInv, TypeOK
  <1>2. Held(t) BY DEF Held, HeldByOne
  <1>3. Good(sound[t], TRUE) BY <1>1, <1>2, AddUpIsGood, Zenon DEF SoundInv, Good
  <1>4. sound[t] \in ISound BY <1>1, <1>3 DEF SoundInv, TypeOK, Good
  <1>5. ~HeldBesides(c, t) BY DEF SoundInv, SoundsNotShared, HeldBesides
  <1> QED BY <1>1, <1>3, <1>4, <1>5

\* What is left when component c gives its sound back, stopped first or not.
LEMMA DroppedGood ==
  ASSUME SoundInv, NEW c \in components, NEW D, D \in {DroppedOld(c), Silenced(c)}
  PROVE  /\ D \in [Sounds -> ISound \cup {Freed}]
         /\ \A x \in Sounds : Good(D[x], HeldBesides(c, x))
  <1> USE DEF SoundInv
  <1>1. \A x \in Sounds : Good(sound[x], Held(x)) BY AddUpIsGood
  <1>2. CASE mSound[c] = NULL
    <2>1. D = sound BY <1>2 DEF DroppedOld, Silenced
    <2>2. \A x \in Sounds : HeldBesides(c, x) = Held(x)
      BY <1>2, SoundAssumption DEF HeldBesides, Held, HeldByOne
    <2> QED BY <2>1, <2>2, <1>1 DEF TypeOK
  <1>3. CASE mSound[c] # NULL
    <2> DEFINE t == mSound[c]
    <2>1. t \in Sounds /\ sound[t] \in ISound /\ Good(sound[t], TRUE) /\ ~HeldBesides(c, t)
      BY <1>3, HeldByItAlone
    <2>2. PICK r : r \in ISound /\ Good(r, TRUE) /\ D = [sound EXCEPT ![t] = GiveBack(r)]
      <3>1. stop(sound[t]) \in ISound /\ Good(stop(sound[t]), TRUE) BY <2>1, StopKeeps
      <3>2. \/ D = [sound EXCEPT ![t] = GiveBack(sound[t])]
            \/ D = [sound EXCEPT ![t] = GiveBack(stop(sound[t]))]
        BY <1>3, Zenon DEF DroppedOld, Silenced, drop, stopAndDrop
      <3> QED BY <2>1, <3>1, <3>2
    <2>3. GiveBack(r) \in ISound \cup {Freed} /\ Good(GiveBack(r), FALSE) BY <2>2, GiveBackLeaves
    <2>4. D \in [Sounds -> ISound \cup {Freed}] BY <2>2, <2>3 DEF TypeOK
    <2>5. ASSUME NEW x \in Sounds PROVE Good(D[x], HeldBesides(c, x))
      <3>1. CASE x = t
        <4>1. D[x] = GiveBack(r) BY <3>1, <2>1, <2>2 DEF TypeOK
        <4>2. ~HeldBesides(c, x) BY <3>1, <2>1
        <4>3. Good(D[x], FALSE) BY <4>1, <2>3
        <4> QED BY <4>2, <4>3 DEF Good, One
      <3>2. CASE x # t
        <4>1. D[x] = sound[x] BY <3>2, <2>2 DEF TypeOK
        <4>2. HeldBesides(c, x) <=> Held(x) BY <3>2 DEF HeldBesides, Held, HeldByOne
        <4> QED BY <4>1, <4>2, <1>1, SameHolders
      <3> QED BY <3>1, <3>2
    <2> QED BY <2>4, <2>5
  <1> QED BY <1>2, <1>3

\* What is left when the music is given back, stopped first or not.
LEMMA MusicGood ==
  ASSUME SoundInv, NEW D,
         \/ D = MusicDropped
         \/ mBackgroundMusic # NULL /\ D = stopAndDrop(sound, mBackgroundMusic)
  PROVE  /\ D \in [Sounds -> ISound \cup {Freed}]
         /\ \A x \in Sounds : Good(D[x], HeldByOne(x))
  <1> USE DEF SoundInv
  <1>1. \A x \in Sounds : Good(sound[x], Held(x)) BY AddUpIsGood
  <1>2. CASE mBackgroundMusic = NULL
    <2>1. D = sound BY <1>2 DEF MusicDropped
    <2>2. \A x \in Sounds : HeldByOne(x) = Held(x) BY <1>2, SoundAssumption DEF Held, HeldByOne
    <2> QED BY <2>1, <2>2, <1>1 DEF TypeOK
  <1>3. CASE mBackgroundMusic # NULL
    <2> DEFINE t == mBackgroundMusic
    <2>1. t \in Sounds BY <1>3 DEF TypeOK
    <2>2. Good(sound[t], TRUE) BY <2>1, <1>1, Zenon DEF Held, Good
    <2>3. sound[t] \in ISound BY <2>1, <2>2 DEF TypeOK, Good
    <2>4. ~HeldByOne(t) BY <1>3 DEF HeldByOne, SoundsNotShared
    <2>5. PICK r : r \in ISound /\ Good(r, TRUE) /\ D = [sound EXCEPT ![t] = GiveBack(r)]
      <3>1. stop(sound[t]) \in ISound /\ Good(stop(sound[t]), TRUE) BY <2>2, <2>3, StopKeeps
      <3>2. \/ D = [sound EXCEPT ![t] = GiveBack(sound[t])]
            \/ D = [sound EXCEPT ![t] = GiveBack(stop(sound[t]))]
        BY <1>3, Zenon DEF MusicDropped, drop, stopAndDrop
      <3> QED BY <2>2, <2>3, <3>1, <3>2
    <2>6. GiveBack(r) \in ISound \cup {Freed} /\ Good(GiveBack(r), FALSE) BY <2>5, GiveBackLeaves
    <2>7. D \in [Sounds -> ISound \cup {Freed}] BY <2>5, <2>6 DEF TypeOK
    <2>8. ASSUME NEW x \in Sounds PROVE Good(D[x], HeldByOne(x))
      <3>1. CASE x = t
        <4>1. D[x] = GiveBack(r) BY <3>1, <2>1, <2>5 DEF TypeOK
        <4>2. ~HeldByOne(x) BY <3>1, <2>4
        <4>3. Good(D[x], FALSE) BY <4>1, <2>6
        <4> QED BY <4>2, <4>3 DEF Good, One
      <3>2. CASE x # t
        <4>1. D[x] = sound[x] BY <3>2, <2>5 DEF TypeOK
        <4>2. HeldByOne(x) <=> Held(x) BY <3>2 DEF Held
        <4> QED BY <4>1, <4>2, <1>1, SameHolders
      <3> QED BY <3>1, <3>2
    <2> QED BY <2>7, <2>8
  <1> QED BY <1>2, <1>3

-----------------------------------------------------------------------------
(***************************************************************************)
(* The steps.                                                              *)
(***************************************************************************)
LEMMA NextIsGood ==
  ASSUME \A x \in Sounds : Good(sound'[x], Held(x)')
  PROVE  ReferencesAddUp'
  BY DEF ReferencesAddUp, Alive, Good

LEMMA Initially == Init => SoundInv
  <1> SUFFICES ASSUME Init PROVE SoundInv OBVIOUS
  <1>1. TypeOK BY DEF Init, loadAllFilesFromMemory, TypeOK
  <1>2. ReferencesAddUp
    BY SoundAssumption DEF Init, ReferencesAddUp, Alive, Held, HeldByOne
  <1>3. SoundsNotShared BY DEF Init, SoundsNotShared
  <1> QED BY <1>1, <1>2, <1>3 DEF SoundInv

LEMMA CreateStep ==
  ASSUME SoundInv, NEW c \in Comps, createSoundComponent(c)
  PROVE  SoundInv'
  <1> USE DEF SoundInv, createSoundComponent
  <1>1. TypeOK' BY DEF TypeOK
  <1>2. ASSUME NEW x \in Sounds PROVE Good(sound'[x], Held(x)')
    <2>1. Good(sound[x], Held(x)) BY AddUpIsGood
    <2>2. Held(x)' <=> Held(x) BY SoundAssumption DEF TypeOK, Held, HeldByOne
    <2> QED BY <2>1, <2>2 DEF Good, One
  <1>3. SoundsNotShared' BY DEF SoundsNotShared, TypeOK
  <1> QED BY <1>1, <1>2, <1>3, NextIsGood

LEMMA DeleteStep ==
  ASSUME SoundInv, NEW c \in Comps, deleteComponent(c)
  PROVE  SoundInv'
  <1> USE DEF SoundInv, deleteComponent
  <1>1. /\ sound' \in [Sounds -> ISound \cup {Freed}]
        /\ \A x \in Sounds : Good(sound'[x], HeldBesides(c, x))
    BY DroppedGood
  <1>2. TypeOK' BY <1>1 DEF TypeOK
  <1>3. ASSUME NEW x \in Sounds PROVE Good(sound'[x], Held(x)')
    <2>1. Held(x)' <=> HeldBesides(c, x) BY SoundAssumption DEF TypeOK, Held, HeldByOne, HeldBesides
    <2> QED BY <1>1, <2>1 DEF Good, One
  <1>4. SoundsNotShared' BY DEF SoundsNotShared, TypeOK
  <1> QED BY <1>2, <1>3, <1>4, NextIsGood

LEMMA LoadStep ==
  ASSUME SoundInv, NEW c \in Comps, NEW file \in Files, NEW looped \in BOOLEAN,
         loadSound(c, file, looped)
  PROVE  SoundInv'
  <1> USE DEF SoundInv
  <1>0. c \in components /\ UNCHANGED <<mISoundSources, components, mBackgroundMusic, closed>>
    BY DEF loadSound
  <1>1. PICK D : D = DroppedOld(c) OBVIOUS
  <1>2. /\ D \in [Sounds -> ISound \cup {Freed}]
        /\ \A x \in Sounds : Good(D[x], HeldBesides(c, x))
    BY <1>0, <1>1, DroppedGood
  <1>3. ASSUME NEW s \in Sounds, D[s] = Freed, mSound' = [mSound EXCEPT ![c] = s],
               sound' = [D EXCEPT ![s] = Started(looped, FALSE)]
        PROVE  SoundInv'
    <2>1. Started(looped, FALSE) \in ISound /\ Good(Started(looped, FALSE), TRUE)
      BY StartedIsGood
    <2>2. ~HeldBesides(c, s) BY <1>2, <1>3 DEF Good
    <2>3. TypeOK' BY <1>0, <1>2, <1>3, <2>1 DEF TypeOK
    <2>4. ASSUME NEW x \in Sounds PROVE Good(sound'[x], Held(x)')
      <3>1. CASE x = s
        <4>1. sound'[x] = Started(looped, FALSE) BY <1>2, <1>3, <3>1
        <4>2. Held(x)' BY <1>0, <1>3, <3>1 DEF Held, HeldByOne, TypeOK
        <4>3. Good(sound'[x], TRUE) BY <2>1, <4>1
        <4> QED BY <4>2, <4>3 DEF Good, One
      <3>2. CASE x # s
        <4>1. sound'[x] = D[x] BY <1>2, <1>3, <3>2
        <4>2. Held(x)' <=> HeldBesides(c, x)
          BY <1>0, <1>3, <3>2 DEF TypeOK, Held, HeldByOne, HeldBesides
        <4>3. Good(sound'[x], HeldBesides(c, x)) BY <4>1, <1>2
        <4> QED BY <4>2, <4>3 DEF Good, One
      <3> QED BY <3>1, <3>2
    <2>5. SoundsNotShared'
      BY <1>0, <1>3, <2>2 DEF SoundsNotShared, TypeOK, HeldBesides
    <2> QED BY <2>3, <2>4, <2>5, NextIsGood
  <1>4. ASSUME sound' = D, mSound' = [mSound EXCEPT ![c] = NULL]
        PROVE  SoundInv'
    <2>1. TypeOK' BY <1>0, <1>2, <1>4 DEF TypeOK
    <2>2. ASSUME NEW x \in Sounds PROVE Good(sound'[x], Held(x)')
      <3>1. Held(x)' <=> HeldBesides(c, x)
        BY <1>0, <1>4, SoundAssumption DEF TypeOK, Held, HeldByOne, HeldBesides
      <3>2. Good(sound'[x], HeldBesides(c, x)) BY <1>2, <1>4
      <3> QED BY <3>1, <3>2 DEF Good, One
    <2>3. SoundsNotShared' BY <1>0, <1>4 DEF SoundsNotShared, TypeOK
    <2> QED BY <2>1, <2>2, <2>3, NextIsGood
  <1> QED BY <1>1, <1>3, <1>4 DEF loadSound

LEMMA LoadMusicStep ==
  ASSUME SoundInv, NEW file \in Files, loadBackgroundMusic(file)
  PROVE  SoundInv'
  <1> USE DEF SoundInv
  <1>0. UNCHANGED <<mISoundSources, components, mSound, closed>> BY DEF loadBackgroundMusic
  <1>1. PICK D : D = MusicDropped OBVIOUS
  <1>2. /\ D \in [Sounds -> ISound \cup {Freed}]
        /\ \A x \in Sounds : Good(D[x], HeldByOne(x))
    BY <1>1, MusicGood
  <1>3. ASSUME NEW s \in Sounds, D[s] = Freed, mBackgroundMusic' = s,
               sound' = [D EXCEPT ![s] = Started(TRUE, TRUE)]
        PROVE  SoundInv'
    <2>1. Started(TRUE, TRUE) \in ISound /\ Good(Started(TRUE, TRUE), TRUE) BY StartedIsGood
    <2>2. ~HeldByOne(s) BY <1>2, <1>3 DEF Good
    <2>3. TypeOK' BY <1>0, <1>2, <1>3, <2>1 DEF TypeOK
    <2>4. ASSUME NEW x \in Sounds PROVE Good(sound'[x], Held(x)')
      <3>1. CASE x = s
        <4>1. Good(sound'[x], TRUE) BY <1>2, <1>3, <2>1, <3>1
        <4>2. Held(x)' BY <1>3, <3>1 DEF Held
        <4> QED BY <4>1, <4>2 DEF Good, One
      <3>2. CASE x # s
        <4>1. Good(sound'[x], HeldByOne(x)) BY <1>2, <1>3, <3>2
        <4>2. Held(x)' <=> HeldByOne(x) BY <1>0, <1>3, <3>2 DEF Held, HeldByOne
        <4> QED BY <4>1, <4>2 DEF Good, One
      <3> QED BY <3>1, <3>2
    <2>5. SoundsNotShared' BY <1>0, <1>3, <2>2 DEF SoundsNotShared, HeldByOne
    <2> QED BY <2>3, <2>4, <2>5, NextIsGood
  <1>4. ASSUME sound' = D, mBackgroundMusic' = NULL
        PROVE  SoundInv'
    <2>1. TypeOK' BY <1>0, <1>2, <1>4 DEF TypeOK
    <2>2. ASSUME NEW x \in Sounds PROVE Good(sound'[x], Held(x)')
      <3>1. Held(x)' <=> HeldByOne(x) BY <1>0, <1>4, SoundAssumption DEF Held, HeldByOne
      <3>2. Good(sound'[x], HeldByOne(x)) BY <1>2, <1>4
      <3> QED BY <3>1, <3>2 DEF Good, One
    <2>3. SoundsNotShared' BY <1>0, <1>4 DEF SoundsNotShared
    <2> QED BY <2>1, <2>2, <2>3, NextIsGood
  <1> QED BY <1>1, <1>3, <1>4 DEF loadBackgroundMusic

LEMMA StopMusicStep ==
  ASSUME SoundInv, stopBackgroundMusic
  PROVE  SoundInv'
  <1> USE DEF SoundInv, stopBackgroundMusic, NoMusic
  <1>1. /\ sound' \in [Sounds -> ISound \cup {Freed}]
        /\ \A x \in Sounds : Good(sound'[x], HeldByOne(x))
    BY MusicGood
  <1>2. TypeOK' BY <1>1 DEF TypeOK
  <1>3. ASSUME NEW x \in Sounds PROVE Good(sound'[x], Held(x)')
    <2>1. Held(x)' <=> HeldByOne(x) BY SoundAssumption DEF Held, HeldByOne
    <2> QED BY <1>1, <2>1 DEF Good, One
  <1>4. SoundsNotShared' BY DEF SoundsNotShared
  <1> QED BY <1>2, <1>3, <1>4, NextIsGood

LEMMA PauseStep ==
  ASSUME SoundInv, toggleBackgroundMusicPause
  PROVE  SoundInv'
  <1> USE DEF SoundInv
  <1> DEFINE t == mBackgroundMusic
  <1>1. /\ t \in Sounds /\ sound' = [sound EXCEPT ![t] = pause(sound[t])]
        /\ UNCHANGED <<mISoundSources, components, mSound, mBackgroundMusic, closed>>
    BY DEF toggleBackgroundMusicPause, TypeOK
  <1>2. \A x \in Sounds : Good(sound[x], Held(x)) BY AddUpIsGood
  <1>3. Good(sound[t], TRUE) BY <1>1, <1>2, Zenon DEF Held, Good
  <1>4. sound[t] \in ISound BY <1>1, <1>3 DEF TypeOK, Good
  <1>5. pause(sound[t]) \in ISound /\ Good(pause(sound[t]), TRUE) BY <1>3, <1>4, PauseKeeps
  <1>6. TypeOK' BY <1>1, <1>5 DEF TypeOK
  <1>7. ASSUME NEW x \in Sounds PROVE Good(sound'[x], Held(x)')
    <2>1. Held(x)' <=> Held(x) BY <1>1 DEF Held, HeldByOne
    <2>2. CASE x = t
      <3>1. Good(sound'[x], TRUE) BY <1>1, <1>5, <2>2 DEF TypeOK
      <3>2. Held(x)' BY <2>1, <2>2 DEF Held
      <3> QED BY <3>1, <3>2 DEF Good, One
    <2>3. CASE x # t
      <3>1. Good(sound'[x], Held(x)) BY <1>1, <1>2, <2>3 DEF TypeOK
      <3> QED BY <3>1, <2>1 DEF Good, One
    <2> QED BY <2>2, <2>3
  <1>8. SoundsNotShared' BY <1>1 DEF SoundsNotShared
  <1> QED BY <1>6, <1>7, <1>8, NextIsGood

LEMMA ShutDownStep ==
  ASSUME SoundInv, shutDown
  PROVE  SoundInv'
  <1> USE DEF SoundInv, shutDown
  <1>1. TypeOK' BY DEF TypeOK
  <1>2. ASSUME NEW x \in Sounds PROVE Good(sound'[x], Held(x)')
    BY SoundAssumption DEF Good, Held, HeldByOne
  <1>3. SoundsNotShared' BY DEF SoundsNotShared
  <1> QED BY <1>1, <1>2, <1>3, NextIsGood

LEMMA EndStep ==
  ASSUME SoundInv, NEW t \in Sounds, soundEnds(t)
  PROVE  SoundInv'
  <1> USE DEF SoundInv
  <1> DEFINE e == [sound[t] EXCEPT !.state = "ended"]
  <1>1. /\ sound[t] # Freed /\ sound[t].state # "ended"
        /\ sound' = [sound EXCEPT ![t] = GiveBack(e)]
        /\ UNCHANGED <<mISoundSources, components, mSound, mBackgroundMusic, closed>>
    BY DEF soundEnds, Alive
  <1>2. \A x \in Sounds : Good(sound[x], Held(x)) BY AddUpIsGood
  <1>3. sound[t] \in ISound BY <1>1 DEF TypeOK
  <1>4. PICK h \in BOOLEAN : h <=> Held(t) OBVIOUS
  <1>5. Good(sound[t], h) BY <1>2, <1>4 DEF Good, One
  <1>6. GiveBack(e) \in ISound \cup {Freed} /\ Good(GiveBack(e), h)
    BY <1>1, <1>3, <1>5, EndLeaves
  <1> HIDE DEF e
  <1>7. TypeOK' BY <1>1, <1>6 DEF TypeOK
  <1>8. ASSUME NEW x \in Sounds PROVE Good(sound'[x], Held(x)')
    <2>1. Held(x)' <=> Held(x) BY <1>1 DEF Held, HeldByOne
    <2>2. CASE x = t
      <3>1. Good(sound'[x], h) BY <1>1, <1>6, <2>2 DEF TypeOK
      <3>2. Held(x)' <=> h BY <1>4, <2>1, <2>2
      <3> QED BY <3>1, <3>2 DEF Good, One
    <2>3. CASE x # t
      <3>1. Good(sound'[x], Held(x)) BY <1>1, <1>2, <2>3 DEF TypeOK
      <3> QED BY <3>1, <2>1 DEF Good, One
    <2> QED BY <2>2, <2>3
  <1>9. SoundsNotShared' BY <1>1 DEF SoundsNotShared
  <1> QED BY <1>7, <1>8, <1>9, NextIsGood

LEMMA StutterStep ==
  ASSUME SoundInv, UNCHANGED vars
  PROVE  SoundInv'
  BY DEF SoundInv, TypeOK, ReferencesAddUp, Alive, Held, HeldByOne, SoundsNotShared, vars

LEMMA Step == SoundInv /\ [Next]_vars => SoundInv'
  <1> SUFFICES ASSUME SoundInv, [Next]_vars PROVE SoundInv' OBVIOUS
  <1>1. ASSUME NEW c \in Comps, createSoundComponent(c) PROVE SoundInv' BY <1>1, CreateStep
  <1>2. ASSUME NEW c \in Comps, deleteComponent(c) PROVE SoundInv' BY <1>2, DeleteStep
  <1>3. ASSUME NEW c \in Comps, NEW file \in Files, NEW looped \in BOOLEAN,
               loadSound(c, file, looped)
        PROVE  SoundInv'
    BY <1>3, LoadStep
  <1>4. ASSUME NEW file \in Files, loadBackgroundMusic(file) PROVE SoundInv' BY <1>4, LoadMusicStep
  <1>5. CASE stopBackgroundMusic BY <1>5, StopMusicStep
  <1>6. CASE toggleBackgroundMusicPause BY <1>6, PauseStep
  <1>7. CASE shutDown BY <1>7, ShutDownStep
  <1>8. ASSUME NEW s \in Sounds, soundEnds(s) PROVE SoundInv' BY <1>8, EndStep
  <1>9. CASE UNCHANGED vars BY <1>9, StutterStep
  <1> QED BY <1>1, <1>2, <1>3, <1>4, <1>5, <1>6, <1>7, <1>8, <1>9 DEF Next, Application, Engine

-----------------------------------------------------------------------------
(***************************************************************************)
(* The theorems.                                                           *)
(***************************************************************************)
LEMMA Inductive == Spec => []SoundInv
  BY Initially, Step, PTL DEF Spec

\* Every pointer is to a sound or NULL, and every sound has one or two references.
THEOREM SoundTypeOK == Spec => []TypeOK
  <1>1. SoundInv => TypeOK BY DEF SoundInv
  <1> QED BY <1>1, Inductive, PTL

\* A sound's references are the engine's, until it ended, and its holder's: what
\* loadSound, loadBackgroundMusic, the drops and irrKlang's thread do in any
\* order frees no sound that is pointed to and keeps none that nobody needs.
THEOREM SoundReferencesAddUp == Spec => []ReferencesAddUp
  <1>1. SoundInv => ReferencesAddUp BY DEF SoundInv
  <1> QED BY <1>1, Inductive, PTL

\* No component holds the music, and no two hold the same sound: an address that
\* irrKlang uses again belongs to the one who got it last.
THEOREM SoundSoundsNotShared == Spec => []SoundsNotShared
  <1>1. SoundInv => SoundsNotShared BY DEF SoundInv
  <1> QED BY <1>1, Inductive, PTL

LEMMA StopSilences ==
  ASSUME NEW r \in ISound
  PROVE  GiveBack(stop(r)) = Freed \/ GiveBack(stop(r)).state # "playing"
  <1>1. stop(r).state # "playing" BY FreedIsNoSound DEF stop, ISound
  <1>2. stop(r) \in ISound BY FreedIsNoSound DEF stop, ISound
  <1>3. GiveBack(stop(r)) = Freed \/ GiveBack(stop(r)) = [stop(r) EXCEPT !.refs = @ - 1]
    BY Zenon DEF GiveBack
  <1>4. [stop(r) EXCEPT !.refs = @ - 1].state = stop(r).state BY <1>2 DEF ISound
  <1> QED BY <1>1, <1>3, <1>4

\* Whoever deletes a component, alone or with the application, silences its
\* sound: ~SoundComponent stops the sound before it drops it, and the references
\* say that it is not yet freed.
THEOREM SoundDeadComponentsFallSilent == Spec => DeadComponentsFallSilent
  <1> DEFINE Silent == \A c \in components \ components' :
                          mSound[c] # NULL => \/ sound'[mSound[c]] = Freed
                                              \/ sound'[mSound[c]].state # "playing"
  <1>1. ASSUME SoundInv, [Next]_vars PROVE [Silent]_vars
    <2> SUFFICES ASSUME NEW c \in components \ components', mSound[c] # NULL
                 PROVE  \/ sound'[mSound[c]] = Freed
                        \/ sound'[mSound[c]].state # "playing"
      OBVIOUS
    <2>1. mSound[c] \in Sounds /\ sound[mSound[c]] \in ISound BY <1>1, HeldByItAlone
    <2>2. CASE deleteComponent(c)
      <3>1. sound' = [sound EXCEPT ![mSound[c]] = GiveBack(stop(sound[mSound[c]]))]
        BY <2>2, Zenon DEF deleteComponent, Silenced, stopAndDrop
      <3>2. sound'[mSound[c]] = GiveBack(stop(sound[mSound[c]]))
        BY <1>1, <2>1, <3>1 DEF SoundInv, TypeOK
      <3> QED BY <2>1, <3>2, StopSilences
    <2>3. CASE shutDown BY <2>1, <2>3 DEF shutDown
    <2>4. deleteComponent(c) \/ shutDown
      BY <1>1 DEF Next, Application, Engine, vars, createSoundComponent, deleteComponent,
         loadSound, loadBackgroundMusic, stopBackgroundMusic, toggleBackgroundMusicPause, soundEnds
    <2> QED BY <2>2, <2>3, <2>4
  <1>2. []SoundInv /\ [][Next]_vars => [][Silent]_vars
    BY <1>1, PTL
  <1> QED BY <1>2, Inductive, PTL DEF Spec, DeadComponentsFallSilent

-----------------------------------------------------------------------------
(***************************************************************************)
(* A sound that nobody holds.                                              *)
(***************************************************************************)
Lone(s) == s \in Alive /\ ~Held(s)
LoneOrFreed(s) == sound'[s] = Freed \/ (sound'[s] = sound[s] /\ ~Held(s)')

\* Giving a sound back changes no sound but the one that was held.
LEMMA OthersUntouched ==
  ASSUME SoundInv, NEW x \in Sounds, ~Held(x)
  PROVE  /\ \A c \in components : DroppedOld(c)[x] = sound[x] /\ Silenced(c)[x] = sound[x]
         /\ MusicDropped[x] = sound[x]
         /\ mBackgroundMusic # NULL => stopAndDrop(sound, mBackgroundMusic)[x] = sound[x]
  <1>1. \A c \in components : mSound[c] # x BY DEF Held, HeldByOne
  <1>2. mBackgroundMusic # x BY DEF Held
  <1>3. sound \in [Sounds -> ISound \cup {Freed}] BY DEF SoundInv, TypeOK
  <1>4. ASSUME NEW c \in components PROVE DroppedOld(c)[x] = sound[x] /\ Silenced(c)[x] = sound[x]
    BY <1>1, <1>3 DEF DroppedOld, Silenced, drop, stopAndDrop
  <1> QED BY <1>2, <1>3, <1>4 DEF MusicDropped, drop, stopAndDrop

LEMMA LoneStep ==
  ASSUME SoundInv, [Next]_vars, NEW x \in Sounds, Lone(x)
  PROVE  LoneOrFreed(x)
  <1> USE DEF LoneOrFreed
  <1>1. sound[x] # Freed /\ ~Held(x) BY DEF Lone, Alive
  <1>2. sound \in [Sounds -> ISound \cup {Freed}] /\ mSound \in [Comps -> Sounds \cup {NULL}]
    BY DEF SoundInv, TypeOK
  <1>3. x # NULL BY SoundAssumption
  <1>4. mBackgroundMusic # x /\ \A c \in components : mSound[c] # x
    BY <1>1 DEF Held, HeldByOne
  <1>5. ASSUME sound'[x] = sound[x], mBackgroundMusic' # x,
               \A c \in components' : mSound'[c] # x
        PROVE  LoneOrFreed(x)
    BY <1>5 DEF Held, HeldByOne
  <1>6. ASSUME NEW c \in Comps, createSoundComponent(c) PROVE LoneOrFreed(x)
    <2>1. \A d \in components' : mSound'[d] # x
      BY <1>2, <1>3, <1>4, <1>6 DEF createSoundComponent, SoundInv, TypeOK
    <2> QED BY <2>1, <1>4, <1>5, <1>6 DEF createSoundComponent
  <1>7. ASSUME NEW c \in Comps, deleteComponent(c) PROVE LoneOrFreed(x)
    <2>1. sound'[x] = sound[x] BY <1>1, <1>7, OthersUntouched DEF deleteComponent
    <2>2. \A d \in components' : mSound'[d] # x
      BY <1>2, <1>3, <1>4, <1>7 DEF deleteComponent, SoundInv, TypeOK
    <2> QED BY <2>1, <2>2, <1>4, <1>5, <1>7 DEF deleteComponent
  <1>8. ASSUME NEW c \in Comps, NEW file \in Files, NEW looped \in BOOLEAN,
               loadSound(c, file, looped)
        PROVE  LoneOrFreed(x)
    <2>1. c \in components /\ components' = components /\ mBackgroundMusic' = mBackgroundMusic
      BY <1>8 DEF loadSound
    <2>2. PICK D : D = DroppedOld(c) OBVIOUS
    <2>3. D[x] = sound[x] BY <1>1, <2>1, <2>2, OthersUntouched
    <2>4. D \in [Sounds -> ISound \cup {Freed}] BY <2>1, <2>2, DroppedGood
    <2>5. PICK s \in Sounds \cup {NULL} :
            /\ mSound' = [mSound EXCEPT ![c] = s] /\ s # x
            /\ sound'[x] = sound[x]
      <3>1. CASE \E s \in Sounds : /\ D[s] = Freed
                                   /\ sound' = [D EXCEPT ![s] = Started(looped, FALSE)]
                                   /\ mSound' = [mSound EXCEPT ![c] = s]
        BY <3>1, <1>1, <2>3, <2>4
      <3>2. CASE sound' = D /\ mSound' = [mSound EXCEPT ![c] = NULL] BY <3>2, <1>3, <2>3
      <3> QED BY <3>1, <3>2, <1>8, <2>2 DEF loadSound
    <2>6. \A d \in components' : mSound'[d] # x
      BY <1>2, <1>4, <2>1, <2>5 DEF SoundInv, TypeOK
    <2> QED BY <2>1, <2>5, <2>6, <1>4, <1>5
  <1>9. ASSUME NEW file \in Files, loadBackgroundMusic(file) PROVE LoneOrFreed(x)
    <2>1. components' = components /\ mSound' = mSound BY <1>9 DEF loadBackgroundMusic
    <2>2. PICK D : D = MusicDropped OBVIOUS
    <2>3. D[x] = sound[x] BY <1>1, <2>2, OthersUntouched
    <2>4. D \in [Sounds -> ISound \cup {Freed}] BY <2>2, MusicGood
    <2>5. CASE \E s \in Sounds : /\ D[s] = Freed
                                 /\ sound' = [D EXCEPT ![s] = Started(TRUE, TRUE)]
                                 /\ mBackgroundMusic' = s
      <3>1. sound'[x] = sound[x] /\ mBackgroundMusic' # x BY <2>5, <1>1, <2>3, <2>4
      <3> QED BY <3>1, <2>1, <1>4, <1>5
    <2>6. CASE sound' = D /\ mBackgroundMusic' = NULL BY <2>6, <2>1, <2>3, <1>3, <1>4, <1>5
    <2> QED BY <2>5, <2>6, <1>9, <2>2 DEF loadBackgroundMusic
  <1>10. CASE stopBackgroundMusic
    <2>1. sound'[x] = sound[x] BY <1>1, <1>10, OthersUntouched DEF stopBackgroundMusic
    <2> QED BY <2>1, <1>3, <1>4, <1>5, <1>10 DEF stopBackgroundMusic, NoMusic
  <1>11. CASE toggleBackgroundMusicPause
    BY <1>2, <1>4, <1>5, <1>11 DEF toggleBackgroundMusicPause
  <1>12. CASE shutDown BY <1>12 DEF shutDown
  <1>13. ASSUME NEW t \in Sounds, soundEnds(t) PROVE LoneOrFreed(x)
    <2> DEFINE e == [sound[t] EXCEPT !.state = "ended"]
    <2>1. /\ sound[t] # Freed /\ sound[t].state # "ended" /\ sound' = [sound EXCEPT ![t] = GiveBack(e)]
          /\ UNCHANGED <<components, mSound, mBackgroundMusic>>
      BY <1>13 DEF soundEnds, Alive
    <2>2. CASE t = x
      <3>1. sound[x] \in ISound BY <1>1, <1>2
      <3>2. sound[x].refs = 1
        BY <1>1, <2>1, <2>2 DEF SoundInv, ReferencesAddUp, Alive, One
      <3>3. e.refs = 1 BY <2>2, <3>1, <3>2 DEF ISound
      <3> HIDE DEF e
      <3> QED BY <1>2, <2>1, <2>2, <3>3 DEF GiveBack
    <2>3. CASE t # x
      <3> HIDE DEF e
      <3> QED BY <2>1, <2>3, <1>2, <1>4, <1>5
    <2> QED BY <2>2, <2>3
  <1>14. CASE UNCHANGED vars BY <1>4, <1>5, <1>14 DEF vars
  <1> QED
    BY <1>6, <1>7, <1>8, <1>9, <1>10, <1>11, <1>12, <1>13, <1>14 DEF Next, Application, Engine

\* Nothing reaches a sound that nobody holds: no call stops it, pauses it, plays
\* it on or makes a pointer to it, and the first ending of irrKlang's thread
\* frees it. That is why such a sound ends at all, unless it loops or is paused:
\* the wait for its ending can be neither put off nor begin again.
THEOREM SoundLoneOnesOnlyEnd ==
  Spec => [][\A s \in Sounds : Lone(s) => LoneOrFreed(s)]_vars
  <1>1. ASSUME SoundInv, [Next]_vars
        PROVE  [\A s \in Sounds : Lone(s) => LoneOrFreed(s)]_vars
    BY <1>1, LoneStep
  <1>2. []SoundInv /\ [][Next]_vars => [][\A s \in Sounds : Lone(s) => LoneOrFreed(s)]_vars
    BY <1>1, PTL
  <1> QED BY <1>2, Inductive, PTL DEF Spec

-----------------------------------------------------------------------------
(***************************************************************************)
(* What the operators return.                                              *)
(***************************************************************************)
\* A looped animation wraps into its length, also backwards.
LEMMA WrappedBound ==
    ASSUME NEW n \in Anims, NEW t \in Int
    PROVE  Wrapped(n, t) \in Nat /\ Wrapped(n, t) < Length[n]
<1>1. Length[n] \in Nat /\ Length[n] > 0
  BY AnimationAssumption
<1> DEFINE l == Length[n]
<1>2. t % l \in 0 .. l - 1
  <2> HIDE DEF l
  <2> QED BY <1>1 DEF l
<1> QED BY <1>1, <1>2 DEF Wrapped

\* A short one stays inside.
LEMMA EndHeldBound ==
    ASSUME AnimationTypeOK, NEW n \in Anims, NEW t \in Int
    PROVE  EndHeld(n, t) \in Nat /\ EndHeld(n, t) < Length[n]
<1>1. Length[n] \in Nat /\ Length[n] > 0
  BY AnimationAssumption
<1>2. anim[n].time \in Nat /\ anim[n].time < Length[n]
  BY DEF AnimationTypeOK, AnimationState
<1>3. CASE t >= Length[n] \/ t <= 0
  BY <1>2, <1>3 DEF EndHeld
<1>4. CASE ~(t >= Length[n] \/ t <= 0)
  BY <1>1, <1>4 DEF EndHeld
<1> QED BY <1>3, <1>4

\* A frame moves the time of one animation and changes nothing else.
LEMMA MovedType ==
    ASSUME AnimationTypeOK, NEW n \in Anims, NEW dT \in 1 .. MaxStep
    PROVE  /\ Moved(n, dT) \in [Anims -> AnimationState]
           /\ \A m \in Anims : /\ Moved(n, dT)[m].time < Length[m]
                               /\ Moved(n, dT)[m].enabled = anim[m].enabled
                               /\ Moved(n, dT)[m].loop = anim[m].loop
                               /\ Moved(n, dT)[m].weight = anim[m].weight
<1> DEFINE t == anim[n].time + (IF mPlayAnimationForward THEN dT ELSE -dT)
           new == IF anim[n].loop THEN Wrapped(n, t) ELSE EndHeld(n, t)
           r == [anim[n] EXCEPT !.time = new]
<1>1. anim[n] \in AnimationState
  BY DEF AnimationTypeOK
<1>2. t \in Int
  BY <1>1, AnimationAssumption DEF AnimationState
<1>3. new \in Nat /\ new < Length[n]
  <2> HIDE DEF t
  <2> QED BY <1>2, WrappedBound, EndHeldBound
<1>4. Moved(n, dT) = [anim EXCEPT ![n] = r]
  BY DEF Moved
<1> HIDE DEF new
<1>5. r \in AnimationState /\ r.time = new
      /\ r.enabled = anim[n].enabled /\ r.loop = anim[n].loop /\ r.weight = anim[n].weight
  BY <1>1, <1>3 DEF AnimationState
<1> HIDE DEF r
<1>6. Moved(n, dT) \in [Anims -> AnimationState]
  BY <1>4, <1>5 DEF AnimationTypeOK
<1>7. Moved(n, dT)[n] = r /\ \A m \in Anims : m # n => Moved(n, dT)[m] = anim[m]
  BY <1>4, <1>6 DEF AnimationTypeOK
<1>8. \A m \in Anims : m # n => Moved(n, dT)[m].time < Length[m]
  BY <1>7 DEF AnimationTypeOK
<1> QED BY <1>3, <1>5, <1>6, <1>7, <1>8

\* Giving an animation another record.
LEMMA Replaced ==
    ASSUME NEW f \in [Anims -> AnimationState], NEW n \in Anims, NEW r \in AnimationState
    PROVE  /\ [f EXCEPT ![n] = r] \in [Anims -> AnimationState]
           /\ [f EXCEPT ![n] = r][n] = r
           /\ \A m \in Anims : m # n => [f EXCEPT ![n] = r][m] = f[m]
OBVIOUS

\* Showing the next animation: weights and flags only.
LEMMA NextShownType ==
    ASSUME AnimationTypeOK, mCurrentAnimation \in Anims, NEW f \in [Anims -> AnimationState]
    PROVE  /\ NextShown(f) \in [Anims -> AnimationState]
           /\ \A m \in Anims : NextShown(f)[m].time = f[m].time /\ NextShown(f)[m].loop = f[m].loop
           /\ \A m \in Anims : f[m].enabled => NextShown(f)[m].enabled
           /\ IF mNextAnimation # NoAnimation /\ anim[mCurrentAnimation].loop
              THEN NextShown(f)[mNextAnimation].enabled /\ NextShown(f)[mNextAnimation].weight = 1
              ELSE NextShown(f) = f
<1> DEFINE c == mCurrentAnimation
           n == mNextAnimation
           rc == [f[c] EXCEPT !.weight = 0]
           g == [f EXCEPT ![c] = rc]
           re == [g[n] EXCEPT !.enabled = TRUE]
           rn == [re EXCEPT !.weight = 1]
<1>1. CASE mNextAnimation # NoAnimation /\ anim[mCurrentAnimation].loop
  <2>0. n \in Anims
    BY <1>1 DEF AnimationTypeOK
  <2>1. NextShown(f) = [g EXCEPT ![n] = rn]
    BY <1>1 DEF NextShown
  <2>2. rc \in AnimationState /\ rc.time = f[c].time /\ rc.loop = f[c].loop /\ rc.enabled = f[c].enabled
    BY DEF AnimationState
  <2> HIDE DEF rc
  <2>3. g \in [Anims -> AnimationState] /\ g[c] = rc /\ \A m \in Anims : m # c => g[m] = f[m]
    BY <2>2, Replaced
  <2> HIDE DEF g
  <2>4. rn \in AnimationState /\ rn.time = g[n].time /\ rn.loop = g[n].loop /\ rn.enabled /\ rn.weight = 1
    <3>1. g[n] \in AnimationState
      BY <2>0, <2>3
    <3>2. re \in AnimationState /\ re.time = g[n].time /\ re.loop = g[n].loop /\ re.enabled
      BY <3>1 DEF AnimationState
    <3> HIDE DEF re
    <3> QED BY <3>2 DEF AnimationState
  <2> HIDE DEF rn
  <2>5. /\ NextShown(f) \in [Anims -> AnimationState] /\ NextShown(f)[n] = rn
        /\ \A m \in Anims : m # n => NextShown(f)[m] = g[m]
    BY <2>0, <2>1, <2>3, <2>4, Replaced
  <2>6. \A m \in Anims : g[m].time = f[m].time /\ g[m].loop = f[m].loop /\ g[m].enabled = f[m].enabled
    BY <2>2, <2>3
  <2> QED BY <1>1, <2>4, <2>5, <2>6
<1>2. CASE ~(mNextAnimation # NoAnimation /\ anim[mCurrentAnimation].loop)
  BY <1>2 DEF NextShown
<1> QED BY <1>1, <1>2

-----------------------------------------------------------------------------
(***************************************************************************)
(* The invariant.  The current animation is enabled, and it has its weight *)
(* unless a next one shows in its place; that is so only because nobody    *)
(* queues the current one.                                                 *)
(***************************************************************************)
CurrentShows ==
    mCurrentAnimation # NoAnimation =>
        /\ anim[mCurrentAnimation].enabled
        /\ mNextAnimation # mCurrentAnimation
        /\ \/ anim[mCurrentAnimation].weight = 1
           \/ mNextAnimation # NoAnimation /\ anim[mCurrentAnimation].loop

Fresh ==
    mCurrentAnimation = NoAnimation => mNextAnimation = NoAnimation /\ \A n \in Anims : anim[n].weight = 1

AnimationInv == AnimationTypeOK /\ ("different" \in Contract => CurrentShows /\ Fresh)

LEMMA InitEstablishesInvariant ==
    ASSUME AnimationInit
    PROVE  AnimationInv
<1>1. NewState \in AnimationState
  BY DEF NewState, AnimationState
<1>2. AnimationTypeOK
  <2>1. NewState.time = 0 /\ \A n \in Anims : 0 < Length[n]
    BY AnimationAssumption DEF NewState
  <2>2. \A n \in Anims : anim[n] = NewState
    BY DEF AnimationInit
  <2>3. \A n \in Anims : anim[n].time < Length[n]
    BY <2>1, <2>2
  <2> QED BY <1>1, <2>3 DEF AnimationInit, AnimationTypeOK
<1>3. CurrentShows /\ Fresh
  BY AnimationAssumption DEF AnimationInit, CurrentShows, Fresh, NewState
<1> QED BY <1>2, <1>3 DEF AnimationInv

\* queueAnimation, the first time.
LEMMA QueueFirstKeepsInvariant ==
    ASSUME AnimationInv, NEW n \in Anims \cup Missing, NEW looped \in BOOLEAN, queueFirst(n, looped)
    PROVE  AnimationInv'
<1>0. AnimationTypeOK
  BY DEF AnimationInv
<1>1. CASE mEntity /\ n \in Anims
  <2> DEFINE re == [anim[n] EXCEPT !.enabled = TRUE]
             r == [re EXCEPT !.loop = looped]
  <2>0. n \notin Missing
    BY <1>1, AnimationAssumption
  <2>1. /\ anim' = [anim EXCEPT ![n] = r] /\ mCurrentAnimation' = n
        /\ UNCHANGED <<status, mEntity, mNextAnimation, mPlayAnimationForward, mD_device>>
        /\ mCurrentAnimation = NoAnimation
    BY <1>1, <2>0 DEF queueFirst
  <2>2. anim[n] \in AnimationState
    BY <1>0, <1>1 DEF AnimationTypeOK
  <2>3. re \in AnimationState /\ re.time = anim[n].time /\ re.weight = anim[n].weight /\ re.enabled
    BY <2>2 DEF AnimationState
  <2> HIDE DEF re
  <2>4. r \in AnimationState /\ r.time = anim[n].time /\ r.weight = anim[n].weight /\ r.enabled
    BY <2>3 DEF AnimationState
  <2> HIDE DEF r
  <2>5. /\ anim' \in [Anims -> AnimationState] /\ anim'[n] = r
        /\ \A m \in Anims : m # n => anim'[m] = anim[m]
    BY <1>0, <1>1, <2>1, <2>4, Replaced DEF AnimationTypeOK
  <2>6. \A m \in Anims : anim'[m].time < Length[m]
    BY <1>0, <2>4, <2>5 DEF AnimationTypeOK
  <2>7. AnimationTypeOK'
    BY <1>0, <1>1, <2>1, <2>5, <2>6 DEF AnimationTypeOK
  <2>8. "different" \in Contract => CurrentShows' /\ Fresh'
    BY <1>1, <2>1, <2>4, <2>5, AnimationAssumption DEF AnimationInv, CurrentShows, Fresh
  <2> QED BY <2>7, <2>8 DEF AnimationInv
<1>2. CASE ~(mEntity /\ n \in Anims)
  <2>1. /\ UNCHANGED <<anim, mEntity, mCurrentAnimation, mNextAnimation, mPlayAnimationForward, mD_device>>
        /\ status' \in {"exception", "undefined"}
    <3>1. CASE ~mEntity
      BY <3>1 DEF queueFirst
    <3>2. CASE mEntity
      BY <1>2, <3>2 DEF queueFirst
    <3> QED BY <1>0, <3>1, <3>2 DEF AnimationTypeOK
  <2> QED BY <1>0, <2>1 DEF AnimationInv, AnimationTypeOK, CurrentShows, Fresh
<1> QED BY <1>1, <1>2

\* queueAnimation, later.
LEMMA QueueNextKeepsInvariant ==
    ASSUME AnimationInv, NEW n \in Anims \cup Missing, NEW looped \in BOOLEAN, NEW forward \in BOOLEAN,
           queueNext(n, looped, forward)
    PROVE  AnimationInv'
<1> DEFINE rl == [anim[n] EXCEPT !.loop = looped]
           rw == [rl EXCEPT !.weight = 0]
           r == [rw EXCEPT !.time = 0]
<1>0. AnimationTypeOK /\ n \in Anims
  BY DEF AnimationInv, queueNext
<1>1. /\ anim' = [anim EXCEPT ![n] = r] /\ mNextAnimation' = n /\ mPlayAnimationForward' = forward
      /\ UNCHANGED <<status, mEntity, mCurrentAnimation, mD_device>>
      /\ mCurrentAnimation # NoAnimation /\ ("different" \in Contract => n # mCurrentAnimation)
  BY DEF queueNext
<1>2. anim[n] \in AnimationState
  BY <1>0 DEF AnimationTypeOK
<1>3. rl \in AnimationState
  BY <1>2 DEF AnimationState
<1> HIDE DEF rl
<1>4. rw \in AnimationState
  BY <1>3 DEF AnimationState
<1> HIDE DEF rw
<1>5. r \in AnimationState /\ r.time = 0
  BY <1>4 DEF AnimationState
<1> HIDE DEF r
<1>6. /\ anim' \in [Anims -> AnimationState] /\ anim'[n] = r
      /\ \A m \in Anims : m # n => anim'[m] = anim[m]
  BY <1>0, <1>1, <1>5, Replaced DEF AnimationTypeOK
<1>7. ASSUME NEW m \in Anims
      PROVE  anim'[m].time < Length[m]
  <2>1. Length[n] \in Nat /\ 0 < Length[n]
    BY <1>0, AnimationAssumption
  <2>2. CASE m = n
    BY <1>5, <1>6, <2>1, <2>2
  <2>3. CASE m # n
    <3>1. anim'[m] = anim[m]
      BY <1>6, <2>3
    <3> QED BY <1>0, <3>1 DEF AnimationTypeOK
  <2> QED BY <2>2, <2>3
<1>8. AnimationTypeOK'
  BY <1>0, <1>1, <1>6, <1>7 DEF AnimationTypeOK
<1>9. "different" \in Contract => CurrentShows' /\ Fresh'
  BY <1>0, <1>1, <1>6, AnimationAssumption DEF AnimationInv, AnimationTypeOK, CurrentShows, Fresh
<1> QED BY <1>8, <1>9 DEF AnimationInv

\* An update that animates: what it makes of the invariant, and that it shows
\* something.
LEMMA UpdateShows ==
    ASSUME AnimationInv, update, mCurrentAnimation # NoAnimation
    PROVE  AnimationInv' /\ ("different" \in Contract => (\E n \in Anims : Shows(n))')
<1> DEFINE c == mCurrentAnimation
<1>0. AnimationTypeOK /\ c \in Anims
  BY DEF AnimationInv, AnimationTypeOK
<1>1. PICK dT \in 1 .. MaxStep : anim' = NextShown(Moved(c, dT))
  BY DEF update
<1>2. UNCHANGED <<mEntity, mCurrentAnimation, mNextAnimation, mPlayAnimationForward, mD_device, status>>
  BY DEF update
<1> DEFINE f == Moved(c, dT)
<1>3. /\ f \in [Anims -> AnimationState]
      /\ \A m \in Anims : /\ f[m].time < Length[m] /\ f[m].enabled = anim[m].enabled
                          /\ f[m].loop = anim[m].loop /\ f[m].weight = anim[m].weight
  BY <1>0, MovedType
<1> HIDE DEF f
<1>4. /\ anim' \in [Anims -> AnimationState]
      /\ \A m \in Anims : anim'[m].time = f[m].time /\ anim'[m].loop = f[m].loop
      /\ \A m \in Anims : f[m].enabled => anim'[m].enabled
      /\ IF mNextAnimation # NoAnimation /\ anim[c].loop
         THEN anim'[mNextAnimation].enabled /\ anim'[mNextAnimation].weight = 1
         ELSE anim' = f
  BY <1>0, <1>1, <1>3, NextShownType DEF f
<1>5. AnimationTypeOK'
  BY <1>0, <1>2, <1>3, <1>4 DEF AnimationTypeOK
<1>6. ASSUME "different" \in Contract
      PROVE  CurrentShows' /\ Fresh' /\ (\E n \in Anims : Shows(n))'
  <2>1. CurrentShows
    BY <1>6 DEF AnimationInv
  <2>2. CurrentShows' /\ Fresh'
    BY <1>0, <1>2, <1>3, <1>4, <2>1 DEF CurrentShows, Fresh
  <2>3. (\E n \in Anims : Shows(n))'
    <3>1. CASE mNextAnimation # NoAnimation /\ anim[c].loop
      <4>1. mNextAnimation \in Anims
        BY <1>0, <3>1 DEF AnimationTypeOK
      <4>2. anim'[mNextAnimation].enabled /\ anim'[mNextAnimation].weight = 1
        BY <1>4, <3>1
      <4> QED BY <4>1, <4>2 DEF Shows
    <3>2. CASE ~(mNextAnimation # NoAnimation /\ anim[c].loop)
      <4>1. anim[c].enabled /\ anim[c].weight = 1
        BY <2>1, <3>2 DEF CurrentShows
      <4>2. anim'[c].enabled = anim[c].enabled /\ anim'[c].weight = anim[c].weight
        BY <1>0, <1>3, <1>4, <3>2
      <4> QED BY <1>0, <4>1, <4>2 DEF Shows
    <3> QED BY <3>1, <3>2
  <2> QED BY <2>2, <2>3
<1> QED BY <1>5, <1>6 DEF AnimationInv

LEMMA NextKeepsInvariant ==
    ASSUME AnimationInv, [AnimationNext]_animationVars
    PROVE  AnimationInv'
<1>1. CASE loadMesh
  BY <1>1 DEF loadMesh, AnimationInv, AnimationTypeOK, CurrentShows, Fresh
<1>2. CASE \E n \in Anims \cup Missing, looped \in BOOLEAN : queueFirst(n, looped)
  BY <1>2, QueueFirstKeepsInvariant
<1>3. CASE \E n \in Anims \cup Missing, looped, forward \in BOOLEAN : queueNext(n, looped, forward)
  <2>1. PICK n \in Anims \cup Missing, looped \in BOOLEAN, forward \in BOOLEAN :
            queueNext(n, looped, forward)
    BY <1>3
  <2> QED BY <2>1, QueueNextKeepsInvariant
<1>4. CASE update /\ mCurrentAnimation # NoAnimation
  BY <1>4, UpdateShows
<1>5. CASE update /\ mCurrentAnimation = NoAnimation
  <2>1. UNCHANGED animationVars
    BY <1>5 DEF update, animationVars
  <2> QED BY <2>1 DEF animationVars, AnimationInv, AnimationTypeOK, CurrentShows, Fresh
<1>6. CASE updateWithoutGhost
  BY <1>6 DEF updateWithoutGhost, AnimationInv, AnimationTypeOK, CurrentShows, Fresh
<1>7. CASE UNCHANGED animationVars
  BY <1>7 DEF animationVars, AnimationInv, AnimationTypeOK, CurrentShows, Fresh
<1> QED BY <1>1, <1>2, <1>3, <1>4, <1>5, <1>6, <1>7 DEF AnimationNext

THEOREM AnimationInvariant == AnimationSpec => []AnimationInv
<1>1. AnimationInit => AnimationInv
  BY InitEstablishesInvariant
<1>2. AnimationInv /\ [AnimationNext]_animationVars => AnimationInv'
  BY NextKeepsInvariant
<1> QED BY <1>1, <1>2, PTL DEF AnimationSpec

\* The variables keep their types, and no animation ever stands at its end,
\* whatever the lengths and the frames.
THEOREM AnimationKeepsTypes == AnimationSpec => []AnimationTypeOK
BY AnimationInvariant, PTL DEF AnimationInv

\* As long as nobody queues the current animation, every update leaves an
\* animated mesh with one that is enabled and has weight.
THEOREM AnimationSomethingShows ==
    ASSUME "different" \in Contract
    PROVE  AnimationSpec => SomethingShows
<1>1. AnimationInv /\ [AnimationNext]_animationVars => [update /\ mCurrentAnimation # NoAnimation => (\E n \in Anims : Shows(n))']_animationVars
  BY UpdateShows
<1> QED BY <1>1, AnimationInvariant, PTL DEF AnimationSpec, SomethingShows

\* The measure of ShortAnimationsFinish: while an animation that is not looped
\* is the current one, nothing takes it back against its direction, and every
\* update brings it on until a step could end it.
Onward ==
    Short /\ Short' =>
        /\ mPlayAnimationForward => Time' >= Time /\ (update /\ ~NearEnd => Time' > Time)
        /\ ~mPlayAnimationForward => Time' <= Time /\ (update /\ Time > MaxStep => Time' < Time)

\* ... which an update of such an animation keeps to,
LEMMA ShortUpdate ==
    ASSUME AnimationInv, update, Short
    PROVE  Onward
<1> DEFINE c == mCurrentAnimation
           len == Length[c]
<1>1. AnimationTypeOK /\ c \in Anims /\ c # NoAnimation /\ ~anim[c].loop
  BY DEF AnimationInv, AnimationTypeOK, Short
<1>2. PICK dT \in 1 .. MaxStep : anim' = NextShown(Moved(c, dT))
  BY <1>1 DEF update
<1> DEFINE t == anim[c].time + (IF mPlayAnimationForward THEN dT ELSE -dT)
           r == [anim[c] EXCEPT !.time = EndHeld(c, t)]
<1>3. anim' = [anim EXCEPT ![c] = r]
  BY <1>1, <1>2 DEF NextShown, Moved
<1>4. anim[c] \in AnimationState /\ anim \in [Anims -> AnimationState]
  BY <1>1 DEF AnimationTypeOK
<1>5. anim'[c].time = EndHeld(c, t)
  <2>1. anim'[c] = r
    BY <1>1, <1>3, <1>4
  <2>2. r.time = EndHeld(c, t)
    BY <1>4 DEF AnimationState
  <2> QED BY <2>1, <2>2
<1>6. Time = anim[c].time /\ Time' = EndHeld(c, t)
  BY <1>1, <1>5 DEF Time, update
<1>7. /\ Time \in Nat /\ Time < len /\ len \in Nat /\ MaxStep \in Nat
      /\ dT \in Int /\ 1 <= dT /\ dT <= MaxStep
  <2>1. anim[c].time \in Nat
    BY <1>1, <1>4 DEF AnimationState
  <2>2. anim[c].time < len
    BY <1>1 DEF AnimationTypeOK
  <2>3. len \in Nat /\ MaxStep \in Nat
    BY <1>1, AnimationAssumption
  <2>4. dT \in Int /\ 1 <= dT /\ dT <= MaxStep
    BY <2>3
  <2> HIDE DEF len, c
  <2> QED BY <1>6, <2>1, <2>2, <2>3, <2>4
<1>8. EndHeld(c, t) = IF t >= len \/ t <= 0 THEN Time ELSE t
  BY <1>6 DEF EndHeld
<1>9. t = IF mPlayAnimationForward THEN Time + dT ELSE Time - dT
  BY <1>6, <1>7
<1>10. NearEnd <=> Time + MaxStep >= len
  BY <1>1 DEF NearEnd
<1> HIDE DEF len, t, c
<1>11. CASE mPlayAnimationForward
  BY <1>6, <1>7, <1>8, <1>9, <1>10, <1>11 DEF Onward
<1>12. CASE ~mPlayAnimationForward
  BY <1>6, <1>7, <1>8, <1>9, <1>12 DEF Onward
<1> QED BY <1>11, <1>12

\* Every update brings a short animation that is under way closer to its end, as
\* long as a step could not reach it, and nothing takes it back, as long as nobody
\* queues the current animation: the measure of ShortAnimationsFinish.
THEOREM AnimationPlaysOn ==
    ASSUME "different" \in Contract
    PROVE  AnimationSpec => [][Onward]_animationVars
<1>1. AnimationInv /\ [AnimationNext]_animationVars => [Onward]_animationVars
  <2> SUFFICES ASSUME AnimationInv, AnimationNext, Short, Short', ~UNCHANGED animationVars
               PROVE  Onward
    BY DEF Onward
  <2>0. AnimationTypeOK /\ mCurrentAnimation \in Anims /\ mCurrentAnimation # NoAnimation
    BY DEF AnimationInv, AnimationTypeOK, Short
  <2>1. CASE update
    BY <2>1, ShortUpdate
  <2>2. CASE ~update
    <3>1. mCurrentAnimation' = mCurrentAnimation
            /\ anim'[mCurrentAnimation].time = anim[mCurrentAnimation].time
      <4>1. CASE loadMesh \/ updateWithoutGhost
        BY <4>1 DEF loadMesh, updateWithoutGhost
      <4>2. ASSUME NEW n \in Anims \cup Missing, NEW looped \in BOOLEAN, queueFirst(n, looped)
            PROVE  FALSE
        BY <2>0, <4>2 DEF queueFirst
      <4>3. ASSUME NEW n \in Anims \cup Missing, NEW looped \in BOOLEAN, NEW forward \in BOOLEAN,
                   queueNext(n, looped, forward)
            PROVE  mCurrentAnimation' = mCurrentAnimation
                     /\ anim'[mCurrentAnimation].time = anim[mCurrentAnimation].time
        <5>1. n # mCurrentAnimation /\ n \in Anims /\ mCurrentAnimation' = mCurrentAnimation
          BY <4>3 DEF queueNext
        <5>2. anim'[mCurrentAnimation] = anim[mCurrentAnimation]
          BY <2>0, <4>3, <5>1 DEF queueNext, AnimationTypeOK
        <5> QED BY <5>1, <5>2
      <4> QED BY <2>2, <4>1, <4>2, <4>3 DEF AnimationNext
    <3>2. Time' = Time /\ Time \in Nat
      BY <2>0, <3>1 DEF Time, AnimationTypeOK, AnimationState
    <3> QED BY <2>2, <3>2 DEF Onward
  <2> QED BY <2>1, <2>2
<1> QED BY <1>1, AnimationInvariant, PTL DEF AnimationSpec
=============================================================================
