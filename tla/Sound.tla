------------------------------- MODULE Sound -------------------------------
(***************************************************************************)
(* SoundManager and the sound components: who holds which of irrKlang's    *)
(* sounds.  A sound is counted: irrKlang keeps one reference while it      *)
(* plays, the caller of play2D or play3D has another and gives it back     *)
(* with drop.  A sound whose last reference goes is freed, and its address *)
(* may be used again.  irrKlang's own thread ends sounds at any time.      *)
(***************************************************************************)
EXTENDS Naturals

CONSTANTS
    Files,      \* the names of sound files
    Comps,      \* addresses of sound components
    Sounds,     \* addresses of irrKlang's sounds
    NULL, Freed \* the null pointer; the content of a freed address

ASSUME SoundAssumption ==
    /\ NULL \notin Sounds
    /\ Freed \notin [refs : 0 .. 2, state : {"playing", "stopped", "ended"},
                     looped : BOOLEAN, paused : BOOLEAN, music : BOOLEAN]

VARIABLES
    mISoundSources,     \* the files that were loaded
    sound,              \* the ISound at each address
    components,         \* live sound components
    mSound,             \* the sound of each component
    mBackgroundMusic,
    closed              \* the application was destroyed

vars == <<mISoundSources, sound, components, mSound, mBackgroundMusic, closed>>

\* The sources are loaded once; a file that cannot be opened, or that irrKlang
\* does not take, is left out.
loadAllFilesFromMemory == mISoundSources \in SUBSET Files

Init ==
    /\ loadAllFilesFromMemory
    /\ sound = [s \in Sounds |-> Freed]
    /\ components = {}
    /\ mSound = [c \in Comps |-> NULL]
    /\ mBackgroundMusic = NULL
    /\ closed = FALSE

Alive == {s \in Sounds : sound[s] # Freed}
HeldByOne(s) == \E c \in components : mSound[c] = s
Held(s) == mBackgroundMusic = s \/ HeldByOne(s)

-----------------------------------------------------------------------------
(***************************************************************************)
(* irrKlang.                                                               *)
(***************************************************************************)
\* A sound that starts: one reference is the engine's, one the caller's.
Started(looped, music) ==
    [refs |-> 2, state |-> "playing", looped |-> looped, paused |-> FALSE, music |-> music]

\* Calls on a freed sound are out of this model: ReferencesAddUp excludes them.
GiveBackUnfreed(r) == [r EXCEPT !.refs = @ - 1]     \* variant: the last drop frees nothing
GiveBack(r) == IF r = Freed \/ r.refs = 1 THEN Freed ELSE [r EXCEPT !.refs = @ - 1]
stop(r) == IF r # Freed /\ r.state = "playing" THEN [r EXCEPT !.state = "stopped"] ELSE r
pause(r) == IF r = Freed THEN r ELSE [r EXCEPT !.paused = ~@]

\* ISound::drop.
drop(heap, s) == [heap EXCEPT ![s] = GiveBack(@)]

\* ISound::stop, then drop: the engine lets go of it later.
stopAndDrop(heap, s) == [heap EXCEPT ![s] = GiveBack(stop(@))]

\* irrKlang's thread: a stopped sound, or one that played to its end, loses the
\* engine's reference.
soundEnds(s) ==
    /\ s \in Alive
    /\ \/ sound[s].state = "stopped"
       \/ sound[s].state = "playing" /\ ~sound[s].looped /\ ~sound[s].paused
    /\ sound' = [sound EXCEPT ![s] = GiveBack([@ EXCEPT !.state = "ended"])]
    /\ UNCHANGED <<mISoundSources, components, mSound, mBackgroundMusic, closed>>

-----------------------------------------------------------------------------
(***************************************************************************)
(* The sound components.                                                   *)
(***************************************************************************)
createSoundComponent(c) ==
    /\ ~closed /\ c \notin components
    /\ components' = components \cup {c}
    /\ mSound' = [mSound EXCEPT ![c] = NULL]
    /\ UNCHANGED <<mISoundSources, sound, mBackgroundMusic, closed>>

DroppedOnly(c) == IF mSound[c] = NULL THEN sound ELSE drop(sound, mSound[c])     \* variant: no stop
Stopped(c) ==                       \* variant: no drop
    IF mSound[c] = NULL THEN sound ELSE [sound EXCEPT ![mSound[c]] = stop(@)]
Silenced(c) == IF mSound[c] = NULL THEN sound ELSE stopAndDrop(sound, mSound[c])

\* ~SoundComponent, when its object dies.
deleteComponent(c) ==
    /\ ~closed /\ c \in components
    /\ sound' = Silenced(c)
    /\ components' = components \ {c}
    /\ mSound' = [mSound EXCEPT ![c] = NULL]
    /\ UNCHANGED <<mISoundSources, mBackgroundMusic, closed>>

KeptOld(c) == sound                 \* variant: the old sound is not given back
DroppedOld(c) == IF mSound[c] = NULL THEN sound ELSE drop(sound, mSound[c])

\* loadSound gives the old sound back without stopping it, and gets a new one if
\* the file was loaded and irrKlang can play it.
loadSound(c, file, looped) ==
    /\ ~closed /\ c \in components
    /\ \/ /\ file \in mISoundSources
          /\ \E s \in Sounds :
                /\ DroppedOld(c)[s] = Freed
                /\ sound' = [DroppedOld(c) EXCEPT ![s] = Started(looped, FALSE)]
                /\ mSound' = [mSound EXCEPT ![c] = s]
       \/ /\ sound' = DroppedOld(c)
          /\ mSound' = [mSound EXCEPT ![c] = NULL]
    /\ UNCHANGED <<mISoundSources, components, mBackgroundMusic, closed>>

-----------------------------------------------------------------------------
(***************************************************************************)
(* The background music.                                                   *)
(***************************************************************************)
MusicDropped == IF mBackgroundMusic = NULL THEN sound ELSE drop(sound, mBackgroundMusic)

\* An unknown file changes nothing.
loadBackgroundMusic(file) ==
    /\ ~closed /\ file \in mISoundSources
    /\ \/ \E s \in Sounds :
            /\ MusicDropped[s] = Freed
            /\ sound' = [MusicDropped EXCEPT ![s] = Started(TRUE, TRUE)]
            /\ mBackgroundMusic' = s
       \/ /\ sound' = MusicDropped
          /\ mBackgroundMusic' = NULL
    /\ UNCHANGED <<mISoundSources, components, mSound, closed>>

NoMusic == NULL

stopBackgroundMusic ==
    /\ ~closed /\ mBackgroundMusic # NULL
    /\ sound' = stopAndDrop(sound, mBackgroundMusic)
    /\ mBackgroundMusic' = NoMusic
    /\ UNCHANGED <<mISoundSources, components, mSound, closed>>

toggleBackgroundMusicPause ==
    /\ ~closed /\ mBackgroundMusic # NULL
    /\ sound' = [sound EXCEPT ![mBackgroundMusic] = pause(@)]
    /\ UNCHANGED <<mISoundSources, components, mSound, mBackgroundMusic, closed>>

-----------------------------------------------------------------------------
\* ~BaseApplication: the objects go first and their components silence their
\* sounds; ~SoundManager drops the music, and the engine takes the rest with it.
shutDown ==
    /\ ~closed
    /\ closed' = TRUE
    /\ components' = {}
    /\ mSound' = [c \in Comps |-> NULL]
    /\ mBackgroundMusic' = NULL
    /\ mISoundSources' = {}
    /\ sound' = [s \in Sounds |-> Freed]

Application ==
    \/ \E c \in Comps :
        \/ createSoundComponent(c) \/ deleteComponent(c)
        \/ \E file \in Files, looped \in BOOLEAN : loadSound(c, file, looped)
    \/ \E file \in Files : loadBackgroundMusic(file)
    \/ stopBackgroundMusic \/ toggleBackgroundMusicPause
    \/ shutDown

Engine == \E s \in Sounds : soundEnds(s)

Next == Application \/ Engine

Spec == Init /\ [][Next]_vars

\* irrKlang's thread gets to every sound that is to end.
FairSpec == Spec /\ \A s \in Sounds : WF_vars(soundEnds(s))

-----------------------------------------------------------------------------
(***************************************************************************)
(* Properties                                                              *)
(***************************************************************************)
ISound == [refs : 1 .. 2, state : {"playing", "stopped", "ended"},
           looped : BOOLEAN, paused : BOOLEAN, music : BOOLEAN]

TypeOK ==
    /\ mISoundSources \subseteq Files
    /\ sound \in [Sounds -> ISound \cup {Freed}]
    /\ components \subseteq Comps
    /\ mSound \in [Comps -> Sounds \cup {NULL}]
    /\ mBackgroundMusic \in Sounds \cup {NULL}
    /\ closed \in BOOLEAN

\* A sound lasts exactly as long as someone needs it, over every order of the
\* application's calls and the engine's endings: its references are the engine's,
\* until it ended, and its holder's, so no pointer is to a freed sound and no
\* sound outlives both (loadSound, loadBackgroundMusic, the drops).
One(b) == IF b THEN 1 ELSE 0
ReferencesAddUp ==
    \A s \in Sounds :
        IF s \in Alive THEN sound[s].refs = One(sound[s].state # "ended") + One(Held(s))
                       ELSE ~Held(s)

\* Nobody shares a sound: the music is no component's, and no two components
\* hold the same one, so that stopping one silences nobody else.
SoundsNotShared ==
    /\ \A c \in components : mSound[c] # NULL => mSound[c] # mBackgroundMusic
    /\ \A c, d \in components : c # d /\ mSound[c] # NULL => mSound[c] # mSound[d]

\* A component that dies takes its sound with it: the sound is freed or about to
\* be, looped or not (~SoundComponent stops before it drops).
DeadComponentsFallSilent ==
    [][\A c \in components \ components' :
          mSound[c] # NULL => \/ sound'[mSound[c]] = Freed
                              \/ sound'[mSound[c]].state # "playing"]_vars

\* A sound that nobody holds ends and is freed, unless it was looped or paused
\* when its holder dropped it without stopping it.
DroppedSoundsEnd ==
    \A s \in Sounds :
        (s \in Alive /\ ~Held(s)) ~>
            (s \notin Alive \/ (sound[s].state = "playing" /\ (sound[s].looped \/ sound[s].paused)))
=============================================================================
