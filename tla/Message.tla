------------------------------ MODULE Message ------------------------------
(***************************************************************************)
(* ssuge::Message (src/src/Message.cpp, src/include/Message.h): the array  *)
(* of DataItems in which parameters travel between game objects and        *)
(* scripts.  A message is filled by the add methods, may outgrow its array *)
(* (increaseSize), is read by the typed getters, and is copied parameter   *)
(* by parameter when it is pushed into Lua or popped from it.              *)
(*                                                                         *)
(* A string is the sequence of its 4-byte pieces: full pieces, then        *)
(* possibly a last piece that also holds the terminating NUL.  Everything  *)
(* else a parameter carries is one opaque value.                           *)
(***************************************************************************)
EXTENDS Integers, Sequences, FiniteSets, FiniteSetsExt

CONSTANTS
    Ints, Floats, Objects,   \* values of 'i', 'f' and 'g' parameters
    FullChunks,              \* 4 characters, none of them NUL
    TailChunks,              \* 1 to 3 characters and a NUL
    Strings,                 \* the strings callers add
    FloatToInt, IntToFloat,  \* the C++ numeric conversions
    Throw, NULL,             \* the exception a getter raises; no object
    Junk,                    \* what a freshly allocated DataItem may hold
    ParamNumMod,             \* values of the unsigned char mParamNum (256)
    START_CHUNK_NUM,         \* default capacity (3)
    MaxParams,               \* bound: parameters per message
    MaxCopies,               \* bound: times one message is pushed or popped
    MaxWild,                 \* bound: chunks counted behind a pointer that is none
    CreateArgs               \* argument lists given to createMessage

IsString(s) ==
    /\ s \in Seq(FullChunks \cup TailChunks)
    /\ \A k \in 1 .. Len(s) - 1 : s[k] \in FullChunks

\* A parameter as a caller sees it, and the pieces it occupies.
Scalars == [type : {"i"}, val : Ints] \cup [type : {"f"}, val : Floats]
                \cup [type : {"g"}, val : Objects]
Params == Scalars \cup [type : {"s"}, val : Strings]
NoParam == [type |-> "none", val |-> "none"]
ChunksOf(p) == IF p.type = "s" THEN p.val ELSE <<p.val>>

ASSUME MessageAssumption ==
    /\ FullChunks \cap TailChunks = {}
    /\ \A s \in Strings : IsString(s)
    /\ \A args \in CreateArgs : args \in Seq(Params)
    /\ ParamNumMod \in Nat \ {0}
    /\ START_CHUNK_NUM \in Nat \ {0}
    /\ MaxParams \in Nat
    /\ MaxCopies \in Nat
    /\ MaxWild \in Nat

DataItem(type, data, num) == [mType |-> type, mData |-> data, mParamNum |-> num % ParamNumMod]

\* new DataItem[n]: the constructor writes nothing.
NewMessage(n, junk) == [mParams |-> [k \in 0 .. n - 1 |-> junk],
                        mNumParam |-> 0, mNumChunks |-> 0, mMaxChunks |-> n]

-----------------------------------------------------------------------------
(***************************************************************************)
(* The getters.  Throw stands for the ssuge::Exception they raise.       *)
(***************************************************************************)
Matches(m, num) == {k \in 0 .. m.mNumChunks - 1 : m.mParams[k].mParamNum = num % ParamNumMod}
First(m, num) == m.mParams[Min(Matches(m, num))]

getParamType(m, num) ==
    IF Matches(m, num) = {} THEN "?" ELSE First(m, num).mType

getInt(m, num) ==
    IF Matches(m, num) = {} THEN 0
    ELSE LET item == First(m, num)
         IN CASE item.mType = "i" -> item.mData
              [] item.mType = "f" -> FloatToInt[item.mData]
              [] OTHER -> Throw

getFloat(m, num) ==
    IF Matches(m, num) = {} THEN 0
    ELSE LET item == First(m, num)
         IN CASE item.mType = "f" -> item.mData
              [] item.mType = "i" -> IntToFloat[item.mData]
              [] OTHER -> Throw

getGameObject(m, num) ==
    IF Matches(m, num) = {} THEN NULL ELSE First(m, num).mData

\* std::string(cString) ends at the first NUL.
CutAtNul(s) ==
    LET ends == {k \in 1 .. Len(s) : s[k] \in TailChunks}
    IN IF ends = {} THEN s ELSE SubSeq(s, 1, Min(ends))

\* As many consecutive chunks as carry the number, from the first that does.
getString(m, num) ==
    LET found == Matches(m, num)
    IN IF found = {} THEN <<>>
       ELSE CutAtNul([k \in 1 .. Cardinality(found) |-> m.mParams[Min(found) + k - 1].mData])

\* What the getter of the parameter's own type returns.
ReadParam(m, num) ==
    LET t == getParamType(m, num)
    IN [type |-> t,
        val  |-> CASE t = "i" -> getInt(m, num)
                   [] t = "f" -> getFloat(m, num)
                   [] t = "g" -> getGameObject(m, num)
                   [] t = "s" -> getString(m, num)
                   [] OTHER -> "?"]

-----------------------------------------------------------------------------
VARIABLES
    msg,     \* the message being filled: mParams, mNumParam, mNumChunks, mMaxChunks
    src,     \* the message parameters are copied from (push, pop)
    next,    \* loop index of that copy
    copies,  \* copies made so far, up to MaxCopies
    todo,    \* arguments createMessage has still to add
    mode,    \* who is adding: "build", "create", "push" or "pop"
    pc,      \* "ready", where the running add (or copy) is, or "undefined"
    arg,     \* the parameter being added
    sent,    \* history: the parameters the message is meant to hold
    intact,  \* history: every parameter was added where addString works, and no
             \* message with wrapped parameter numbers was copied (see ReadsBack)
    counted  \* history: createMessage counted the strings it was given

vars == <<msg, src, next, copies, todo, mode, pc, arg, sent, intact, counted>>

Init ==
    /\ \E j \in Junk : msg = NewMessage(START_CHUNK_NUM, j)
    /\ src = NewMessage(0, NoParam)
    /\ next = 0
    /\ copies = 0
    /\ todo = <<>>
    /\ mode = "build"
    /\ pc = "ready"
    /\ arg = NoParam
    /\ sent = <<>>
    /\ intact = TRUE
    /\ counted = TRUE

-----------------------------------------------------------------------------
(***************************************************************************)
(* Adding one parameter: count its chunks, grow if they do not fit, store. *)
(***************************************************************************)
StartAdd(p) ==
    LET chunks == msg.mNumChunks + Len(ChunksOf(p))
    IN /\ msg' = [msg EXCEPT !.mNumChunks = chunks]
       /\ arg' = p
       /\ pc' = IF chunks > msg.mMaxChunks THEN "double" ELSE "store"

ClientMayAdd ==
    /\ pc = "ready"
    /\ todo = <<>>
    /\ msg.mNumParam < MaxParams

addScalar(p) ==
    /\ ClientMayAdd
    /\ mode' = "build"
    /\ StartAdd(p)
    /\ UNCHANGED <<src, next, copies, todo, sent, intact, counted>>

addInt == \E i \in Ints : addScalar([type |-> "i", val |-> i])
addFloat == \E f \in Floats : addScalar([type |-> "f", val |-> f])
addGameObject == \E g \in Objects : addScalar([type |-> "g", val |-> g])

addString ==
    /\ ClientMayAdd
    /\ mode' = "build"
    /\ \E s \in Strings : StartAdd([type |-> "s", val |-> s])
    /\ UNCHANGED <<src, next, copies, todo, sent, intact, counted>>

DoubleByHalf ==         \* variant: grows by half, so that one chunk never grows
    /\ pc = "double"
    /\ msg.mNumChunks > msg.mMaxChunks
    /\ msg' = [msg EXCEPT !.mMaxChunks = @ + (@ \div 2)]
    /\ UNCHANGED <<src, next, copies, todo, mode, pc, arg, sent, intact, counted>>

\* increaseSize: while(mNumChunks > mMaxChunks) mMaxChunks = 2 * mMaxChunks
Double ==
    /\ pc = "double"
    /\ msg.mNumChunks > msg.mMaxChunks
    /\ msg' = [msg EXCEPT !.mMaxChunks = 2 * @]
    /\ UNCHANGED <<src, next, copies, todo, mode, pc, arg, sent, intact, counted>>

ReallocateWith(size, copied) ==
    /\ pc = "double"
    /\ msg.mNumChunks <= msg.mMaxChunks
    /\ \E j \in Junk :
         msg' = [msg EXCEPT !.mParams =
                   [k \in 0 .. size - 1 |->
                      IF k < copied /\ k \in DOMAIN msg.mParams
                      THEN msg.mParams[k] ELSE j]]
    /\ pc' = "store"
    /\ UNCHANGED <<src, next, copies, todo, mode, arg, sent, intact, counted>>

\* variants: an array sized by what is used; a copy that misses the last item
ReallocateTight == ReallocateWith(msg.mNumChunks, msg.mNumChunks - 1)
ReallocateShortCopy == ReallocateWith(msg.mMaxChunks, msg.mNumChunks - 2)

\* ... then a new array, and mNumChunks - 1 items of the old one: past the end
\* of the old array the copy reads whatever memory holds.
Reallocate == ReallocateWith(msg.mMaxChunks, msg.mNumChunks - 1)

StoreIndexPast(p, k) == \* variant: scalars one past the counted chunks
    IF p.type = "s" /\ p.val[k] \notin TailChunks
    THEN msg.mNumParam + k - 1 ELSE msg.mNumChunks

\* Full pieces of a string go to mParams[mNumParam + i]; its last piece, and
\* every scalar, to mParams[mNumChunks - 1].
StoreIndex(p, k) ==
    IF p.type = "s" /\ p.val[k] \notin TailChunks
    THEN msg.mNumParam + k - 1 ELSE msg.mNumChunks - 1

StoredAt(p, n) == {k \in 1 .. Len(ChunksOf(p)) : StoreIndex(p, k) = n}

\* addString puts full pieces where they belong only if every parameter before
\* it took exactly one chunk, and an empty string leaves no chunk to find it by.
StoredWhereRead(p) ==
    p.type = "s" =>
        /\ p.val # <<>>
        /\ p.val[1] \notin TailChunks => msg.mNumParam = msg.mNumChunks - Len(p.val)

Store ==
    /\ pc = "store"
    /\ msg' = [msg EXCEPT
                 !.mNumParam = @ + 1,
                 !.mParams = [n \in DOMAIN msg.mParams |->
                    IF StoredAt(arg, n) = {} THEN msg.mParams[n]
                    ELSE DataItem(arg.type, ChunksOf(arg)[Max(StoredAt(arg, n))], msg.mNumParam)]]
    /\ pc' = IF mode \in {"push", "pop"} THEN "copy" ELSE "ready"
    /\ sent' = IF mode \in {"push", "pop"} THEN sent ELSE Append(sent, arg)
    /\ intact' = (intact /\ StoredWhereRead(arg))
    /\ arg' = NoParam
    /\ UNCHANGED <<src, next, copies, todo, mode, counted>>

\* What is written past the array is lost above; it may also break the heap.
StorePast ==
    /\ pc = "store"
    /\ \E k \in 1 .. Len(ChunksOf(arg)) : StoreIndex(arg, k) \notin DOMAIN msg.mParams
    /\ pc' = "undefined"
    /\ UNCHANGED <<msg, src, next, copies, todo, mode, arg, sent, intact, counted>>

-----------------------------------------------------------------------------
(***************************************************************************)
(* createMessage(format, ...): one pass counts the chunks, the message     *)
(* starts with that capacity, a second pass adds the arguments.  A float   *)
(* argument arrives as a double, two words of the 32-bit program.  The     *)
(* second pass takes it as one; the first takes a float, one word, and so  *)
(* every argument after it a word too early: where the format says 's' it  *)
(* may find another string, or a word that is no string at all.            *)
(***************************************************************************)
StringsOf(args) == {k \in 1 .. Len(args) : args[k].type = "s"}

\* The word at which an argument starts; the counting pass takes its k-th
\* argument from word k.
WordOf(args, k) == k + Cardinality({m \in 1 .. k - 1 : args[m].type = "f"})
Found(args, k) == {n \in StringsOf(args) : WordOf(args, n) = k}
Wild(args) == {k \in StringsOf(args) : Found(args, k) = {}}

\* The string the counting pass takes for argument k.
StringRead(args, k) == args[CHOOSE n \in Found(args, k) : TRUE].val

CountedAtFull(args, wild, k) ==   \* variant: forgets the remainder of len % 4
    IF k \notin StringsOf(args) THEN 1
    ELSE IF k \in Wild(args) THEN wild[k]
    ELSE Cardinality({i \in 1 .. Len(StringRead(args, k)) : StringRead(args, k)[i] \in FullChunks})

\* What it counts for it; wild[k] where it finds no string.
CountedAt(args, wild, k) ==
    IF k \notin StringsOf(args) THEN 1
    ELSE IF k \in Wild(args) THEN wild[k]
    ELSE Len(StringRead(args, k))

ChunksCounted(args, wild) ==
    Cardinality(UNION {{k} \X (1 .. CountedAt(args, wild, k)) : k \in 1 .. Len(args)})

createMessage ==
    /\ pc = "ready" /\ todo = <<>>
    /\ \E args \in CreateArgs : \E wild \in [Wild(args) -> 0 .. MaxWild], j \in Junk :
         /\ msg' = NewMessage(ChunksCounted(args, wild), j)
         /\ todo' = args
         /\ counted' = (\A k \in StringsOf(args) : WordOf(args, k) = k)
         /\ pc' \in IF Wild(args) = {} THEN {"ready"} ELSE {"ready", "undefined"}
    /\ mode' = "create"
    /\ sent' = <<>>
    /\ intact' = TRUE
    /\ copies' = 0
    /\ UNCHANGED <<src, next, arg>>

AddNextArgument ==
    /\ pc = "ready" /\ todo # <<>>
    /\ StartAdd(Head(todo))
    /\ todo' = Tail(todo)
    /\ UNCHANGED <<src, next, copies, mode, sent, intact, counted>>

-----------------------------------------------------------------------------
(***************************************************************************)
(* __lua_push_Message and __lua_pop_Message: a fresh message is filled     *)
(* with the parameters the other one reports, by type.  Pop has no branch  *)
(* for game objects.                                                       *)
(***************************************************************************)
StartCopy(how) ==
    /\ pc = "ready" /\ todo = <<>> /\ sent # <<>>
    /\ copies < MaxCopies
    /\ copies' = copies + 1
    /\ src' = msg
    /\ next' = 0
    /\ \E j \in Junk : msg' = NewMessage(START_CHUNK_NUM, j)
    /\ mode' = how
    /\ pc' = "copy"
    /\ intact' = (intact /\ Len(sent) <= ParamNumMod)
    /\ UNCHANGED <<todo, arg, sent, counted>>

push_Message == StartCopy("push")
pop_Message == StartCopy("pop")

Copies(how) == IF how = "push" THEN {"i", "f", "s", "g"} ELSE {"i", "f", "s"}

\* Of the first n parameters of s, those a copy carries over.
Carried(s, how) ==
    LET kept[n \in 0 .. Len(s)] ==
            IF n = 0 THEN <<>>
            ELSE IF s[n].type \in Copies(how) THEN Append(kept[n - 1], s[n])
            ELSE kept[n - 1]
    IN kept

CopyParam ==
    /\ pc = "copy"
    /\ next < src.mNumParam
    /\ next' = next + 1
    /\ IF getParamType(src, next) \in Copies(mode)
       THEN StartAdd(ReadParam(src, next))
       ELSE UNCHANGED <<msg, arg, pc>>
    /\ UNCHANGED <<src, copies, todo, mode, sent, intact, counted>>

EndCopy ==
    /\ pc = "copy"
    /\ next = src.mNumParam
    /\ pc' = "ready"
    /\ sent' = Carried(sent, mode)[Len(sent)]
    /\ src' = NewMessage(0, NoParam)
    /\ next' = 0
    /\ mode' = "build"
    /\ UNCHANGED <<msg, copies, todo, arg, intact, counted>>

-----------------------------------------------------------------------------
AddStep == Double \/ Reallocate \/ Store \/ StorePast
CopyStep == CopyParam \/ EndCopy

Next ==
    \/ addInt \/ addFloat \/ addGameObject \/ addString
    \/ AddStep
    \/ createMessage \/ AddNextArgument
    \/ push_Message \/ pop_Message \/ CopyStep

Spec == Init /\ [][Next]_vars

\* A started add or copy runs to its end: it is one call on one thread.
FairSpec == Spec /\ WF_vars(AddStep) /\ WF_vars(CopyStep) /\ WF_vars(AddNextArgument)

-----------------------------------------------------------------------------
(***************************************************************************)
(* Properties                                                              *)
(***************************************************************************)
IsArray(a, n) == DOMAIN a = 0 .. n - 1

IsMessage(m) ==
    /\ m = [mParams |-> m.mParams, mNumParam |-> m.mNumParam,
            mNumChunks |-> m.mNumChunks, mMaxChunks |-> m.mMaxChunks]
    /\ m.mParams = [k \in DOMAIN m.mParams |-> m.mParams[k]]
    /\ m.mNumParam \in Nat /\ m.mNumChunks \in Nat /\ m.mMaxChunks \in Nat

\* Type invariant.  Outside increaseSize the array has mMaxChunks items; inside
\* it is still the old, shorter one.
TypeOK ==
    /\ IsMessage(msg)
    /\ pc # "double" => IsArray(msg.mParams, msg.mMaxChunks)
    /\ pc = "double" => \E n \in 0 .. msg.mMaxChunks : IsArray(msg.mParams, n)
    /\ IsMessage(src)
    /\ next \in Nat
    /\ copies \in Nat
    /\ todo \in Seq(Params)
    /\ mode \in {"build", "create", "push", "pop"}
    /\ pc \in {"ready", "double", "store", "copy", "undefined"}
    /\ intact \in BOOLEAN
    /\ counted \in BOOLEAN

\* What every getter relies on when it scans mParams[0 .. mNumChunks-1]: no add,
\* whatever it added and however the message was created, leaves more chunks
\* counted than allocated.
ChunksFit ==
    pc # "double" => msg.mNumChunks <= msg.mMaxChunks

\* An add stores past the end of the array by at most as many items as there
\* are empty strings in the message, each of them a parameter without a chunk;
\* a message without any is only written inside its array, whatever is added
\* and however createMessage counted.
Empties == {p \in 1 .. Len(sent) : ChunksOf(sent[p]) = <<>>}
StoresInBounds ==
    pc = "store" =>
        \A k \in 1 .. Len(ChunksOf(arg)) :
            StoreIndex(arg, k) \in 0 .. msg.mMaxChunks - 1 + Cardinality(Empties)

\* A message whose strings were all added where addString works gives back, by
\* the getter of each parameter's own type, exactly what was added, in order:
\* through growth, and through any copying into Lua and back (which loses
\* nothing but game objects on the way back).  Numbers are told apart only up to
\* ParamNumMod: past that, the first parameter of a number answers for the
\* others, and if it is a string, their chunks are taken for pieces of it.
FirstOfNumber(p) == ((p - 1) % ParamNumMod) + 1
Readable(p) == Len(sent) <= ParamNumMod \/ sent[FirstOfNumber(p)].type # "s"
ReadsBack ==
    (pc = "ready" /\ todo = <<>> /\ intact)
        => /\ msg.mNumParam = Len(sent)
           /\ \A p \in 1 .. Len(sent) :
                Readable(p) => ReadParam(msg, p - 1) = sent[FirstOfNumber(p)]

\* createMessage "finds out how many chunks the input needs" (Message.cpp:536):
\* where its counting pass reads the strings it was given, filling the message
\* never reallocates.  After a float it reads other words and counts anything;
\* the adds then grow the message like any other, as the other properties say.
CreateNeverGrows ==
    (mode = "create" /\ counted) => pc # "double"

\* The doubling loop of increaseSize ends and the add returns, if only to break
\* the heap it stores past.
AddsReturn ==
    (pc = "double") ~> (pc \in {"ready", "undefined"})

(***************************************************************************)
(* What a comment of Message.h says and the code does not do.              *)
(***************************************************************************)
\* Message.h:94 "Adds a new string to the end of the message": each parameter
\* added so far is there to be read (empty strings and wrapped numbers apart).
AddedParamsReadBack ==
    (pc = "ready" /\ todo = <<>> /\ copies = 0 /\ msg.mNumParam <= ParamNumMod
       /\ \A p \in 1 .. Len(sent) : sent[p].val # <<>>)
        => \A p \in 1 .. Len(sent) : ReadParam(msg, p - 1) = sent[p]
=============================================================================
