--------------------------- MODULE MessageProofs ---------------------------
(***************************************************************************)
(* Proofs about Message for every choice of values, strings, capacities    *)
(* and bounds.  TypeOK and ChunksFit are inductive together: the array     *)
(* covers what is counted except while increaseSize runs, and increaseSize *)
(* is only left with an array that covers it again.  CreateExact then says *)
(* that createMessage counts right where it reads the right strings,       *)
(* ReadInv what the array holds, item by item, at every point of an add    *)
(* and of a copy, and NumInv how far past its end addString may store.     *)
(***************************************************************************)
EXTENDS Message, FiniteSetTheorems, SequenceTheorems, WellFoundedInduction, TLAPS

\* The pieces of a parameter a client adds form a sequence.
LEMMA ClientChunks ==
    ASSUME NEW p \in Params
    PROVE  Len(ChunksOf(p)) \in Nat
<1>1. CASE p.type = "s"
  <2>1. p.val \in Strings
    BY <1>1 DEF Params, Scalars
  <2>2. p.val \in Seq(FullChunks \cup TailChunks)
    BY <2>1, MessageAssumption DEF IsString
  <2> QED BY <1>1, <2>2, LenProperties DEF ChunksOf
<1>2. CASE p.type # "s"
  BY <1>2 DEF ChunksOf
<1> QED BY <1>1, <1>2

\* Where there are pieces there is a first one.
LEMMA ChunksAppear ==
    ASSUME NEW p \in Params, ChunksOf(p) # <<>>
    PROVE  Len(ChunksOf(p)) >= 1
<1>1. CASE p.type = "s"
  <2>1. p.val \in Strings
    BY <1>1 DEF Params, Scalars
  <2>2. p.val \in Seq(FullChunks \cup TailChunks) /\ p.val # <<>>
    BY <1>1, <2>1, MessageAssumption DEF IsString, ChunksOf
  <2>3. Len(p.val) \in Nat /\ Len(p.val) # 0
    BY <2>2, LenProperties, EmptySeq
  <2> QED BY <1>1, <2>3 DEF ChunksOf
<1>2. CASE p.type # "s"
  BY <1>2 DEF ChunksOf
<1> QED BY <1>1, <1>2

\* The chunks a list of arguments needs, and their number.
ChunksNeeded(args) ==
    Cardinality(UNION {{i} \X (1 .. Len(ChunksOf(args[i]))) : i \in 1 .. Len(args)})

ChunkCells(args) == UNION {{i} \X (1 .. Len(ChunksOf(args[i]))) : i \in 1 .. Len(args)}

LEMMA ChunkCellsFinite ==
    ASSUME NEW args \in Seq(Params)
    PROVE  IsFiniteSet(ChunkCells(args))
<1> DEFINE Piece(i) == {i} \X (1 .. Len(ChunksOf(args[i])))
           Pieces == {Piece(i) : i \in 1 .. Len(args)}
           f == [i \in 1 .. Len(args) |-> Piece(i)]
<1>1. Len(args) \in Nat
  BY LenProperties
<1>2. IsFiniteSet(1 .. Len(args))
  BY <1>1, FS_Interval
<1>3. f \in Surjection(1 .. Len(args), Pieces)
  BY DEF Surjection
<1>4. IsFiniteSet(Pieces)
  BY <1>2, <1>3, FS_Surjection
<1>5. ASSUME NEW i \in 1 .. Len(args)
      PROVE  IsFiniteSet(Piece(i))
  <2>1. args[i] \in Params
    BY <1>5, ElementOfSeq
  <2>2. Len(ChunksOf(args[i])) \in Nat
    BY <2>1, ClientChunks
  <2>3. IsFiniteSet(1 .. Len(ChunksOf(args[i])))
    BY <2>2, FS_Interval
  <2>4. IsFiniteSet({i})
    BY FS_Singleton
  <2> QED BY <2>3, <2>4, FS_Product
<1>6. IsFiniteSet(UNION Pieces)
  <2>1. \A T \in Pieces : IsFiniteSet(T)
    BY <1>5
  <2> HIDE DEF Pieces
  <2> QED BY <1>4, <2>1, FS_UNION
<1> QED BY <1>6 DEF ChunkCells

\* A list needs a natural number of chunks.
LEMMA ChunksNeededType ==
    ASSUME NEW args \in Seq(Params)
    PROVE  ChunksNeeded(args) \in Nat
BY ChunkCellsFinite, FS_CardinalityType DEF ChunksNeeded, ChunkCells

\* A cell is an argument and one of its chunks.
LEMMA ChunkCellsMembers ==
    ASSUME NEW args, NEW c
    PROVE  c \in ChunkCells(args)
             <=> \E i \in 1 .. Len(args) : \E k \in 1 .. Len(ChunksOf(args[i])) : c = <<i, k>>
<1>1. c \in ChunkCells(args)
        <=> \E i \in 1 .. Len(args) : c \in {i} \X (1 .. Len(ChunksOf(args[i])))
  BY DEF ChunkCells
<1>2. \A i : c \in {i} \X (1 .. Len(ChunksOf(args[i])))
               <=> \E k \in 1 .. Len(ChunksOf(args[i])) : c = <<i, k>>
  OBVIOUS
<1> QED BY <1>1, <1>2

\* A list without arguments needs no chunk.
LEMMA ChunksNeededEmpty == ChunksNeeded(<<>>) = 0
<1>1. ChunkCells(<<>>) = {}
  <2>1. Len(<<>>) = 0
    BY EmptySeq
  <2>2. \A c : c \notin ChunkCells(<<>>)
    BY <2>1, ChunkCellsMembers
  <2> QED BY <2>2
<1> QED BY <1>1, FS_EmptySet DEF ChunksNeeded, ChunkCells

\* The count of a list is the count of its first argument and that of the rest:
\* the cells of the rest are those of the list beyond the first, moved by one.
LEMMA ChunksNeededHead ==
    ASSUME NEW args \in Seq(Params), args # <<>>
    PROVE  ChunksNeeded(args) = Len(ChunksOf(Head(args))) + ChunksNeeded(Tail(args))
<1> DEFINE rest == Tail(args)
           len == Len(ChunksOf(Head(args)))
           Here == {1} \X (1 .. len)
           Old == ChunkCells(rest)
           Moved == {<<c[1] + 1, c[2]>> : c \in Old}
           f == [c \in Old |-> <<c[1] + 1, c[2]>>]
<1>1. /\ rest \in Seq(Params)
      /\ Len(rest) = Len(args) - 1
      /\ \A i \in 1 .. Len(rest) : rest[i] = args[i + 1]
      /\ Head(args) = args[1]
      /\ Head(args) \in Params
      /\ Len(args) \in Nat \ {0}
  BY HeadTailProperties, EmptySeq
<1>2. len \in Nat
  BY <1>1, ClientChunks
<1>3. \A c : c \in Old <=> \E i \in 1 .. Len(rest) : \E k \in 1 .. Len(ChunksOf(rest[i])) : c = <<i, k>>
  BY ChunkCellsMembers
<1>4. \A c : c \in ChunkCells(args)
               <=> \E i \in 1 .. Len(args) : \E k \in 1 .. Len(ChunksOf(args[i])) : c = <<i, k>>
  BY ChunkCellsMembers
<1> HIDE DEF Old, rest, len
<1>5. \A c : c \in Moved
               <=> \E i \in 1 .. Len(rest) : \E k \in 1 .. Len(ChunksOf(rest[i])) : c = <<i + 1, k>>
  <2> SUFFICES ASSUME NEW c
               PROVE  c \in Moved
                        <=> \E i \in 1 .. Len(rest) : \E k \in 1 .. Len(ChunksOf(rest[i])) : c = <<i + 1, k>>
    OBVIOUS
  <2>1. ASSUME c \in Moved
        PROVE  \E i \in 1 .. Len(rest) : \E k \in 1 .. Len(ChunksOf(rest[i])) : c = <<i + 1, k>>
    <3>1. PICK o \in Old : c = <<o[1] + 1, o[2]>>
      BY <2>1
    <3>2. PICK i \in 1 .. Len(rest) : \E k \in 1 .. Len(ChunksOf(rest[i])) : o = <<i, k>>
      BY <1>3
    <3> QED BY <3>1, <3>2
  <2>2. ASSUME NEW i \in 1 .. Len(rest), NEW k \in 1 .. Len(ChunksOf(rest[i])), c = <<i + 1, k>>
        PROVE  c \in Moved
    <3>1. <<i, k>> \in Old
      BY <1>3
    <3>2. <<i, k>>[1] = i /\ <<i, k>>[2] = k
      OBVIOUS
    <3> QED BY <2>2, <3>1, <3>2
  <2> HIDE DEF Moved
  <2> QED BY <2>1, <2>2
<1>6. ChunkCells(args) = Here \cup Moved
  <2>1. ASSUME NEW c \in ChunkCells(args) PROVE c \in Here \cup Moved
    <3>1. PICK i \in 1 .. Len(args) : \E k \in 1 .. Len(ChunksOf(args[i])) : c = <<i, k>>
      BY <1>4, <2>1
    <3>2. PICK k \in 1 .. Len(ChunksOf(args[i])) : c = <<i, k>>
      BY <3>1
    <3>3. CASE i = 1
      BY <1>1, <3>2, <3>3 DEF len
    <3>4. CASE i # 1
      <4>1. i - 1 \in 1 .. Len(rest) /\ (i - 1) + 1 = i
        BY <1>1, <3>4
      <4>2. rest[i - 1] = args[i]
        BY <1>1, <4>1
      <4>3. c \in Moved
        BY <1>5, <3>2, <4>1, <4>2
      <4> QED BY <4>3
    <3> QED BY <3>3, <3>4
  <2>2. ASSUME NEW c \in Here PROVE c \in ChunkCells(args)
    <3>1. PICK k \in 1 .. len : c = <<1, k>>
      BY <2>2
    <3>2. 1 \in 1 .. Len(args) /\ k \in 1 .. Len(ChunksOf(args[1]))
      BY <1>1 DEF len
    <3> QED BY <1>4, <3>1, <3>2
  <2>3. ASSUME NEW c \in Moved PROVE c \in ChunkCells(args)
    <3>1. PICK i \in 1 .. Len(rest) : \E k \in 1 .. Len(ChunksOf(rest[i])) : c = <<i + 1, k>>
      BY <1>5, <2>3
    <3>2. i + 1 \in 1 .. Len(args) /\ rest[i] = args[i + 1]
      BY <1>1
    <3> QED BY <1>4, <3>1, <3>2
  <2> HIDE DEF Here, Moved
  <2> QED BY <2>1, <2>2, <2>3
<1>7. Here \cap Moved = {}
  <2> SUFFICES ASSUME NEW c \in Here, c \in Moved PROVE FALSE
    OBVIOUS
  <2>1. PICK i \in 1 .. Len(rest) : \E k \in 1 .. Len(ChunksOf(rest[i])) : c = <<i + 1, k>>
    BY <1>5
  <2>2. c[1] = 1 /\ c[1] = i + 1
    BY <2>1
  <2> QED BY <1>1, <2>2
<1>8. IsFiniteSet(Old) /\ Cardinality(Old) = ChunksNeeded(rest) /\ ChunksNeeded(rest) \in Nat
  BY <1>1, ChunkCellsFinite, ChunksNeededType DEF ChunksNeeded, ChunkCells, Old
<1>9. IsFiniteSet(Moved) /\ Cardinality(Moved) = Cardinality(Old)
  <2>1. f \in Surjection(Old, Moved)
    BY DEF Surjection
  <2>2. f \in Injection(Old, Moved)
    <3>1. \A c \in Old : c[1] \in Int /\ c = <<c[1], c[2]>>
      BY <1>3
    <3>2. ASSUME NEW a \in Old, NEW b \in Old, f[a] = f[b] PROVE a = b
      <4>1. a[1] + 1 = b[1] + 1 /\ a[2] = b[2]
        BY <3>2
      <4> QED BY <3>1, <4>1
    <3>3. f \in [Old -> Moved]
      OBVIOUS
    <3> QED BY <3>2, <3>3 DEF Injection, IsInjective
  <2>3. f \in Bijection(Old, Moved)
    BY <2>1, <2>2 DEF Bijection
  <2>4. ExistsBijection(Old, Moved)
    BY <2>3 DEF ExistsBijection
  <2> QED BY <1>8, <2>4, FS_Bijection
<1>10. IsFiniteSet(Here) /\ Cardinality(Here) = len
  <2>1. IsFiniteSet({1}) /\ Cardinality({1}) = 1
    BY FS_Singleton
  <2>2. IsFiniteSet(1 .. len) /\ Cardinality(1 .. len) = len
    BY <1>2, FS_Interval
  <2>3. IsFiniteSet(Here) /\ Cardinality(Here) = 1 * len
    BY <2>1, <2>2, FS_Product
  <2> QED BY <1>2, <2>3
<1>11. Cardinality(ChunkCells(args)) = len + Cardinality(Moved) - 0
  <2> HIDE DEF Here, Moved
  <2> QED BY <1>6, <1>7, <1>9, <1>10, FS_Union, FS_EmptySet
<1>12. ChunksNeeded(args) = Cardinality(ChunkCells(args))
  BY DEF ChunksNeeded, ChunkCells
<1> HIDE DEF Moved
<1>13. ChunksNeeded(args) = len + ChunksNeeded(rest)
  BY <1>2, <1>8, <1>9, <1>11, <1>12
<1> QED BY <1>13 DEF len, rest

-----------------------------------------------------------------------------
(***************************************************************************)
(* The counting pass of createMessage: what it counts, and when it counts  *)
(* the arguments it was given.                                             *)
(***************************************************************************)

\* Arguments start at later words than the arguments before them.
LEMMA WordOrder ==
    ASSUME NEW args \in Seq(Params), NEW j \in 1 .. Len(args), NEW k \in 1 .. Len(args), j < k
    PROVE  WordOf(args, j) < WordOf(args, k)
<1> DEFINE Before(n) == {m \in 1 .. n - 1 : args[m].type = "f"}
<1>1. j \in Int /\ k \in Int
  BY LenProperties
<1>2. IsFiniteSet(1 .. k - 1)
  BY <1>1, FS_Interval
<1>3. Before(k) \in SUBSET (1 .. k - 1) /\ Before(j) \in SUBSET Before(k)
  BY <1>1
<1>4. IsFiniteSet(Before(k))
  BY <1>2, <1>3, FS_Subset
<1>5. IsFiniteSet(Before(j)) /\ Cardinality(Before(j)) <= Cardinality(Before(k))
  BY <1>3, <1>4, FS_Subset
<1>6. Cardinality(Before(j)) \in Nat /\ Cardinality(Before(k)) \in Nat
  BY <1>4, <1>5, FS_CardinalityType
<1>7. WordOf(args, j) = j + Cardinality(Before(j)) /\ WordOf(args, k) = k + Cardinality(Before(k))
  BY DEF WordOf
<1> HIDE DEF Before
<1> QED BY <1>1, <1>5, <1>6, <1>7

\* Whatever it reads, it counts a natural number for each argument.
LEMMA CountedAtType ==
    ASSUME NEW args \in Seq(Params), NEW wild \in [Wild(args) -> 0 .. MaxWild],
           NEW k \in 1 .. Len(args)
    PROVE  CountedAt(args, wild, k) \in Nat
<1>1. CASE k \notin StringsOf(args)
  BY <1>1 DEF CountedAt
<1>2. CASE k \in Wild(args)
  BY <1>2, MessageAssumption DEF CountedAt, Wild
<1>3. CASE k \in StringsOf(args) /\ k \notin Wild(args)
  <2> DEFINE n == CHOOSE n \in Found(args, k) : TRUE
  <2>1. n \in Found(args, k)
    BY <1>3 DEF Wild
  <2>2. n \in 1 .. Len(args) /\ args[n].type = "s"
    BY <2>1 DEF Found, StringsOf
  <2>3. args[n] \in Params
    BY <2>2, ElementOfSeq
  <2>4. Len(ChunksOf(args[n])) \in Nat /\ ChunksOf(args[n]) = args[n].val
    BY <2>2, <2>3, ClientChunks DEF ChunksOf
  <2>5. CountedAt(args, wild, k) = Len(args[n].val)
    BY <1>3 DEF CountedAt, StringRead
  <2> QED BY <2>4, <2>5
<1> QED BY <1>1, <1>2, <1>3

\* What the counting pass counts, cell by cell.
CountedCells(args, wild) == UNION {{k} \X (1 .. CountedAt(args, wild, k)) : k \in 1 .. Len(args)}

LEMMA CountedCellsFinite ==
    ASSUME NEW args \in Seq(Params), NEW wild \in [Wild(args) -> 0 .. MaxWild]
    PROVE  /\ IsFiniteSet(CountedCells(args, wild))
           /\ ChunksCounted(args, wild) = Cardinality(CountedCells(args, wild))
           /\ ChunksCounted(args, wild) \in Nat
<1> DEFINE Piece(k) == {k} \X (1 .. CountedAt(args, wild, k))
           Pieces == {Piece(k) : k \in 1 .. Len(args)}
           f == [k \in 1 .. Len(args) |-> Piece(k)]
<1>1. Len(args) \in Nat
  BY LenProperties
<1>2. IsFiniteSet(1 .. Len(args))
  BY <1>1, FS_Interval
<1>3. f \in Surjection(1 .. Len(args), Pieces)
  BY DEF Surjection
<1>4. IsFiniteSet(Pieces)
  BY <1>2, <1>3, FS_Surjection
<1>5. ASSUME NEW k \in 1 .. Len(args)
      PROVE  IsFiniteSet(Piece(k))
  <2>1. CountedAt(args, wild, k) \in Nat
    BY CountedAtType
  <2>2. IsFiniteSet(1 .. CountedAt(args, wild, k))
    BY <2>1, FS_Interval
  <2>3. IsFiniteSet({k})
    BY FS_Singleton
  <2> QED BY <2>2, <2>3, FS_Product
<1>6. IsFiniteSet(UNION Pieces)
  <2>1. \A T \in Pieces : IsFiniteSet(T)
    BY <1>5
  <2> HIDE DEF Pieces
  <2> QED BY <1>4, <2>1, FS_UNION
<1>7. IsFiniteSet(CountedCells(args, wild))
  BY <1>6 DEF CountedCells
<1> QED BY <1>7, FS_CardinalityType DEF ChunksCounted, CountedCells

\* Where every string starts at the word of its own number, the pass counts
\* what the arguments need.
LEMMA CountedRight ==
    ASSUME NEW args \in Seq(Params), NEW wild \in [Wild(args) -> 0 .. MaxWild],
           \A k \in StringsOf(args) : WordOf(args, k) = k
    PROVE  ChunksCounted(args, wild) = ChunksNeeded(args)
<1>1. ASSUME NEW k \in 1 .. Len(args)
      PROVE  CountedAt(args, wild, k) = Len(ChunksOf(args[k]))
  <2>1. CASE k \notin StringsOf(args)
    <3>1. ChunksOf(args[k]) = <<args[k].val>>
      BY <2>1 DEF StringsOf, ChunksOf
    <3> QED BY <2>1, <3>1 DEF CountedAt
  <2>2. CASE k \in StringsOf(args)
    <3>1. k \in Found(args, k)
      BY <2>2 DEF Found
    <3>2. ASSUME NEW n \in Found(args, k) PROVE n = k
      <4>1. n \in 1 .. Len(args) /\ WordOf(args, n) = k /\ WordOf(args, n) = n
        BY <3>2 DEF Found, StringsOf
      <4> QED BY <4>1
    <3>3. (CHOOSE n \in Found(args, k) : TRUE) = k
      BY <3>1, <3>2
    <3>4. k \notin Wild(args) /\ args[k].type = "s"
      BY <2>2, <3>1 DEF Wild, StringsOf
    <3>5. StringRead(args, k) = args[k].val
      BY <3>3 DEF StringRead
    <3>6. ChunksOf(args[k]) = args[k].val
      BY <3>4 DEF ChunksOf
    <3> QED BY <2>2, <3>4, <3>5, <3>6 DEF CountedAt
  <2> QED BY <2>1, <2>2
<1>2. {{k} \X (1 .. CountedAt(args, wild, k)) : k \in 1 .. Len(args)}
        = {{i} \X (1 .. Len(ChunksOf(args[i]))) : i \in 1 .. Len(args)}
  BY <1>1
<1> QED BY <1>2 DEF ChunksCounted, ChunksNeeded

\* Where the list needs a chunk the pass counts one: a float counts, and
\* without any float nothing is misread.
LEMMA CountedOne ==
    ASSUME NEW args \in Seq(Params), NEW wild \in [Wild(args) -> 0 .. MaxWild],
           ChunksNeeded(args) >= 1
    PROVE  ChunksCounted(args, wild) >= 1
<1>1. CASE \E k \in 1 .. Len(args) : args[k].type = "f"
  <2>1. PICK k \in 1 .. Len(args) : args[k].type = "f"
    BY <1>1
  <2>2. CountedAt(args, wild, k) = 1
    BY <2>1 DEF CountedAt, StringsOf
  <2>3. <<k, 1>> \in {k} \X (1 .. CountedAt(args, wild, k))
    BY <2>2
  <2>4. <<k, 1>> \in CountedCells(args, wild)
    BY <2>3 DEF CountedCells
  <2>5. Cardinality(CountedCells(args, wild)) # 0
    BY <2>4, CountedCellsFinite, FS_EmptySet
  <2> QED BY <2>5, CountedCellsFinite
<1>2. CASE \A k \in 1 .. Len(args) : args[k].type # "f"
  <2>1. ASSUME NEW k \in StringsOf(args) PROVE WordOf(args, k) = k
    <3>1. k \in 1 .. Len(args) /\ Len(args) \in Nat
      BY LenProperties DEF StringsOf
    <3>2. \A m \in 1 .. k - 1 : m \in 1 .. Len(args)
      BY <3>1
    <3>3. {m \in 1 .. k - 1 : args[m].type = "f"} = {}
      BY <1>2, <3>2
    <3>4. Cardinality({m \in 1 .. k - 1 : args[m].type = "f"}) = 0
      BY <3>3, FS_EmptySet
    <3> QED BY <3>1, <3>4 DEF WordOf
  <2> QED BY <2>1, CountedRight
<1> QED BY <1>1, <1>2

-----------------------------------------------------------------------------
\* A non-empty set of naturals has a smallest element, and Min returns it.
LEMMA MinOfNaturals ==
    ASSUME NEW S \in SUBSET Nat, S # {}
    PROVE  Min(S) \in S /\ \A k \in S : Min(S) <= k
<1> DEFINE R == OpToRel(<, Nat)
<1>1. IsWellFoundedOn(R, Nat)
  BY NatLessThanWellFounded
<1>2. R = {ss \in Nat \X Nat : ss[1] < ss[2]}
  BY DEF OpToRel
<1>3. PICK k \in S : \A j \in S : <<j, k>> \notin R
  <2> HIDE DEF R
  <2> QED BY <1>1, WFMin
<1>4. \A j \in S : k <= j
  <2> HIDE DEF R
  <2>1. SUFFICES ASSUME NEW j \in S PROVE ~(j < k)
    OBVIOUS
  <2>2. <<j, k>> \notin R
    BY <1>3
  <2> QED BY <1>2, <2>2
<1> QED BY <1>3, <1>4 DEF Min

\* getString returns a sequence, whatever the chunks it is assembled from hold.
LEMMA GetStringLength ==
    ASSUME NEW m, NEW num, m.mNumChunks \in Nat
    PROVE  Len(getString(m, num)) \in Nat
<1> DEFINE found == Matches(m, num)
           n == Cardinality(found)
           raw == [k \in 1 .. n |-> m.mParams[Min(found) + k - 1].mData]
           Data == {raw[k] : k \in 1 .. n}
           ends == {k \in 1 .. Len(raw) : raw[k] \in TailChunks}
<1>1. n \in Nat
  <2>1. IsFiniteSet(0 .. m.mNumChunks - 1)
    BY FS_Interval
  <2>2. found \in SUBSET (0 .. m.mNumChunks - 1)
    BY DEF Matches
  <2>3. IsFiniteSet(found)
    BY <2>1, <2>2, FS_Subset
  <2> QED BY <2>3, FS_CardinalityType
<1>2. raw \in Seq(Data) /\ Len(raw) = n
  <2> HIDE DEF n
  <2>1. raw \in [1 .. n -> Data]
    OBVIOUS
  <2> HIDE DEF raw, Data
  <2>2. raw \in Seq(Data)
    BY <1>1, <2>1, SeqDef
  <2> QED BY <1>1, <2>1, <2>2, LenProperties
<1>3. Len(CutAtNul(raw)) \in Nat
  <2>1. CASE ends = {}
    BY <1>1, <1>2, <2>1 DEF CutAtNul
  <2>2. CASE ends # {}
    <3>1. Min(ends) \in ends
      <4>1. ends \in SUBSET Nat
        BY <1>1, <1>2
      <4> HIDE DEF ends
      <4> QED BY <2>2, <4>1, MinOfNaturals
    <3>2. Min(ends) \in 1 .. Len(raw)
      BY <3>1
    <3> HIDE DEF ends, raw, n
    <3>3. Len(SubSeq(raw, 1, Min(ends))) \in Nat
      BY <1>1, <1>2, <3>2
    <3> USE DEF ends
    <3> QED BY <2>2, <3>3 DEF CutAtNul
  <2> QED BY <2>1, <2>2
<1>4. CASE found = {}
  BY <1>4 DEF getString
<1>5. CASE found # {}
  BY <1>3, <1>5 DEF getString
<1> QED BY <1>4, <1>5

\* So does every parameter a copy reads from its source.
LEMMA CopiedChunks ==
    ASSUME IsMessage(src)
    PROVE  Len(ChunksOf(ReadParam(src, next))) \in Nat
<1>1. src.mNumChunks \in Nat
  BY DEF IsMessage
<1>2. CASE getParamType(src, next) = "s"
  <2>1. ChunksOf(ReadParam(src, next)) = getString(src, next)
    BY <1>2 DEF ReadParam, ChunksOf
  <2> QED BY <1>1, <2>1, GetStringLength
<1>3. CASE getParamType(src, next) # "s"
  BY <1>3 DEF ReadParam, ChunksOf
<1> QED BY <1>2, <1>3

\* A record of an array and three naturals is a message.
LEMMA MessageRecord ==
    ASSUME NEW a, a = [k \in DOMAIN a |-> a[k]],
           NEW params \in Nat, NEW used \in Nat, NEW room \in Nat
    PROVE  IsMessage([mParams |-> a, mNumParam |-> params, mNumChunks |-> used, mMaxChunks |-> room])
  BY DEF IsMessage

LEMMA NewMessageType ==
    ASSUME NEW n \in Nat, NEW j
    PROVE  IsMessage(NewMessage(n, j)) /\ IsArray(NewMessage(n, j).mParams, n)
  BY DEF NewMessage, IsMessage, IsArray

MessageInv == TypeOK /\ ChunksFit

\* Starting to add a parameter of any number of chunks keeps the invariant:
\* either they fit, or the add goes on to increaseSize.
LEMMA StartAddInv ==
    ASSUME MessageInv, NEW p, Len(ChunksOf(p)) \in Nat, pc \in {"ready", "copy"}, StartAdd(p)
    PROVE  /\ IsMessage(msg')
           /\ pc' \in {"double", "store"}
           /\ pc' # "double" => IsArray(msg'.mParams, msg'.mMaxChunks)
           /\ pc' = "double" => \E n \in 0 .. msg'.mMaxChunks : IsArray(msg'.mParams, n)
           /\ pc' # "double" => msg'.mNumChunks <= msg'.mMaxChunks
<1>1. IsMessage(msg) /\ IsArray(msg.mParams, msg.mMaxChunks)
  BY DEF MessageInv, TypeOK
<1>2. /\ msg'.mParams = msg.mParams
      /\ msg'.mMaxChunks = msg.mMaxChunks
      /\ msg'.mNumChunks = msg.mNumChunks + Len(ChunksOf(p))
      /\ msg' = [mParams |-> msg.mParams, mNumParam |-> msg.mNumParam,
                 mNumChunks |-> msg.mNumChunks + Len(ChunksOf(p)),
                 mMaxChunks |-> msg.mMaxChunks]
  BY <1>1 DEF StartAdd, IsMessage
<1>3. IsMessage(msg')
  <2>1. /\ msg.mParams = [k \in DOMAIN msg.mParams |-> msg.mParams[k]]
        /\ msg.mNumParam \in Nat
        /\ msg.mNumChunks + Len(ChunksOf(p)) \in Nat
        /\ msg.mMaxChunks \in Nat
    BY <1>1 DEF IsMessage
  <2> QED BY <1>2, <2>1, MessageRecord
<1>4. /\ pc' = IF msg'.mNumChunks > msg'.mMaxChunks THEN "double" ELSE "store"
      /\ msg'.mNumChunks \in Nat /\ msg'.mMaxChunks \in Nat
  BY <1>2, <1>3 DEF StartAdd, IsMessage
<1>5. IsArray(msg'.mParams, msg'.mMaxChunks)
  BY <1>1, <1>2
<1>6. msg'.mMaxChunks \in 0 .. msg'.mMaxChunks
  BY <1>4
<1>7. pc' # "double" => msg'.mNumChunks <= msg'.mMaxChunks
  BY <1>4
<1> QED BY <1>3, <1>4, <1>5, <1>6, <1>7

LEMMA InitInv == Init => MessageInv
<1> SUFFICES ASSUME Init PROVE MessageInv
  OBVIOUS
<1>1. PICK j \in Junk : msg = NewMessage(START_CHUNK_NUM, j)
  BY DEF Init
<1>2. START_CHUNK_NUM \in Nat
  BY MessageAssumption
<1>3. IsMessage(msg) /\ IsArray(msg.mParams, START_CHUNK_NUM)
  BY <1>1, <1>2, NewMessageType
<1>4. IsMessage(src)
  BY NewMessageType DEF Init
<1>5. msg.mMaxChunks = START_CHUNK_NUM /\ msg.mNumChunks = 0
  BY <1>1 DEF NewMessage
<1>6. todo \in Seq(Params)
  BY EmptySeq DEF Init
<1> QED BY <1>2, <1>3, <1>4, <1>5, <1>6 DEF Init, MessageInv, TypeOK, ChunksFit

LEMMA NextInv == MessageInv /\ [Next]_vars => MessageInv'
<1> SUFFICES ASSUME MessageInv, [Next]_vars PROVE MessageInv'
  OBVIOUS
<1> USE DEF MessageInv
<1>1. ASSUME NEW p \in Params, addScalar(p) PROVE MessageInv'
  BY <1>1, ClientChunks, StartAddInv DEF addScalar, ClientMayAdd, TypeOK, ChunksFit
<1>2. CASE addInt
  <2>1. PICK i \in Ints : addScalar([type |-> "i", val |-> i])
    BY <1>2 DEF addInt
  <2> QED BY <1>1, <2>1 DEF Params, Scalars
<1>3. CASE addFloat
  <2>1. PICK f \in Floats : addScalar([type |-> "f", val |-> f])
    BY <1>3 DEF addFloat
  <2> QED BY <1>1, <2>1 DEF Params, Scalars
<1>4. CASE addGameObject
  <2>1. PICK g \in Objects : addScalar([type |-> "g", val |-> g])
    BY <1>4 DEF addGameObject
  <2> QED BY <1>1, <2>1 DEF Params, Scalars
<1>5. CASE addString
  <2>1. PICK s \in Strings : StartAdd([type |-> "s", val |-> s])
    BY <1>5 DEF addString
  <2>2. [type |-> "s", val |-> s] \in Params
    BY DEF Params, Scalars
  <2> QED BY <1>5, <2>1, <2>2, ClientChunks, StartAddInv DEF addString, ClientMayAdd, TypeOK, ChunksFit
<1>6. CASE Double
  <2>1. IsMessage(msg)
    BY DEF TypeOK
  <2>2. msg' = [mParams |-> msg.mParams, mNumParam |-> msg.mNumParam,
                mNumChunks |-> msg.mNumChunks, mMaxChunks |-> 2 * msg.mMaxChunks]
    BY <1>6, <2>1 DEF Double, IsMessage
  <2>3. IsMessage(msg')
    BY <2>1, <2>2 DEF IsMessage
  <2>4. PICK n \in 0 .. msg.mMaxChunks : IsArray(msg.mParams, n)
    BY <1>6 DEF Double, TypeOK
  <2>5. n \in 0 .. msg'.mMaxChunks /\ IsArray(msg'.mParams, n)
    BY <2>1, <2>2, <2>4 DEF IsMessage
  <2> QED BY <1>6, <2>3, <2>5 DEF Double, TypeOK, ChunksFit
<1>7. CASE Reallocate
  <2>1. IsMessage(msg)
    BY DEF TypeOK
  <2>2. PICK j \in Junk :
          msg' = [msg EXCEPT !.mParams =
                    [k \in 0 .. msg.mMaxChunks - 1 |->
                       IF k < msg.mNumChunks - 1 /\ k \in DOMAIN msg.mParams
                       THEN msg.mParams[k] ELSE j]]
    BY <1>7 DEF Reallocate, ReallocateWith
  <2>3. /\ msg'.mNumChunks = msg.mNumChunks
        /\ msg'.mMaxChunks = msg.mMaxChunks
        /\ IsArray(msg'.mParams, msg'.mMaxChunks)
        /\ IsMessage(msg')
    BY <2>1, <2>2 DEF IsMessage, IsArray
  <2> QED BY <1>7, <2>3 DEF Reallocate, ReallocateWith, TypeOK, ChunksFit
<1>8. CASE Store
  <2>1. IsMessage(msg) /\ IsArray(msg.mParams, msg.mMaxChunks)
    BY <1>8 DEF Store, TypeOK
  <2> DEFINE stored == [n \in DOMAIN msg.mParams |->
                IF StoredAt(arg, n) = {} THEN msg.mParams[n]
                ELSE DataItem(arg.type, ChunksOf(arg)[Max(StoredAt(arg, n))], msg.mNumParam)]
  <2>2. /\ DOMAIN stored = DOMAIN msg.mParams
        /\ stored = [k \in DOMAIN stored |-> stored[k]]
    OBVIOUS
  <2>3. msg' = [msg EXCEPT !.mNumParam = @ + 1, !.mParams = stored]
    BY <1>8 DEF Store
  <2> HIDE DEF stored
  <2>4. msg' = [mParams |-> stored, mNumParam |-> msg.mNumParam + 1,
                mNumChunks |-> msg.mNumChunks, mMaxChunks |-> msg.mMaxChunks]
    BY <2>1, <2>3 DEF IsMessage
  <2>5. msg.mNumParam + 1 \in Nat /\ msg.mNumChunks \in Nat /\ msg.mMaxChunks \in Nat
    BY <2>1 DEF IsMessage
  <2>6. IsMessage(msg')
    BY <2>2, <2>4, <2>5, MessageRecord
  <2>7. /\ msg'.mNumChunks = msg.mNumChunks
        /\ msg'.mMaxChunks = msg.mMaxChunks
        /\ IsArray(msg'.mParams, msg'.mMaxChunks)
    BY <2>1, <2>2, <2>4 DEF IsArray
  <2> QED BY <1>8, <2>6, <2>7 DEF Store, TypeOK, ChunksFit
<1>9. CASE createMessage
  <2>0. PICK args \in CreateArgs : \E wild \in [Wild(args) -> 0 .. MaxWild], j \in Junk :
          msg' = NewMessage(ChunksCounted(args, wild), j) /\ todo' = args
    BY <1>9 DEF createMessage
  <2>1. PICK wild \in [Wild(args) -> 0 .. MaxWild], j \in Junk :
          msg' = NewMessage(ChunksCounted(args, wild), j) /\ todo' = args
    BY <2>0
  <2>2. args \in Seq(Params)
    BY MessageAssumption
  <2>3. ChunksCounted(args, wild) \in Nat
    BY <2>2, CountedCellsFinite
  <2>4. IsMessage(msg') /\ IsArray(msg'.mParams, ChunksCounted(args, wild))
    BY <2>1, <2>3, NewMessageType
  <2>5. msg'.mMaxChunks = ChunksCounted(args, wild) /\ msg'.mNumChunks = 0
    BY <2>1 DEF NewMessage
  <2>6. pc' \in {"ready", "undefined"} /\ counted' \in BOOLEAN
    BY <1>9 DEF createMessage
  <2> QED BY <1>9, <2>1, <2>2, <2>3, <2>4, <2>5, <2>6 DEF createMessage, TypeOK, ChunksFit
<1>10. CASE AddNextArgument
  <2>1. Head(todo) \in Params /\ Tail(todo) \in Seq(Params)
    BY <1>10, HeadTailProperties DEF AddNextArgument, TypeOK
  <2>2. Len(ChunksOf(Head(todo))) \in Nat
    BY <2>1, ClientChunks
  <2> QED BY <1>10, <2>1, <2>2, StartAddInv DEF AddNextArgument, TypeOK, ChunksFit
<1>11. ASSUME NEW how \in {"push", "pop"}, StartCopy(how) PROVE MessageInv'
  <2>1. PICK j \in Junk : msg' = NewMessage(START_CHUNK_NUM, j)
    BY <1>11 DEF StartCopy
  <2>2. START_CHUNK_NUM \in Nat
    BY MessageAssumption
  <2>3. IsMessage(msg') /\ IsArray(msg'.mParams, START_CHUNK_NUM)
    BY <2>1, <2>2, NewMessageType
  <2>4. msg'.mMaxChunks = START_CHUNK_NUM /\ msg'.mNumChunks = 0
    BY <2>1 DEF NewMessage
  <2>5. IsMessage(src')
    BY <1>11 DEF StartCopy, TypeOK
  <2> QED BY <1>11, <2>2, <2>3, <2>4, <2>5 DEF StartCopy, TypeOK, ChunksFit
<1>12. CASE CopyParam
  <2>1. CASE StartAdd(ReadParam(src, next))
    <3>1. IsMessage(src)
      BY DEF TypeOK
    <3>2. Len(ChunksOf(ReadParam(src, next))) \in Nat
      BY <3>1, CopiedChunks
    <3> QED BY <1>12, <2>1, <3>2, StartAddInv DEF CopyParam, TypeOK, ChunksFit
  <2>2. CASE UNCHANGED <<msg, arg, pc>>
    BY <1>12, <2>2 DEF CopyParam, TypeOK, ChunksFit
  <2> QED BY <1>12, <2>1, <2>2 DEF CopyParam
<1>13. CASE EndCopy
  <2>1. IsMessage(src')
    BY <1>13, NewMessageType DEF EndCopy
  <2> QED BY <1>13, <2>1 DEF EndCopy, TypeOK, ChunksFit
<1>14. CASE StorePast \/ UNCHANGED vars
  BY <1>14 DEF StorePast, vars, TypeOK, ChunksFit
<1> QED
  BY <1>2, <1>3, <1>4, <1>5, <1>6, <1>7, <1>8, <1>9, <1>10, <1>11, <1>12, <1>13, <1>14
  DEF Next, AddStep, CopyStep, push_Message, pop_Message

\* Every state of a message is well formed: outside increaseSize its array has
\* mMaxChunks items.
THEOREM MessageTypeOK == Spec => []TypeOK
<1>1. MessageInv => TypeOK
  BY DEF MessageInv
<1> QED BY <1>1, InitInv, NextInv, PTL DEF Spec

\* The getters' loops over mNumChunks items never leave the array, however the
\* message was created, filled, grown and copied.
THEOREM MessageChunksFit == Spec => []ChunksFit
<1>1. MessageInv => ChunksFit
  BY DEF MessageInv
<1> QED BY <1>1, InitInv, NextInv, PTL DEF Spec

\* While createMessage adds its arguments, what is counted and what the
\* arguments still to come need make up the capacity exactly; so no add reaches
\* increaseSize.
CreateExact ==
    (mode = "create" /\ counted) =>
        /\ pc \in {"ready", "store", "undefined"}
        /\ msg.mNumChunks + ChunksNeeded(todo) = msg.mMaxChunks

LEMMA NextExact == MessageInv /\ CreateExact /\ [Next]_vars => CreateExact'
<1> SUFFICES ASSUME MessageInv, CreateExact, [Next]_vars, mode' = "create", counted'
             PROVE  /\ pc' \in {"ready", "store", "undefined"}
                    /\ msg'.mNumChunks + ChunksNeeded(todo') = msg'.mMaxChunks
  BY DEF CreateExact
<1>1. IsMessage(msg) /\ todo \in Seq(Params)
  BY DEF MessageInv, TypeOK
<1>2. CASE addInt \/ addFloat \/ addGameObject \/ addString
  BY <1>2 DEF addInt, addFloat, addGameObject, addString, addScalar
<1>3. CASE Double \/ Reallocate
  BY <1>3 DEF Double, Reallocate, ReallocateWith, CreateExact
<1>4. CASE Store
  <2>1. msg'.mNumChunks = msg.mNumChunks /\ msg'.mMaxChunks = msg.mMaxChunks
    BY <1>1, <1>4 DEF Store, IsMessage
  <2> QED BY <1>4, <2>1 DEF Store, CreateExact
<1>5. CASE createMessage
  <2>0. PICK args \in CreateArgs : \E wild \in [Wild(args) -> 0 .. MaxWild], j \in Junk :
          /\ msg' = NewMessage(ChunksCounted(args, wild), j) /\ todo' = args
          /\ counted' = (\A k \in StringsOf(args) : WordOf(args, k) = k)
    BY <1>5 DEF createMessage
  <2>1. PICK wild \in [Wild(args) -> 0 .. MaxWild], j \in Junk :
          /\ msg' = NewMessage(ChunksCounted(args, wild), j) /\ todo' = args
          /\ counted' = (\A k \in StringsOf(args) : WordOf(args, k) = k)
    BY <2>0
  <2>2. args \in Seq(Params)
    BY MessageAssumption
  <2>3. ChunksCounted(args, wild) = ChunksNeeded(args) /\ ChunksNeeded(args) \in Nat
    BY <2>1, <2>2, CountedRight, ChunksNeededType
  <2>4. msg'.mNumChunks = 0 /\ msg'.mMaxChunks = ChunksCounted(args, wild)
    BY <2>1 DEF NewMessage
  <2>5. pc' \in {"ready", "undefined"}
    BY <1>5 DEF createMessage
  <2> QED BY <2>1, <2>3, <2>4, <2>5
<1>6. CASE AddNextArgument
  <2> DEFINE len == Len(ChunksOf(Head(todo)))
  <2>1. todo # <<>> /\ todo' = Tail(todo) /\ StartAdd(Head(todo)) /\ mode = "create" /\ counted
    BY <1>6 DEF AddNextArgument
  <2>2. ChunksNeeded(todo) = len + ChunksNeeded(Tail(todo))
    BY <1>1, <2>1, ChunksNeededHead
  <2>3. Head(todo) \in Params /\ Tail(todo) \in Seq(Params)
    BY <1>1, <2>1, HeadTailProperties
  <2>4. len \in Nat /\ ChunksNeeded(Tail(todo)) \in Nat
    BY <2>3, ClientChunks, ChunksNeededType
  <2>5. /\ msg.mNumChunks \in Nat /\ msg.mMaxChunks \in Nat
        /\ msg'.mNumChunks = msg.mNumChunks + len
        /\ msg'.mMaxChunks = msg.mMaxChunks
        /\ pc' = IF msg.mNumChunks + len > msg.mMaxChunks THEN "double" ELSE "store"
    BY <1>1, <2>1 DEF StartAdd, IsMessage
  <2>6. msg.mNumChunks + ChunksNeeded(todo) = msg.mMaxChunks
    BY <2>1 DEF CreateExact
  <2> HIDE DEF len
  <2>7. msg.mNumChunks + len <= msg.mMaxChunks
    BY <2>2, <2>4, <2>5, <2>6
  <2> QED BY <2>1, <2>2, <2>4, <2>5, <2>6, <2>7
<1>7. CASE push_Message \/ pop_Message
  BY <1>7 DEF push_Message, pop_Message, StartCopy
<1>8. CASE CopyParam \/ EndCopy
  BY <1>8 DEF CopyParam, EndCopy, CreateExact
<1>9. CASE StorePast \/ UNCHANGED vars
  BY <1>9 DEF StorePast, vars, CreateExact
<1> QED BY <1>2, <1>3, <1>4, <1>5, <1>6, <1>7, <1>8, <1>9 DEF Next, AddStep, CopyStep

\* createMessage never reallocates where its counting pass reads the strings it
\* was given: the pass and the add methods then agree on how many chunks a
\* parameter takes.
THEOREM MessageCreateNeverGrows == Spec => []CreateNeverGrows
<1>1. Init => CreateExact
  BY DEF Init, CreateExact
<1>2. CreateExact => CreateNeverGrows
  BY DEF CreateExact, CreateNeverGrows
<1> QED BY <1>1, <1>2, InitInv, NextInv, NextExact, PTL DEF Spec

-----------------------------------------------------------------------------
(***************************************************************************)
(* increaseSize ends unless the message has no capacity at all.            *)
(***************************************************************************)
HasCapacity == msg.mMaxChunks >= 1

LEMMA NextCapacity ==
    ASSUME \A args \in CreateArgs : ChunksNeeded(args) >= 1
    PROVE  MessageInv /\ HasCapacity /\ [Next]_vars => HasCapacity'
<1> SUFFICES ASSUME MessageInv, HasCapacity, [Next]_vars PROVE msg'.mMaxChunks >= 1
  BY DEF HasCapacity
<1>1. IsMessage(msg) /\ msg.mMaxChunks \in Nat /\ msg.mMaxChunks >= 1
  BY DEF MessageInv, TypeOK, IsMessage, HasCapacity
<1>2. ASSUME NEW p, StartAdd(p) PROVE msg'.mMaxChunks = msg.mMaxChunks
  BY <1>1, <1>2 DEF StartAdd, IsMessage
<1>3. CASE addInt \/ addFloat \/ addGameObject \/ addString \/ AddNextArgument
  BY <1>1, <1>2, <1>3 DEF addInt, addFloat, addGameObject, addString, addScalar, AddNextArgument
<1>4. CASE Double
  BY <1>1, <1>4 DEF Double, IsMessage
<1>5. CASE Reallocate
  BY <1>1, <1>5 DEF Reallocate, ReallocateWith, IsMessage
<1>6. CASE Store
  BY <1>1, <1>6 DEF Store, IsMessage
<1>7. CASE createMessage
  <2>0. PICK args \in CreateArgs : \E wild \in [Wild(args) -> 0 .. MaxWild], j \in Junk :
          msg' = NewMessage(ChunksCounted(args, wild), j)
    BY <1>7 DEF createMessage
  <2>1. PICK wild \in [Wild(args) -> 0 .. MaxWild], j \in Junk :
          msg' = NewMessage(ChunksCounted(args, wild), j)
    BY <2>0
  <2>2. args \in Seq(Params)
    BY MessageAssumption
  <2> QED BY <2>1, <2>2, CountedOne DEF NewMessage
<1>8. CASE push_Message \/ pop_Message
  <2>1. PICK j \in Junk : msg' = NewMessage(START_CHUNK_NUM, j)
    BY <1>8 DEF push_Message, pop_Message, StartCopy
  <2> QED BY <2>1, MessageAssumption DEF NewMessage
<1>9. CASE CopyParam
  BY <1>1, <1>2, <1>9 DEF CopyParam
<1>10. CASE EndCopy \/ StorePast \/ UNCHANGED vars
  BY <1>1, <1>10 DEF EndCopy, StorePast, vars
<1> QED
  BY <1>3, <1>4, <1>5, <1>6, <1>7, <1>8, <1>9, <1>10 DEF Next, AddStep, CopyStep

\* What the capacity lacks of the count while increaseSize doubles it.
Missing == msg.mNumChunks - msg.mMaxChunks

\* Each round of increaseSize brings the capacity closer to the count, and the
\* array is replaced once it is there; so the loop ends, and with it the add, if
\* every argument list that createMessage gets needs a chunk (a capacity of 0 is
\* doubled for ever).
THEOREM MessageDoublingEnds ==
    ASSUME \A args \in CreateArgs : ChunksNeeded(args) >= 1
    PROVE  Spec => [][(pc = "double" /\ pc' = "double") => Missing > 0 /\ Missing' < Missing]_vars
<1>1. Init => HasCapacity
  <2> SUFFICES ASSUME Init PROVE HasCapacity
    OBVIOUS
  <2>1. PICK j \in Junk : msg = NewMessage(START_CHUNK_NUM, j)
    BY DEF Init
  <2> QED BY <2>1, MessageAssumption DEF NewMessage, HasCapacity
<1>2. MessageInv /\ HasCapacity /\ [Next]_vars
        => [(pc = "double" /\ pc' = "double") => Missing > 0 /\ Missing' < Missing]_vars
  <2> SUFFICES ASSUME MessageInv, HasCapacity, [Next]_vars,
                      pc = "double", pc' = "double", ~UNCHANGED vars
               PROVE  Missing > 0 /\ Missing' < Missing
    OBVIOUS
  <2>1. Double
    BY DEF Next, addInt, addFloat, addGameObject, addString, addScalar, ClientMayAdd, AddStep,
           Reallocate, ReallocateWith, Store, StorePast, createMessage, AddNextArgument,
           push_Message, pop_Message, StartCopy, CopyStep, CopyParam, EndCopy
  <2>2. IsMessage(msg) /\ msg.mMaxChunks \in Nat /\ msg.mMaxChunks >= 1 /\ msg.mNumChunks \in Nat
    BY DEF MessageInv, TypeOK, IsMessage, HasCapacity
  <2>3. /\ msg.mNumChunks > msg.mMaxChunks
        /\ msg'.mNumChunks = msg.mNumChunks
        /\ msg'.mMaxChunks = 2 * msg.mMaxChunks
    BY <2>1, <2>2 DEF Double, IsMessage
  <2> QED BY <2>2, <2>3 DEF Missing
<1>3. MessageInv /\ HasCapacity /\ [Next]_vars => HasCapacity'
  BY NextCapacity
<1> QED BY <1>1, <1>2, <1>3, InitInv, NextInv, PTL DEF Spec

-----------------------------------------------------------------------------
(***************************************************************************)
(* What a message holds.  Laid(m, s, c, off): the parameters s lie one     *)
(* after the other in the first c items of m, the p-th from off[p] on,     *)
(* each item carrying its parameter's type, number and piece.              *)
(***************************************************************************)
Size(p) == Len(ChunksOf(p))

\* The ranges off[p] .. off[p] + Size(s[p]) - 1 are non-empty, do not overlap
\* and leave no gap below c.
Tiles(s, c, off) ==
    /\ off \in [1 .. Len(s) + 1 -> Nat]
    /\ off[Len(s) + 1] = c
    /\ \A p \in 1 .. Len(s) : Size(s[p]) >= 1
    /\ \A p \in 1 .. Len(s), q \in 1 .. Len(s) + 1 : p < q => off[p] + Size(s[p]) <= off[q]
    /\ \A i \in 0 .. c - 1 : \E p \in 1 .. Len(s) : off[p] <= i /\ i < off[p] + Size(s[p])

Items(m, s, off) ==
    \A p \in 1 .. Len(s) : \A k \in 1 .. Size(s[p]) :
        /\ off[p] + k - 1 \in DOMAIN m.mParams
        /\ m.mParams[off[p] + k - 1] = DataItem(s[p].type, ChunksOf(s[p])[k], p - 1)

Laid(m, s, c, off) == m.mNumParam = Len(s) /\ Tiles(s, c, off) /\ Items(m, s, off)

Holds(m, s, c) == \E off \in [1 .. Len(s) + 1 -> Nat] : Laid(m, s, c, off)

\* What the message being filled holds between two adds, and while one runs.
Held ==
    IF mode \in {"push", "pop"}
    THEN Carried(sent, mode)[IF pc = "copy" THEN next ELSE next - 1]
    ELSE sent

CopyInv ==
    mode \in {"push", "pop"} =>
        /\ Holds(src, sent, src.mNumChunks)
        /\ Len(sent) <= ParamNumMod
        /\ next \in 0 .. Len(sent)

AddInv ==
    /\ pc \in {"ready", "copy"} => Holds(msg, Held, msg.mNumChunks)
    /\ (pc \in {"double", "store"} /\ ChunksOf(arg) # <<>>)
         => Holds(msg, Held, msg.mNumChunks - Size(arg))

\* The parameter being added: one a client or createMessage passes, or the one
\* of the source the copy has just read.
ArgInv ==
    pc \in {"double", "store"} =>
        /\ mode \in {"build", "create"} => arg \in Params
        /\ (mode \in {"push", "pop"} /\ intact) =>
              /\ next >= 1
              /\ arg = sent[next]
              /\ arg.type \in Copies(mode)

ReadInv ==
    /\ sent \in Seq(Params)
    /\ pc = "ready" => mode \in {"build", "create"}
    /\ pc = "copy" => mode \in {"push", "pop"}
    /\ ArgInv
    /\ intact => CopyInv /\ AddInv

\* The four kinds of parameters, and what a string may be.
LEMMA ParamShape ==
    ASSUME NEW p \in Params
    PROVE  /\ p = [type |-> p.type, val |-> p.val]
           /\ p.type \in {"i", "f", "g", "s"}
           /\ p.type = "s" => p.val \in Strings /\ IsString(p.val) /\ Len(p.val) \in Nat
           /\ Size(p) \in Nat
           /\ p.type # "s" => Size(p) = 1 /\ ChunksOf(p)[1] = p.val
           /\ p.type = "s" => ChunksOf(p) = p.val
<1>1. p = [type |-> p.type, val |-> p.val] /\ p.type \in {"i", "f", "g", "s"}
  BY DEF Params, Scalars
<1>2. ASSUME p.type = "s" PROVE p.val \in Strings /\ IsString(p.val) /\ Len(p.val) \in Nat
  <2>1. p.val \in Strings
    BY <1>2 DEF Params, Scalars
  <2>2. IsString(p.val)
    BY <2>1, MessageAssumption
  <2> QED BY <2>1, <2>2, LenProperties DEF IsString
<1>3. Size(p) \in Nat
  BY ClientChunks DEF Size
<1>4. p.type # "s" => Size(p) = 1 /\ ChunksOf(p)[1] = p.val
  BY DEF Size, ChunksOf
<1>5. p.type = "s" => ChunksOf(p) = p.val
  BY DEF ChunksOf
<1> QED BY <1>1, <1>2, <1>3, <1>4, <1>5

\* Min and Max return the only candidate.
LEMMA MinIs ==
    ASSUME NEW S \in SUBSET Int, NEW x \in S, \A y \in S : x <= y
    PROVE  Min(S) = x
<1>1. \E z \in S : \A y \in S : z <= y
  OBVIOUS
<1>2. Min(S) \in S /\ \A y \in S : Min(S) <= y
  BY <1>1 DEF Min
<1>3. Min(S) <= x /\ x <= Min(S) /\ Min(S) \in Int /\ x \in Int
  BY <1>2
<1> QED BY <1>3

LEMMA MaxOfOne ==
    ASSUME NEW x \in Int
    PROVE  Max({x}) = x
<1>1. \E z \in {x} : \A y \in {x} : z >= y
  OBVIOUS
<1> QED BY <1>1 DEF Max

\* The parameter that answers for a number is the first that carries it.
LEMMA FirstCarrier ==
    ASSUME NEW p \in Nat, p >= 1
    PROVE  /\ FirstOfNumber(p) \in 1 .. p
           /\ FirstOfNumber(p) <= ParamNumMod
           /\ (FirstOfNumber(p) - 1) % ParamNumMod = (p - 1) % ParamNumMod
           /\ p <= ParamNumMod => FirstOfNumber(p) = p
           /\ \A q \in Nat : (q >= 1 /\ (q - 1) % ParamNumMod = (p - 1) % ParamNumMod)
                               => FirstOfNumber(p) <= q
<1>1. ParamNumMod \in Nat \ {0}
  BY MessageAssumption
<1>2. ASSUME NEW x \in Nat
      PROVE  /\ x % ParamNumMod \in 0 .. ParamNumMod - 1
             /\ x % ParamNumMod <= x
             /\ x < ParamNumMod => x % ParamNumMod = x
  BY <1>1
<1>3. p - 1 \in Nat
  OBVIOUS
<1> DEFINE r == (p - 1) % ParamNumMod
<1>4. r \in 0 .. ParamNumMod - 1 /\ r <= p - 1 /\ (p - 1 < ParamNumMod => r = p - 1)
  BY <1>2, <1>3
<1>5. r \in Nat /\ r < ParamNumMod
  BY <1>1, <1>4
<1>6. r % ParamNumMod = r
  BY <1>2, <1>5
<1>7. FirstOfNumber(p) = r + 1
  BY DEF FirstOfNumber
<1>8. ASSUME NEW q \in Nat, q >= 1, (q - 1) % ParamNumMod = r
      PROVE  r + 1 <= q
  <2>1. q - 1 \in Nat
    BY <1>8
  <2>2. r <= q - 1
    BY <1>2, <1>8, <2>1
  <2> QED BY <1>5, <1>8, <2>2
<1> HIDE DEF r
<1>9. (FirstOfNumber(p) - 1) % ParamNumMod = r
  <2>1. FirstOfNumber(p) - 1 = r
    BY <1>5, <1>7
  <2> QED BY <1>6, <2>1
<1> USE DEF r
<1>10. \A q \in Nat : (q >= 1 /\ (q - 1) % ParamNumMod = r) => FirstOfNumber(p) <= q
  BY <1>7, <1>8
<1>11. FirstOfNumber(p) \in 1 .. p /\ FirstOfNumber(p) <= ParamNumMod
  BY <1>1, <1>4, <1>5, <1>7
<1>12. p <= ParamNumMod => FirstOfNumber(p) = p
  BY <1>1, <1>4, <1>7
<1> QED BY <1>9, <1>10, <1>11, <1>12

\* std::string(cString) does not cut a string a caller could pass.
LEMMA CutString ==
    ASSUME NEW s, IsString(s)
    PROVE  CutAtNul(s) = s
<1> DEFINE ends == {k \in 1 .. Len(s) : s[k] \in TailChunks}
<1>1. s \in Seq(FullChunks \cup TailChunks) /\ Len(s) \in Nat
  BY LenProperties DEF IsString
<1>2. ASSUME NEW k \in ends PROVE k = Len(s)
  <2>1. s[k] \notin FullChunks
    BY MessageAssumption
  <2>2. ~(k \in 1 .. Len(s) - 1)
    BY <2>1 DEF IsString
  <2> QED BY <1>1, <2>2
<1>3. CASE ends = {}
  BY <1>3 DEF CutAtNul
<1>4. CASE ends # {}
  <2>1. Len(s) \in ends /\ ends \in SUBSET Int
    BY <1>1, <1>2, <1>4
  <2>2. \A k \in ends : Len(s) <= k
    BY <1>1, <1>2
  <2>3. Min(ends) = Len(s)
    <3> HIDE DEF ends
    <3> QED BY <2>1, <2>2, MinIs
  <2>4. CutAtNul(s) = SubSeq(s, 1, Len(s))
    BY <1>4, <2>3 DEF CutAtNul
  <2> QED BY <1>1, <2>4, SubSeqFull
<1> QED BY <1>3, <1>4

\* n consecutive items from a on: how many, and which is the k-th.
LEMMA Interval ==
    ASSUME NEW a \in Nat, NEW n \in Nat
    PROVE  /\ Cardinality(a .. a + n - 1) = n
           /\ \A i \in a .. a + n - 1 : \E k \in 1 .. n : i = a + k - 1
           /\ \A k \in 1 .. n : a + k - 1 \in a .. a + n - 1
<1>1. a + n - 1 \in Int
  OBVIOUS
<1>2. Cardinality(a .. a + n - 1) = IF a > a + n - 1 THEN 0 ELSE (a + n - 1) - a + 1
  BY <1>1, FS_Interval
<1>3. ASSUME NEW i \in a .. a + n - 1 PROVE \E k \in 1 .. n : i = a + k - 1
  <2>1. i - a + 1 \in 1 .. n /\ i = a + (i - a + 1) - 1
    OBVIOUS
  <2> QED BY <2>1
<1>4. \A k \in 1 .. n : a + k - 1 \in a .. a + n - 1
  OBVIOUS
<1> QED BY <1>2, <1>3, <1>4

\* Item i belongs to a parameter whose number is the same byte as that of p.
Carries(s, off, p, i) ==
    \E q \in 1 .. Len(s) : \E k \in 1 .. Size(s[q]) :
        i = off[q] + k - 1 /\ (q - 1) % ParamNumMod = (p - 1) % ParamNumMod

\* The items counted that carry a parameter's number are those of the parameters
\* whose numbers are the same byte.
LEMMA MatchesOf ==
    ASSUME NEW m, NEW s \in Seq(Params), NEW off, m.mNumChunks \in Nat,
           Laid(m, s, m.mNumChunks, off), NEW p \in Nat, NEW i
    PROVE  i \in Matches(m, p - 1) <=> Carries(s, off, p, i)
<1>1. /\ Len(s) \in Nat
      /\ \A q \in 1 .. Len(s) : Size(s[q]) \in Nat
  <2>1. \A q \in 1 .. Len(s) : s[q] \in Params
    BY ElementOfSeq
  <2> QED BY <2>1, ParamShape, LenProperties
<1>2. /\ off \in [1 .. Len(s) + 1 -> Nat]
      /\ off[Len(s) + 1] = m.mNumChunks
      /\ \A q \in 1 .. Len(s), r \in 1 .. Len(s) + 1 : q < r => off[q] + Size(s[q]) <= off[r]
      /\ \A j \in 0 .. m.mNumChunks - 1 :
           \E q \in 1 .. Len(s) : off[q] <= j /\ j < off[q] + Size(s[q])
  BY DEF Laid, Tiles
<1>3. \A q \in 1 .. Len(s) : off[q] \in Nat /\ off[q] + Size(s[q]) <= m.mNumChunks
  <2> SUFFICES ASSUME NEW q \in 1 .. Len(s)
               PROVE  off[q] \in Nat /\ off[q] + Size(s[q]) <= m.mNumChunks
    OBVIOUS
  <2>1. q \in 1 .. Len(s) + 1 /\ Len(s) + 1 \in 1 .. Len(s) + 1 /\ q < Len(s) + 1
    BY <1>1
  <2> QED BY <1>2, <2>1
<1>4. ASSUME NEW q \in 1 .. Len(s), NEW k \in 1 .. Size(s[q])
      PROVE  /\ off[q] + k - 1 \in 0 .. m.mNumChunks - 1
             /\ m.mParams[off[q] + k - 1].mParamNum = (q - 1) % ParamNumMod
  <2>1. m.mParams[off[q] + k - 1] = DataItem(s[q].type, ChunksOf(s[q])[k], q - 1)
    BY DEF Laid, Items
  <2>2. m.mParams[off[q] + k - 1].mParamNum = (q - 1) % ParamNumMod
    BY <2>1 DEF DataItem
  <2>3. off[q] + k - 1 \in 0 .. m.mNumChunks - 1
    BY <1>1, <1>3
  <2> QED BY <2>2, <2>3
<1>5. ASSUME i \in Matches(m, p - 1)
      PROVE  \E q \in 1 .. Len(s) : \E k \in 1 .. Size(s[q]) :
               i = off[q] + k - 1 /\ (q - 1) % ParamNumMod = (p - 1) % ParamNumMod
  <2>1. i \in 0 .. m.mNumChunks - 1 /\ m.mParams[i].mParamNum = (p - 1) % ParamNumMod
    BY <1>5 DEF Matches
  <2>2. PICK q \in 1 .. Len(s) : off[q] <= i /\ i < off[q] + Size(s[q])
    BY <1>2, <2>1
  <2> DEFINE k == i - off[q] + 1
  <2>3. k \in 1 .. Size(s[q]) /\ i = off[q] + k - 1
    BY <1>1, <1>3, <2>1, <2>2
  <2> HIDE DEF k
  <2>4. (q - 1) % ParamNumMod = (p - 1) % ParamNumMod
    BY <1>4, <2>1, <2>3
  <2> QED BY <2>3, <2>4
<1>6. ASSUME NEW q \in 1 .. Len(s), NEW k \in 1 .. Size(s[q]),
             i = off[q] + k - 1, (q - 1) % ParamNumMod = (p - 1) % ParamNumMod
      PROVE  i \in Matches(m, p - 1)
  BY <1>4, <1>6 DEF Matches
<1> QED BY <1>5, <1>6 DEF Carries

\* What the getters find for a number is the parameter that answers for it:
\* its first item, and, when no two parameters share a number, all its items.
LEMMA ReadLaid ==
    ASSUME NEW m, NEW s \in Seq(Params), NEW off, m.mNumChunks \in Nat,
           Laid(m, s, m.mNumChunks, off), NEW p \in 1 .. Len(s),
           Len(s) <= ParamNumMod \/ s[FirstOfNumber(p)].type # "s"
    PROVE  /\ ReadParam(m, p - 1) = s[FirstOfNumber(p)]
           /\ getParamType(m, p - 1) = s[FirstOfNumber(p)].type
<1> DEFINE f == FirstOfNumber(p)
           found == Matches(m, p - 1)
<1>1. Len(s) \in Nat /\ p \in Nat /\ p >= 1
  BY LenProperties
<1>2. /\ f \in 1 .. Len(s)
      /\ (f - 1) % ParamNumMod = (p - 1) % ParamNumMod
      /\ \A q \in Nat : (q >= 1 /\ (q - 1) % ParamNumMod = (p - 1) % ParamNumMod) => f <= q
  BY <1>1, FirstCarrier
<1> HIDE DEF f
<1>0. f \in Int /\ f >= 1 /\ f <= Len(s)
  BY <1>1, <1>2
<1>3. /\ s[f] \in Params
      /\ \A q \in 1 .. Len(s) : Size(s[q]) \in Nat /\ Size(s[q]) >= 1
  <2>1. \A q \in 1 .. Len(s) : s[q] \in Params
    BY ElementOfSeq
  <2>2. \A q \in 1 .. Len(s) : Size(s[q]) >= 1
    BY DEF Laid, Tiles
  <2> QED BY <1>2, <2>1, <2>2, ParamShape
<1>4. /\ \A q \in 1 .. Len(s) + 1 : off[q] \in Nat
      /\ \A q \in 1 .. Len(s), r \in 1 .. Len(s) + 1 : q < r => off[q] + Size(s[q]) <= off[r]
  BY DEF Laid, Tiles
<1>14. off[f] \in Nat /\ Size(s[f]) \in Nat /\ Size(s[f]) >= 1 /\ 1 \in 1 .. Size(s[f])
  <2>1. f \in 1 .. Len(s) + 1
    BY <1>0, <1>1
  <2>2. off[f] \in Nat
    BY <1>4, <2>1
  <2> QED BY <1>2, <1>3, <2>2
<1>5. \A i : i \in found
        <=> \E q \in 1 .. Len(s) : \E k \in 1 .. Size(s[q]) :
              i = off[q] + k - 1 /\ (q - 1) % ParamNumMod = (p - 1) % ParamNumMod
  <2>1. p \in Nat
    BY <1>1
  <2>2. \A i : i \in found <=> Carries(s, off, p, i)
    BY <2>1, MatchesOf
  <2> HIDE DEF found
  <2> QED BY <2>2 DEF Carries
<1> HIDE DEF found
<1>6. Min(found) = off[f] /\ found # {}
  <2>1. found \in SUBSET Int
    <3>1. ASSUME NEW i \in found PROVE i \in Int
      <4>1. PICK q \in 1 .. Len(s) : \E k \in 1 .. Size(s[q]) : i = off[q] + k - 1
        BY <1>5
      <4> QED BY <1>3, <1>4, <4>1
    <3> QED BY <3>1
  <2>2. off[f] \in found
    <3>1. 1 \in 1 .. Size(s[f]) /\ off[f] = off[f] + 1 - 1
      BY <1>14
    <3> QED BY <1>2, <1>5, <3>1
  <2>3. ASSUME NEW i \in found PROVE off[f] <= i
    <3>1. PICK q \in 1 .. Len(s) : \E k \in 1 .. Size(s[q]) :
              i = off[q] + k - 1 /\ (q - 1) % ParamNumMod = (p - 1) % ParamNumMod
      BY <1>5
    <3>2. f <= q
      BY <1>1, <1>2, <3>1
    <3>3. off[f] <= off[q]
      <4>1. CASE f = q
        BY <1>2, <1>4, <4>1
      <4>2. CASE f < q
        <5>1. q \in 1 .. Len(s) + 1
          BY <1>1
        <5>2. off[f] + Size(s[f]) <= off[q] /\ off[q] \in Nat
          BY <1>2, <1>4, <4>2, <5>1
        <5> QED BY <1>14, <5>2
      <4> QED BY <1>0, <3>2, <4>1, <4>2
    <3>4. PICK k \in 1 .. Size(s[q]) : i = off[q] + k - 1
      BY <3>1
    <3>5. k \in Int /\ k >= 1
      BY <1>3, <3>4
    <3>6. q \in 1 .. Len(s) + 1
      BY <1>1
    <3>7. off[q] \in Nat
      BY <1>4, <3>6
    <3> QED BY <1>14, <3>3, <3>4, <3>5, <3>7
  <2> QED BY <2>1, <2>2, <2>3, MinIs
<1>7. First(m, p - 1) = DataItem(s[f].type, ChunksOf(s[f])[1], f - 1)
  <2>1. 1 \in 1 .. Size(s[f]) /\ off[f] + 1 - 1 = off[f]
    BY <1>14
  <2>2. m.mParams[off[f] + 1 - 1] = DataItem(s[f].type, ChunksOf(s[f])[1], f - 1)
    BY <1>2, <2>1 DEF Laid, Items
  <2> QED BY <1>6, <2>1, <2>2 DEF First, found
<1>8. First(m, p - 1).mType = s[f].type /\ First(m, p - 1).mData = ChunksOf(s[f])[1]
  BY <1>7 DEF DataItem
<1>9. getParamType(m, p - 1) = s[f].type
  BY <1>6, <1>8 DEF getParamType, found
<1>10. /\ s[f] = [type |-> s[f].type, val |-> s[f].val]
       /\ s[f].type \in {"i", "f", "g", "s"}
  BY <1>3, ParamShape
<1>11. CASE s[f].type \in {"i", "f", "g"}
  <2>1. ChunksOf(s[f])[1] = s[f].val
    BY <1>3, <1>11, ParamShape
  <2>2. CASE s[f].type = "i"
    BY <1>6, <1>8, <1>9, <1>10, <2>1, <2>2 DEF ReadParam, getInt, found, f
  <2>3. CASE s[f].type = "f"
    BY <1>6, <1>8, <1>9, <1>10, <2>1, <2>3 DEF ReadParam, getFloat, found, f
  <2>4. CASE s[f].type = "g"
    BY <1>6, <1>8, <1>9, <1>10, <2>1, <2>4 DEF ReadParam, getGameObject, found, f
  <2> QED BY <1>9, <1>11, <2>2, <2>3, <2>4 DEF f
<1>12. CASE s[f].type = "s"
  <2> DEFINE len == Size(s[f])
             raw == [k \in 1 .. len |-> m.mParams[off[f] + k - 1].mData]
  <2>1. Len(s) <= ParamNumMod /\ f = p
    <3>1. Len(s) <= ParamNumMod
      BY <1>12 DEF f
    <3>2. p <= ParamNumMod
      BY <1>1, <3>1, MessageAssumption
    <3> QED BY <1>1, <3>1, <3>2, FirstCarrier DEF f
  <2>2. /\ ChunksOf(s[f]) = s[f].val /\ IsString(s[f].val)
        /\ s[f].val \in Seq(FullChunks \cup TailChunks)
        /\ len = Len(s[f].val) /\ len \in Nat
    BY <1>3, <1>12, ParamShape DEF Size, IsString
  <2>3. \A k \in 1 .. len : m.mParams[off[f] + k - 1].mData = s[f].val[k]
    <3>1. \A k \in 1 .. len : m.mParams[off[f] + k - 1] = DataItem(s[f].type, ChunksOf(s[f])[k], f - 1)
      BY <1>2 DEF Laid, Items
    <3>2. \A t, d, n : DataItem(t, d, n).mData = d
      BY DEF DataItem
    <3>3. \A k \in 1 .. len : m.mParams[off[f] + k - 1].mData = ChunksOf(s[f])[k]
      BY <3>1, <3>2
    <3> QED BY <2>2, <3>3
  <2>4. raw = s[f].val
    <3>1. raw = [k \in 1 .. len |-> s[f].val[k]]
      BY <2>3
    <3>2. s[f].val = [k \in 1 .. len |-> s[f].val[k]]
      BY <2>2, LenProperties
    <3> QED BY <3>1, <3>2
  <2>5. found = off[f] .. off[f] + len - 1
    <3>1. ASSUME NEW i \in found PROVE i \in off[f] .. off[f] + len - 1
      <4>1. PICK q \in 1 .. Len(s) : \E k \in 1 .. Size(s[q]) :
              i = off[q] + k - 1 /\ (q - 1) % ParamNumMod = (p - 1) % ParamNumMod
        BY <1>5
      <4>2. FirstOfNumber(q) = q /\ FirstOfNumber(p) = p
        <5>1. q \in Nat /\ q >= 1 /\ q <= ParamNumMod
          BY <1>1, <2>1, MessageAssumption
        <5>2. FirstOfNumber(q) = q
          BY <5>1, FirstCarrier
        <5>3. FirstOfNumber(p) = f
          BY DEF f
        <5> QED BY <2>1, <5>2, <5>3
      <4>3. q - 1 = p - 1
        <5>1. ((q - 1) % ParamNumMod) + 1 = q /\ ((p - 1) % ParamNumMod) + 1 = p
          BY <4>2 DEF FirstOfNumber
        <5> QED BY <1>1, <4>1, <5>1
      <4>4. q = f
        BY <1>1, <2>1, <4>3
      <4>5. PICK k \in 1 .. len : i = off[f] + k - 1
        BY <4>1, <4>4
      <4> HIDE DEF len
      <4> QED BY <1>14, <2>2, <4>5, Interval
    <3>2. ASSUME NEW i \in off[f] .. off[f] + len - 1 PROVE i \in found
      <4>1. PICK k \in 1 .. len : i = off[f] + k - 1
        <5> HIDE DEF len
        <5> QED BY <1>14, <2>2, Interval
      <4> QED BY <1>2, <1>5, <4>1
    <3> QED BY <3>1, <3>2
  <2>6. Cardinality(found) = len
    <3> HIDE DEF len
    <3> QED BY <1>14, <2>2, <2>5, Interval
  <2>7. getString(m, p - 1) =
          CutAtNul([k \in 1 .. Cardinality(found) |-> m.mParams[Min(found) + k - 1].mData])
    BY <1>6 DEF getString, found
  <2>8. getString(m, p - 1) = CutAtNul(raw)
    BY <1>6, <2>6, <2>7
  <2>9. getString(m, p - 1) = s[f].val
    BY <2>2, <2>4, <2>8, CutString
  <2> QED BY <1>9, <1>10, <1>12, <2>9 DEF ReadParam, f
<1> QED BY <1>10, <1>11, <1>12

\* What a copy carries over, step by step.  The function is defined by itself;
\* it exists because a shortest prefix without one cannot be: the function of
\* the prefix one shorter extends to it.
CarriedFrom(s, how, kept, n) ==
    IF n = 0 THEN <<>>
    ELSE IF s[n].type \in Copies(how) THEN Append(kept[n - 1], s[n])
    ELSE kept[n - 1]

LEMMA CarriedExists ==
    ASSUME NEW s \in Seq(Params), NEW how
    PROVE  \E kept : kept = [n \in 0 .. Len(s) |-> CarriedFrom(s, how, kept, n)]
<1> DEFINE Has(b) == \E kept : kept = [n \in 0 .. b |-> CarriedFrom(s, how, kept, n)]
           Lacking == {b \in 0 .. Len(s) : ~Has(b)}
<1>1. Len(s) \in Nat
  BY LenProperties
<1>2. Has(0)
  <2> DEFINE kept == [n \in 0 .. 0 |-> <<>>]
  <2>1. kept = [n \in 0 .. 0 |-> CarriedFrom(s, how, kept, n)]
    <3>1. \A n \in 0 .. 0 : CarriedFrom(s, how, kept, n) = <<>>
      BY DEF CarriedFrom
    <3> QED BY <3>1
  <2> HIDE DEF kept
  <2> QED BY <2>1
<1>3. ASSUME NEW b \in Nat, b >= 1, Has(b - 1)
      PROVE  Has(b)
  <2>1. PICK old : old = [n \in 0 .. b - 1 |-> CarriedFrom(s, how, old, n)]
    BY <1>3
  <2> DEFINE kept == [n \in 0 .. b |-> IF n = b THEN CarriedFrom(s, how, old, n) ELSE old[n]]
  <2>2. \A n \in 0 .. b : n # b => n \in 0 .. b - 1
    BY <1>3
  <2>3. ASSUME NEW n \in 0 .. b
        PROVE  kept[n] = CarriedFrom(s, how, old, n)
    <3>1. CASE n = b
      BY <3>1
    <3>2. CASE n # b
      <4>1. n \in 0 .. b - 1
        BY <2>2, <3>2
      <4>2. kept[n] = old[n]
        BY <3>2
      <4>3. old[n] = CarriedFrom(s, how, old, n)
        BY <2>1, <4>1
      <4> QED BY <4>2, <4>3
    <3> QED BY <3>1, <3>2
  <2>4. ASSUME NEW n \in 0 .. b
        PROVE  CarriedFrom(s, how, old, n) = CarriedFrom(s, how, kept, n)
    <3>1. CASE n = 0
      BY <3>1 DEF CarriedFrom
    <3>2. CASE n # 0
      <4>1. n - 1 \in 0 .. b /\ n - 1 # b
        BY <1>3, <3>2
      <4>2. kept[n - 1] = old[n - 1]
        BY <4>1
      <4> HIDE DEF kept
      <4> QED BY <4>2 DEF CarriedFrom
    <3> QED BY <3>1, <3>2
  <2>5. kept = [n \in 0 .. b |-> kept[n]]
    OBVIOUS
  <2> HIDE DEF kept
  <2>6. \A n \in 0 .. b : kept[n] = CarriedFrom(s, how, kept, n)
    BY <2>3, <2>4
  <2>7. [n \in 0 .. b |-> kept[n]] = [n \in 0 .. b |-> CarriedFrom(s, how, kept, n)]
    BY <2>6
  <2>8. kept = [n \in 0 .. b |-> CarriedFrom(s, how, kept, n)]
    BY <2>5, <2>7
  <2> QED BY <2>8
<1> HIDE DEF Has
<1>4. Lacking = {}
  <2> SUFFICES ASSUME Lacking # {} PROVE FALSE
    OBVIOUS
  <2>1. Lacking \in SUBSET Nat
    BY <1>1
  <2>2. Min(Lacking) \in Lacking /\ \A k \in Lacking : Min(Lacking) <= k
    <3> HIDE DEF Lacking
    <3> QED BY <2>1, MinOfNaturals
  <2>3. PICK b \in Lacking : \A k \in Lacking : b <= k
    BY <2>2
  <2>4. b \in 0 .. Len(s) /\ ~Has(b)
    BY <2>3
  <2>5. b # 0
    BY <1>2, <2>4
  <2>6. b - 1 \in 0 .. Len(s) /\ ~(b <= b - 1) /\ b \in Nat /\ b >= 1
    BY <1>1, <2>4, <2>5
  <2>7. b - 1 \notin Lacking
    BY <2>3, <2>6
  <2>8. Has(b - 1)
    BY <2>6, <2>7
  <2> QED BY <1>3, <2>4, <2>6, <2>8
<1>5. Len(s) \in 0 .. Len(s)
  BY <1>1
<1>6. Has(Len(s))
  BY <1>4, <1>5
<1> QED BY <1>6 DEF Has

LEMMA CarriedStep ==
    ASSUME NEW s \in Seq(Params), NEW how
    PROVE  /\ Carried(s, how)[0] = <<>>
           /\ \A n \in 1 .. Len(s) :
                Carried(s, how)[n] =
                  IF s[n].type \in Copies(how) THEN Append(Carried(s, how)[n - 1], s[n])
                  ELSE Carried(s, how)[n - 1]
<1> DEFINE c == Carried(s, how)
<1>1. Len(s) \in Nat
  BY LenProperties
<1>2. c = [n \in 0 .. Len(s) |-> CarriedFrom(s, how, c, n)]
  <2>1. \E kept : kept = [n \in 0 .. Len(s) |-> CarriedFrom(s, how, kept, n)]
    BY CarriedExists
  <2>2. c = CHOOSE kept : kept = [n \in 0 .. Len(s) |-> CarriedFrom(s, how, kept, n)]
    BY DEF Carried, CarriedFrom
  <2> HIDE DEF c
  <2> QED BY <2>1, <2>2
<1> HIDE DEF c
<1>3. \A n \in 0 .. Len(s) : c[n] = CarriedFrom(s, how, c, n)
  BY <1>2
<1>4. c[0] = <<>>
  <2>1. 0 \in 0 .. Len(s)
    BY <1>1
  <2> QED BY <1>3, <2>1 DEF CarriedFrom
<1>5. ASSUME NEW n \in 1 .. Len(s)
      PROVE  c[n] = IF s[n].type \in Copies(how) THEN Append(c[n - 1], s[n]) ELSE c[n - 1]
  <2>1. n \in 0 .. Len(s) /\ n # 0
    BY <1>1
  <2> QED BY <1>3, <2>1 DEF CarriedFrom
<1> QED BY <1>4, <1>5 DEF c

\* It is a list of parameters, for every prefix.
LEMMA CarriedType ==
    ASSUME NEW s \in Seq(Params), NEW how, NEW n \in 0 .. Len(s)
    PROVE  Carried(s, how)[n] \in Seq(Params)
<1> DEFINE c == Carried(s, how)
           Odd == {k \in 0 .. Len(s) : c[k] \notin Seq(Params)}
<1>1. /\ c[0] = <<>>
      /\ \A k \in 1 .. Len(s) :
           c[k] = IF s[k].type \in Copies(how) THEN Append(c[k - 1], s[k]) ELSE c[k - 1]
  BY CarriedStep
<1>2. Len(s) \in Nat /\ \A k \in 1 .. Len(s) : s[k] \in Params
  BY LenProperties, ElementOfSeq
<1> HIDE DEF c
<1>3. Odd = {}
  <2> SUFFICES ASSUME Odd # {} PROVE FALSE
    OBVIOUS
  <2>1. Odd \in SUBSET Nat
    BY <1>2
  <2>2. Min(Odd) \in Odd /\ \A k \in Odd : Min(Odd) <= k
    <3> HIDE DEF Odd
    <3> QED BY <2>1, MinOfNaturals
  <2>3. PICK b \in Odd : \A k \in Odd : b <= k
    BY <2>2
  <2>4. b \in 0 .. Len(s) /\ c[b] \notin Seq(Params)
    BY <2>3
  <2>5. b # 0
    BY <1>1, <2>4, EmptySeq
  <2>6. b - 1 \in 0 .. Len(s) /\ ~(b <= b - 1) /\ b \in 1 .. Len(s)
    BY <1>2, <2>4, <2>5
  <2>7. c[b - 1] \in Seq(Params)
    BY <2>3, <2>6
  <2>8. Append(c[b - 1], s[b]) \in Seq(Params)
    BY <1>2, <2>6, <2>7, AppendProperties
  <2> QED BY <1>1, <2>4, <2>6, <2>7, <2>8
<1> QED BY <1>3 DEF c

\* The items of the parameters laid down all lie below the count, and inside
\* the array.
LEMMA TileBounds ==
    ASSUME NEW m, NEW s \in Seq(Params), NEW c \in Nat, NEW off, Laid(m, s, c, off),
           NEW p \in 1 .. Len(s)
    PROVE  /\ off[p] \in Nat
           /\ Size(s[p]) \in Nat
           /\ off[p] + Size(s[p]) <= c
           /\ \A k \in 1 .. Size(s[p]) : off[p] + k - 1 \in 0 .. c - 1
<1>1. Len(s) \in Nat /\ s[p] \in Params
  BY LenProperties, ElementOfSeq
<1>2. p \in 1 .. Len(s) + 1 /\ Len(s) + 1 \in 1 .. Len(s) + 1 /\ p < Len(s) + 1
  BY <1>1
<1>3. off[p] \in Nat /\ off[p] + Size(s[p]) <= c
  BY <1>2 DEF Laid, Tiles
<1>4. Size(s[p]) \in Nat
  BY <1>1, ParamShape
<1>5. ASSUME NEW k \in 1 .. Size(s[p])
      PROVE  off[p] + k - 1 \in 0 .. c - 1
  BY <1>3, <1>4
<1> QED BY <1>3, <1>4, <1>5

\* A message without parameters holds none.
LEMMA HoldsNothing ==
    ASSUME NEW m, m.mNumParam = 0
    PROVE  Holds(m, <<>>, 0)
<1> DEFINE off == [p \in 1 .. 1 |-> 0]
<1>1. Len(<<>>) = 0
  BY EmptySeq
<1>2. off \in [1 .. Len(<<>>) + 1 -> Nat]
  BY <1>1
<1>3. Laid(m, <<>>, 0, off)
  BY <1>1, <1>2 DEF Laid, Tiles, Items
<1> QED BY <1>2, <1>3 DEF Holds

\* Two arrays that agree below the count hold the same.
Agree(m, m2, c) ==
    \A i \in 0 .. c - 1 : i \in DOMAIN m.mParams
        => i \in DOMAIN m2.mParams /\ m2.mParams[i] = m.mParams[i]

LEMMA HoldsStill ==
    ASSUME NEW m, NEW m2, NEW s \in Seq(Params), NEW c \in Nat, Holds(m, s, c),
           m2.mNumParam = m.mNumParam, Agree(m, m2, c)
    PROVE  Holds(m2, s, c)
<1>1. PICK off \in [1 .. Len(s) + 1 -> Nat] : Laid(m, s, c, off)
  BY DEF Holds
<1>2. ASSUME NEW p \in 1 .. Len(s), NEW k \in 1 .. Size(s[p])
      PROVE  /\ off[p] + k - 1 \in DOMAIN m2.mParams
             /\ m2.mParams[off[p] + k - 1] = DataItem(s[p].type, ChunksOf(s[p])[k], p - 1)
  <2>1. off[p] + k - 1 \in 0 .. c - 1
    BY <1>1, TileBounds
  <2>2. /\ off[p] + k - 1 \in DOMAIN m.mParams
        /\ m.mParams[off[p] + k - 1] = DataItem(s[p].type, ChunksOf(s[p])[k], p - 1)
    BY <1>1 DEF Laid, Items
  <2> QED BY <2>1, <2>2 DEF Agree
<1>3. Items(m2, s, off)
  BY <1>2 DEF Items
<1>4. Laid(m2, s, c, off)
  BY <1>1, <1>3 DEF Laid
<1> QED BY <1>1, <1>4 DEF Holds

\* Parameter p lies in the items from c on, under the given number.
LaidFrom(m, c, p, num) ==
    \A k \in 1 .. Size(p) :
        /\ c + k - 1 \in DOMAIN m.mParams
        /\ m.mParams[c + k - 1] = DataItem(p.type, ChunksOf(p)[k], num)

\* A parameter stored right behind the others is held after them.
LEMMA HoldsMore ==
    ASSUME NEW m, NEW m2, NEW s \in Seq(Params), NEW c \in Nat, Holds(m, s, c),
           NEW p \in Params, Size(p) >= 1,
           m2.mNumParam = m.mNumParam + 1, Agree(m, m2, c),
           LaidFrom(m2, c, p, m.mNumParam)
    PROVE  Holds(m2, Append(s, p), c + Size(p))
<1>1. PICK off \in [1 .. Len(s) + 1 -> Nat] : Laid(m, s, c, off)
  BY DEF Holds
<1> DEFINE t == Append(s, p)
           len == Len(s)
           off2 == [q \in 1 .. len + 2 |-> IF q = len + 2 THEN c + Size(p) ELSE off[q]]
<1>2. len \in Nat /\ Size(p) \in Nat
  BY LenProperties, ParamShape
<1>3. /\ t \in Seq(Params)
      /\ Len(t) = len + 1
      /\ \A q \in 1 .. len : t[q] = s[q]
      /\ t[len + 1] = p
  BY AppendProperties
<1> HIDE DEF t
<1>4. /\ off[len + 1] = c
      /\ \A q \in 1 .. len : Size(s[q]) >= 1
      /\ \A q \in 1 .. len, r \in 1 .. len + 1 : q < r => off[q] + Size(s[q]) <= off[r]
      /\ \A i \in 0 .. c - 1 : \E q \in 1 .. len : off[q] <= i /\ i < off[q] + Size(s[q])
      /\ m.mNumParam = len
  BY <1>1 DEF Laid, Tiles
<1>5. \A q \in 1 .. len : off[q] \in Nat /\ Size(s[q]) \in Nat /\ off[q] + Size(s[q]) <= c
  BY <1>1, TileBounds
<1> HIDE DEF len
<1>6. /\ off2 \in [1 .. len + 2 -> Nat]
      /\ off2[len + 2] = c + Size(p)
      /\ \A q \in 1 .. len + 1 : off2[q] = off[q]
  <2>1. \A q \in 1 .. len + 2 : q # len + 2 => q \in 1 .. len + 1
    BY <1>2
  <2>2. \A q \in 1 .. len + 1 : q \in 1 .. len + 2 /\ q # len + 2
    BY <1>2
  <2>3. off \in [1 .. len + 1 -> Nat]
    BY <1>1 DEF len
  <2>4. len + 2 \in 1 .. len + 2 /\ c + Size(p) \in Nat
    BY <1>2
  <2> QED BY <2>1, <2>2, <2>3, <2>4
<1> HIDE DEF off2
<1>7. off2[len + 1] = c
  BY <1>2, <1>4, <1>6
<1>8. \A q \in 1 .. len : off2[q] = off[q]
  BY <1>2, <1>6
<1>9. \A q \in 1 .. len + 1 : q \in 1 .. len \/ q = len + 1
  BY <1>2
<1> DEFINE c2 == c + Size(p)
<1>10. Tiles(t, c2, off2)
  <2>1. off2 \in [1 .. Len(t) + 1 -> Nat] /\ off2[Len(t) + 1] = c2
    <3>1. Len(t) + 1 = len + 2
      BY <1>2, <1>3
    <3> QED BY <1>6, <3>1
  <2>2. ASSUME NEW q \in 1 .. len + 1 PROVE Size(t[q]) >= 1
    BY <1>3, <1>4, <1>9
  <2>3. ASSUME NEW q \in 1 .. len + 1, NEW r \in 1 .. len + 2, q < r
        PROVE  off2[q] + Size(t[q]) <= off2[r]
    <3>1. CASE q = len + 1
      <4>1. r = len + 2
        BY <1>2, <2>3, <3>1
      <4> QED BY <1>2, <1>3, <1>6, <1>7, <3>1, <4>1
    <3>2. CASE q \in 1 .. len
      <4>1. off2[q] = off[q] /\ t[q] = s[q]
        BY <1>3, <1>8, <3>2
      <4>2. CASE r = len + 2
        <5>1. off[q] + Size(s[q]) <= c /\ off[q] + Size(s[q]) \in Nat
          BY <1>5, <3>2
        <5> QED BY <1>2, <1>6, <4>1, <4>2, <5>1
      <4>3. CASE r \in 1 .. len + 1
        BY <1>4, <1>6, <2>3, <3>2, <4>1, <4>3
      <4>4. r = len + 2 \/ r \in 1 .. len + 1
        BY <1>2
      <4> QED BY <4>2, <4>3, <4>4
    <3> QED BY <1>9, <3>1, <3>2
  <2>4. ASSUME NEW i \in 0 .. c2 - 1
        PROVE  \E q \in 1 .. len + 1 : off2[q] <= i /\ i < off2[q] + Size(t[q])
    <3>1. CASE i < c
      <4>1. i \in 0 .. c - 1
        BY <1>2, <3>1
      <4>2. PICK q \in 1 .. len : off[q] <= i /\ i < off[q] + Size(s[q])
        BY <1>4, <4>1
      <4>3. q \in 1 .. len + 1
        BY <1>2
      <4> QED BY <1>3, <1>8, <4>2, <4>3
    <3>2. CASE ~(i < c)
      <4>1. len + 1 \in 1 .. len + 1
        BY <1>2
      <4>2. c <= i /\ i < c + Size(p)
        BY <1>2, <3>2
      <4> QED BY <1>3, <1>7, <4>1, <4>2
    <3> QED BY <3>1, <3>2
  <2>5. Len(t) = len + 1 /\ Len(t) + 1 = len + 2
    BY <1>2, <1>3
  <2>6. /\ \A q \in 1 .. Len(t) : Size(t[q]) >= 1
        /\ \A q \in 1 .. Len(t), r \in 1 .. Len(t) + 1 : q < r => off2[q] + Size(t[q]) <= off2[r]
    BY <2>2, <2>3, <2>5
  <2>7. \A i \in 0 .. c2 - 1 : \E q \in 1 .. Len(t) : off2[q] <= i /\ i < off2[q] + Size(t[q])
    BY <2>4, <2>5
  <2> HIDE DEF c2
  <2> QED BY <2>1, <2>6, <2>7 DEF Tiles
<1>11. Items(m2, t, off2)
  <2>1. ASSUME NEW q \in 1 .. len, NEW k \in 1 .. Size(t[q])
        PROVE  /\ off2[q] + k - 1 \in DOMAIN m2.mParams
               /\ m2.mParams[off2[q] + k - 1] = DataItem(t[q].type, ChunksOf(t[q])[k], q - 1)
    <3>1. off2[q] = off[q] /\ t[q] = s[q]
      BY <1>3, <1>8
    <3>2. off[q] + k - 1 \in 0 .. c - 1
      BY <1>1, <3>1, TileBounds DEF len
    <3>3. /\ off[q] + k - 1 \in DOMAIN m.mParams
          /\ m.mParams[off[q] + k - 1] = DataItem(s[q].type, ChunksOf(s[q])[k], q - 1)
      BY <1>1, <3>1 DEF Laid, Items, len
    <3> QED BY <3>1, <3>2, <3>3 DEF Agree
  <2>2. ASSUME NEW k \in 1 .. Size(p)
        PROVE  /\ off2[len + 1] + k - 1 \in DOMAIN m2.mParams
               /\ m2.mParams[off2[len + 1] + k - 1] = DataItem(p.type, ChunksOf(p)[k], len)
    <3>1. /\ c + k - 1 \in DOMAIN m2.mParams
          /\ m2.mParams[c + k - 1] = DataItem(p.type, ChunksOf(p)[k], len)
      BY <1>4 DEF LaidFrom
    <3> QED BY <1>7, <3>1
  <2>3. ASSUME NEW q \in 1 .. len + 1, NEW k \in 1 .. Size(t[q])
        PROVE  /\ off2[q] + k - 1 \in DOMAIN m2.mParams
               /\ m2.mParams[off2[q] + k - 1] = DataItem(t[q].type, ChunksOf(t[q])[k], q - 1)
    <3>1. CASE q \in 1 .. len
      BY <2>1, <3>1
    <3>2. CASE q = len + 1
      <4>1. t[q] = p /\ k \in 1 .. Size(p)
        BY <1>3, <3>2
      <4>2. /\ off2[len + 1] + k - 1 \in DOMAIN m2.mParams
            /\ m2.mParams[off2[len + 1] + k - 1] = DataItem(p.type, ChunksOf(p)[k], len)
        BY <2>2, <4>1
      <4>3. off2[q] = off2[len + 1] /\ q - 1 = len
        BY <1>2, <3>2
      <4> QED BY <4>1, <4>2, <4>3
    <3> QED BY <1>9, <3>1, <3>2
  <2> QED BY <1>3, <2>3 DEF Items
<1>12. m2.mNumParam = Len(t)
  BY <1>2, <1>3, <1>4
<1>13. off2 \in [1 .. Len(t) + 1 -> Nat]
  BY <1>10 DEF Tiles
<1>14. Laid(m2, t, c + Size(p), off2)
  BY <1>10, <1>11, <1>12 DEF Laid
<1> QED BY <1>13, <1>14 DEF Holds, t

LEMMA SomeChunks ==
    ASSUME NEW p \in Params, ChunksOf(p) # <<>>
    PROVE  Size(p) >= 1
BY ChunksAppear DEF Size

LEMMA HoldsCount ==
    ASSUME NEW m, NEW s \in Seq(Params), NEW c, Holds(m, s, c)
    PROVE  c \in Nat /\ m.mNumParam = Len(s)
<1>1. PICK off \in [1 .. Len(s) + 1 -> Nat] : Laid(m, s, c, off)
  BY DEF Holds
<1>2. Len(s) + 1 \in 1 .. Len(s) + 1
  BY LenProperties
<1> QED BY <1>1, <1>2 DEF Laid, Tiles

\* Starting to add counts the new chunks and touches nothing else.
LEMMA StartHolds ==
    ASSUME MessageInv, NEW p \in Params, StartAdd(p),
           NEW s \in Seq(Params), Holds(msg, s, msg.mNumChunks)
    PROVE  Holds(msg', s, msg'.mNumChunks - Size(p)) /\ arg' = p /\ pc' \in {"double", "store"}
<1>1. IsMessage(msg)
  BY DEF MessageInv, TypeOK
<1>2. /\ msg'.mParams = msg.mParams
      /\ msg'.mNumParam = msg.mNumParam
      /\ msg'.mNumChunks = msg.mNumChunks + Size(p)
  BY <1>1 DEF StartAdd, IsMessage, Size
<1>3. msg.mNumChunks \in Nat /\ Size(p) \in Nat
  BY <1>1, ParamShape DEF IsMessage
<1>4. msg'.mNumChunks - Size(p) = msg.mNumChunks
  BY <1>2, <1>3
<1>5. Agree(msg, msg', msg.mNumChunks)
  BY <1>2 DEF Agree
<1>6. Holds(msg', s, msg.mNumChunks)
  BY <1>2, <1>3, <1>5, HoldsStill
<1> QED BY <1>4, <1>6 DEF StartAdd

\* Growing keeps what the array holds: the copy leaves out only the last item
\* counted, which belongs to the parameter still to be stored.
LEMMA GrowHolds ==
    ASSUME MessageInv, arg \in Params, ChunksOf(arg) # <<>>, Double \/ Reallocate,
           NEW s \in Seq(Params), Holds(msg, s, msg.mNumChunks - Size(arg))
    PROVE  Holds(msg', s, msg'.mNumChunks - Size(arg))
<1> DEFINE c == msg.mNumChunks - Size(arg)
<1>1. IsMessage(msg)
  BY DEF MessageInv, TypeOK
<1>2. c \in Nat
  BY HoldsCount
<1>3. Size(arg) \in Nat /\ Size(arg) >= 1
  BY ParamShape, SomeChunks
<1>4. CASE Double
  <2>1. /\ msg'.mParams = msg.mParams
        /\ msg'.mNumParam = msg.mNumParam
        /\ msg'.mNumChunks = msg.mNumChunks
    BY <1>1, <1>4 DEF Double, IsMessage
  <2>2. Agree(msg, msg', c)
    BY <2>1 DEF Agree
  <2> HIDE DEF c
  <2>3. Holds(msg', s, c)
    BY <1>2, <2>1, <2>2, HoldsStill DEF c
  <2> QED BY <2>1, <2>3 DEF c
<1>5. CASE Reallocate
  <2>1. PICK n \in 0 .. msg.mMaxChunks : IsArray(msg.mParams, n)
    BY <1>5 DEF Reallocate, ReallocateWith, MessageInv, TypeOK
  <2>2. PICK j \in Junk :
          msg' = [msg EXCEPT !.mParams =
                    [k \in 0 .. msg.mMaxChunks - 1 |->
                       IF k < msg.mNumChunks - 1 /\ k \in DOMAIN msg.mParams
                       THEN msg.mParams[k] ELSE j]]
    BY <1>5 DEF Reallocate, ReallocateWith
  <2>3. /\ msg'.mNumParam = msg.mNumParam
        /\ msg'.mNumChunks = msg.mNumChunks
        /\ msg'.mParams = [k \in 0 .. msg.mMaxChunks - 1 |->
                             IF k < msg.mNumChunks - 1 /\ k \in DOMAIN msg.mParams
                             THEN msg.mParams[k] ELSE j]
    BY <1>1, <2>2 DEF IsMessage
  <2>4. msg.mNumChunks \in Nat /\ msg.mMaxChunks \in Nat
    BY <1>1 DEF IsMessage
  <2>5. ASSUME NEW i \in 0 .. c - 1, i \in DOMAIN msg.mParams
        PROVE  i \in DOMAIN msg'.mParams /\ msg'.mParams[i] = msg.mParams[i]
    <3>1. i \in 0 .. n - 1
      BY <2>1, <2>5 DEF IsArray
    <3>2. i \in 0 .. msg.mMaxChunks - 1
      BY <2>1, <2>4, <3>1
    <3>3. i < msg.mNumChunks - 1
      BY <1>2, <1>3, <2>4
    <3> QED BY <2>3, <2>5, <3>2, <3>3
  <2>6. Agree(msg, msg', c)
    BY <2>5 DEF Agree
  <2> HIDE DEF c
  <2>7. Holds(msg', s, c)
    BY <1>2, <2>3, <2>6, HoldsStill DEF c
  <2> QED BY <2>3, <2>7 DEF c
<1> QED BY <1>4, <1>5

\* addString writes each piece where the getter will look for it, and every
\* other add its only chunk: the k-th piece goes k - 1 items behind what was
\* counted before the add.
LEMMA StoreIndexWhereRead ==
    ASSUME MessageInv, arg \in Params, StoredWhereRead(arg), NEW k \in 1 .. Size(arg)
    PROVE  StoreIndex(arg, k) = msg.mNumChunks - Size(arg) + k - 1
<1>1. msg.mNumChunks \in Nat /\ msg.mNumParam \in Nat /\ Size(arg) \in Nat
  BY ParamShape DEF MessageInv, TypeOK, IsMessage
<1>2. k \in Int /\ 1 <= k /\ k <= Size(arg)
  BY <1>1
<1>3. CASE arg.type # "s"
  <2>1. Size(arg) = 1
    BY <1>3, ParamShape
  <2>2. k = 1
    BY <1>2, <2>1
  <2> QED BY <1>1, <1>3, <2>1, <2>2 DEF StoreIndex
<1>4. CASE arg.type = "s"
  <2>1. /\ IsString(arg.val) /\ Len(arg.val) = Size(arg)
        /\ arg.val[1] \notin TailChunks => msg.mNumParam = msg.mNumChunks - Size(arg)
    BY <1>4, ParamShape DEF Size, StoredWhereRead
  <2>2. \A i \in 1 .. Size(arg) - 1 : arg.val[i] \notin TailChunks
    BY <2>1, MessageAssumption DEF IsString
  <2>3. CASE arg.val[k] \in TailChunks
    <3>1. ~(k \in 1 .. Size(arg) - 1)
      BY <2>2, <2>3
    <3>2. k = Size(arg)
      BY <1>1, <1>2, <3>1
    <3> QED BY <1>1, <2>3, <3>2 DEF StoreIndex
  <2>4. CASE arg.val[k] \notin TailChunks
    <3>1. arg.val[1] \notin TailChunks
      <4>1. CASE k = 1
        BY <2>4, <4>1
      <4>2. CASE k # 1
        <5>1. 1 \in 1 .. Size(arg) - 1
          BY <1>1, <1>2, <4>2
        <5> QED BY <2>2, <5>1
      <4> QED BY <4>1, <4>2
    <3>2. StoreIndex(arg, k) = msg.mNumParam + k - 1
      BY <1>4, <2>4 DEF StoreIndex
    <3> QED BY <2>1, <3>1, <3>2
  <2> QED BY <2>3, <2>4
<1> QED BY <1>3, <1>4

\* Storing lays the parameter down behind the others.
LEMMA StoreHolds ==
    ASSUME MessageInv, arg \in Params, ChunksOf(arg) # <<>>, StoredWhereRead(arg), Store,
           NEW s \in Seq(Params), Holds(msg, s, msg.mNumChunks - Size(arg))
    PROVE  Holds(msg', Append(s, arg), msg'.mNumChunks)
<1> DEFINE c == msg.mNumChunks - Size(arg)
           stored == [n \in DOMAIN msg.mParams |->
                IF StoredAt(arg, n) = {} THEN msg.mParams[n]
                ELSE DataItem(arg.type, ChunksOf(arg)[Max(StoredAt(arg, n))], msg.mNumParam)]
<1>1. /\ IsMessage(msg) /\ IsArray(msg.mParams, msg.mMaxChunks)
      /\ msg.mNumChunks <= msg.mMaxChunks
  BY DEF MessageInv, TypeOK, ChunksFit, Store
<1>2. /\ msg'.mParams = stored
      /\ msg'.mNumParam = msg.mNumParam + 1
      /\ msg'.mNumChunks = msg.mNumChunks
  BY <1>1 DEF Store, IsMessage
<1>3. /\ c \in Nat /\ Size(arg) \in Nat
      /\ msg.mNumChunks \in Nat /\ msg.mMaxChunks \in Nat
      /\ c + Size(arg) = msg.mNumChunks
  BY <1>1, HoldsCount, ParamShape DEF IsMessage
<1>4. Size(arg) >= 1
  BY SomeChunks
<1>5. \A k \in 1 .. Size(arg) : StoreIndex(arg, k) = c + k - 1
  BY StoreIndexWhereRead
<1> HIDE DEF c
<1>6. \A n : StoredAt(arg, n) = {k \in 1 .. Size(arg) : c + k - 1 = n}
  BY <1>5 DEF StoredAt, Size
<1>7. Agree(msg, msg', c)
  <2> SUFFICES ASSUME NEW i \in 0 .. c - 1, i \in DOMAIN msg.mParams
               PROVE  i \in DOMAIN msg'.mParams /\ msg'.mParams[i] = msg.mParams[i]
    BY DEF Agree
  <2>1. \A k \in 1 .. Size(arg) : c + k - 1 # i
    BY <1>3
  <2>2. StoredAt(arg, i) = {}
    BY <1>6, <2>1
  <2> QED BY <1>2, <2>2
<1>8. LaidFrom(msg', c, arg, msg.mNumParam)
  <2> SUFFICES ASSUME NEW k \in 1 .. Size(arg)
               PROVE  /\ c + k - 1 \in DOMAIN msg'.mParams
                      /\ msg'.mParams[c + k - 1] = DataItem(arg.type, ChunksOf(arg)[k], msg.mNumParam)
    BY DEF LaidFrom
  <2>1. k \in Int /\ 1 <= k /\ k <= Size(arg)
    BY <1>3
  <2>2. c + k - 1 \in 0 .. msg.mMaxChunks - 1
    BY <1>1, <1>3, <2>1
  <2>3. c + k - 1 \in DOMAIN msg.mParams
    BY <1>1, <2>2 DEF IsArray
  <2>4. StoredAt(arg, c + k - 1) = {k}
    <3>1. \A i \in 1 .. Size(arg) : c + i - 1 = c + k - 1 <=> i = k
      BY <1>3, <2>1
    <3> QED BY <1>6, <3>1
  <2>5. Max(StoredAt(arg, c + k - 1)) = k /\ StoredAt(arg, c + k - 1) # {}
    BY <2>1, <2>4, MaxOfOne
  <2> QED BY <1>2, <2>3, <2>5
<1>9. Holds(msg, s, c)
  BY DEF c
<1>10. Holds(msg', Append(s, arg), c + Size(arg))
  BY <1>2, <1>3, <1>4, <1>7, <1>8, <1>9, HoldsMore
<1> QED BY <1>2, <1>3, <1>10

LEMMA InitRead == Init => ReadInv
<1> SUFFICES ASSUME Init PROVE ReadInv
  OBVIOUS
<1>1. PICK j \in Junk : msg = NewMessage(START_CHUNK_NUM, j)
  BY DEF Init
<1>2. msg.mNumParam = 0 /\ msg.mNumChunks = 0
  BY <1>1 DEF NewMessage
<1>3. Holds(msg, <<>>, 0)
  BY <1>2, HoldsNothing
<1>4. Held = <<>> /\ sent \in Seq(Params)
  BY EmptySeq DEF Init, Held
<1> QED BY <1>2, <1>3, <1>4 DEF Init, ReadInv, ArgInv, AddInv, CopyInv

\* A client's or createMessage's add starts on a message that holds all that
\* was sent so far.
LEMMA ClientStartRead ==
    ASSUME MessageInv, ReadInv, pc = "ready", NEW p \in Params, StartAdd(p),
           mode' \in {"build", "create"}, UNCHANGED <<sent, intact>>
    PROVE  ReadInv'
<1>1. pc' \in {"double", "store"} /\ arg' = p
  BY DEF StartAdd
<1>2. ASSUME intact PROVE AddInv'
  <2>1. Held = sent /\ Holds(msg, sent, msg.mNumChunks) /\ sent \in Seq(Params)
    BY <1>2 DEF ReadInv, AddInv, Held
  <2>2. Holds(msg', sent, msg'.mNumChunks - Size(p))
    BY <2>1, StartHolds
  <2>3. Held' = sent
    BY DEF Held
  <2> QED BY <1>1, <2>2, <2>3 DEF AddInv
<1> QED BY <1>1, <1>2 DEF ReadInv, ArgInv, CopyInv

LEMMA NextRead == MessageInv /\ ReadInv /\ [Next]_vars => ReadInv'
<1> SUFFICES ASSUME MessageInv, ReadInv, [Next]_vars PROVE ReadInv'
  OBVIOUS
<1>0. sent \in Seq(Params) /\ Len(sent) \in Nat
  BY LenProperties DEF ReadInv
<1>1. CASE addInt
  <2>1. PICK i \in Ints : addScalar([type |-> "i", val |-> i])
    BY <1>1 DEF addInt
  <2>2. [type |-> "i", val |-> i] \in Params
    BY DEF Params, Scalars
  <2> QED BY <2>1, <2>2, ClientStartRead DEF addScalar, ClientMayAdd
<1>2. CASE addFloat
  <2>1. PICK f \in Floats : addScalar([type |-> "f", val |-> f])
    BY <1>2 DEF addFloat
  <2>2. [type |-> "f", val |-> f] \in Params
    BY DEF Params, Scalars
  <2> QED BY <2>1, <2>2, ClientStartRead DEF addScalar, ClientMayAdd
<1>3. CASE addGameObject
  <2>1. PICK g \in Objects : addScalar([type |-> "g", val |-> g])
    BY <1>3 DEF addGameObject
  <2>2. [type |-> "g", val |-> g] \in Params
    BY DEF Params, Scalars
  <2> QED BY <2>1, <2>2, ClientStartRead DEF addScalar, ClientMayAdd
<1>4. CASE addString
  <2>1. PICK s \in Strings : StartAdd([type |-> "s", val |-> s])
    BY <1>4 DEF addString
  <2>2. [type |-> "s", val |-> s] \in Params
    BY DEF Params, Scalars
  <2> QED BY <1>4, <2>1, <2>2, ClientStartRead DEF addString, ClientMayAdd
\* While a parameter is added its source and its value do not change.
<1>5. ASSUME intact, pc \in {"double", "store"}
      PROVE  /\ arg \in Params
             /\ Held \in Seq(Params)
             /\ ChunksOf(arg) # <<>> => Holds(msg, Held, msg.mNumChunks - Size(arg))
             /\ mode \in {"push", "pop"} =>
                  /\ next \in 1 .. Len(sent)
                  /\ arg = sent[next]
                  /\ Held = Carried(sent, mode)[next - 1]
                  /\ Carried(sent, mode)[next] = Append(Held, arg)
  <2>1. CASE mode \in {"push", "pop"}
    <3>1. next \in 1 .. Len(sent) /\ arg = sent[next] /\ arg.type \in Copies(mode)
      BY <1>0, <1>5, <2>1 DEF ReadInv, ArgInv, CopyInv
    <3>2. arg \in Params
      BY <1>0, <3>1, ElementOfSeq
    <3>3. Held = Carried(sent, mode)[next - 1]
      BY <1>5, <2>1 DEF Held
    <3>4. next - 1 \in 0 .. Len(sent)
      BY <1>0, <3>1
    <3>5. Held \in Seq(Params)
      BY <1>0, <3>3, <3>4, CarriedType
    <3>6. Carried(sent, mode)[next] = Append(Held, arg)
      BY <1>0, <3>1, <3>3, CarriedStep
    <3> QED BY <1>5, <3>1, <3>2, <3>3, <3>5, <3>6 DEF ReadInv, AddInv
  <2>2. CASE mode \notin {"push", "pop"}
    <3>1. mode \in {"build", "create"}
      BY <2>2 DEF MessageInv, TypeOK
    <3> QED BY <1>0, <1>5, <2>2, <3>1 DEF ReadInv, AddInv, ArgInv, Held
  <2> QED BY <2>1, <2>2
<1>6. CASE Double \/ Reallocate
  <2>1. /\ pc \in {"double", "store"} /\ pc' \in {"double", "store"}
        /\ UNCHANGED <<src, next, mode, arg, sent, intact>>
    BY <1>6 DEF Double, Reallocate, ReallocateWith
  <2>2. ASSUME intact PROVE AddInv'
    <3>1. Held' = Held
      BY <2>1 DEF Held
    <3>2. ASSUME ChunksOf(arg) # <<>>
          PROVE  Holds(msg', Held, msg'.mNumChunks - Size(arg))
      BY <1>5, <1>6, <2>1, <2>2, <3>2, GrowHolds
    <3> QED BY <2>1, <3>1, <3>2 DEF AddInv
  <2> QED BY <2>1, <2>2 DEF ReadInv, ArgInv, CopyInv
<1>7. CASE Store
  <2>1. pc = "store" /\ UNCHANGED <<src, next, mode>> /\ pc' \in {"ready", "copy"}
    BY <1>7 DEF Store
  <2>2. pc' = "ready" => mode' \in {"build", "create"}
    BY <1>7 DEF Store, MessageInv, TypeOK
  <2>3. pc' = "copy" => mode' \in {"push", "pop"}
    BY <1>7 DEF Store
  <2>4. sent' \in Seq(Params)
    <3>1. CASE mode \in {"push", "pop"}
      BY <1>0, <1>7, <3>1 DEF Store
    <3>2. CASE mode \notin {"push", "pop"}
      <4>1. arg \in Params
        BY <2>1, <3>2 DEF ReadInv, ArgInv, MessageInv, TypeOK
      <4> QED BY <1>0, <1>7, <3>2, <4>1, AppendProperties DEF Store
    <3> QED BY <3>1, <3>2
  <2>5. ASSUME intact' PROVE CopyInv' /\ AddInv'
    <3>1. intact /\ StoredWhereRead(arg)
      BY <1>7, <2>5 DEF Store
    <3>2. arg \in Params /\ Held \in Seq(Params)
      BY <1>5, <2>1, <3>1
    <3>3. ChunksOf(arg) # <<>>
      <4>1. arg.type = "s" => arg.val # <<>>
        BY <3>1 DEF StoredWhereRead
      <4> QED BY <4>1 DEF ChunksOf
    <3>4. Holds(msg', Append(Held, arg), msg'.mNumChunks)
      BY <1>5, <1>7, <2>1, <3>1, <3>2, <3>3, StoreHolds
    <3>5. Held' = Append(Held, arg)
      <4>1. CASE mode \in {"push", "pop"}
        <5>1. Held' = Carried(sent, mode)[next]
          BY <1>7, <2>1, <4>1 DEF Store, Held
        <5> QED BY <1>5, <2>1, <3>1, <4>1, <5>1
      <4>2. CASE mode \notin {"push", "pop"}
        BY <1>7, <2>1, <4>2 DEF Store, Held
      <4> QED BY <4>1, <4>2
    <3>6. CopyInv'
      <4> SUFFICES ASSUME mode \in {"push", "pop"} PROVE CopyInv'
        BY <2>1 DEF CopyInv
      <4>1. sent' = sent
        BY <1>7 DEF Store
      <4> QED BY <2>1, <3>1, <4>1 DEF ReadInv, CopyInv
    <3> QED BY <2>1, <3>4, <3>5, <3>6 DEF AddInv
  <2> QED BY <2>1, <2>2, <2>3, <2>4, <2>5 DEF ReadInv, ArgInv
<1>8. CASE createMessage
  <2>0. PICK args \in CreateArgs : \E wild \in [Wild(args) -> 0 .. MaxWild], j \in Junk :
          msg' = NewMessage(ChunksCounted(args, wild), j)
    BY <1>8 DEF createMessage
  <2>1. PICK wild \in [Wild(args) -> 0 .. MaxWild], j \in Junk :
          msg' = NewMessage(ChunksCounted(args, wild), j)
    BY <2>0
  <2>2. msg'.mNumParam = 0 /\ msg'.mNumChunks = 0
    BY <2>1 DEF NewMessage
  <2>3. Holds(msg', <<>>, 0)
    BY <2>2, HoldsNothing
  <2>4. sent' = <<>> /\ mode' = "create" /\ pc' \in {"ready", "undefined"}
    BY <1>8 DEF createMessage
  <2>5. Held' = <<>> /\ sent' \in Seq(Params)
    BY <2>4, EmptySeq DEF Held
  <2> QED BY <2>2, <2>3, <2>4, <2>5 DEF ReadInv, ArgInv, AddInv, CopyInv
<1>9. CASE AddNextArgument
  <2>1. Head(todo) \in Params
    BY <1>9, HeadTailProperties DEF AddNextArgument, MessageInv, TypeOK
  <2>2. mode' \in {"build", "create"}
    BY <1>9 DEF AddNextArgument, ReadInv
  <2> QED BY <1>9, <2>1, <2>2, ClientStartRead DEF AddNextArgument
<1>10. ASSUME NEW how \in {"push", "pop"}, StartCopy(how) PROVE ReadInv'
  <2>1. PICK j \in Junk : msg' = NewMessage(START_CHUNK_NUM, j)
    BY <1>10 DEF StartCopy
  <2>2. msg'.mNumParam = 0 /\ msg'.mNumChunks = 0
    BY <2>1 DEF NewMessage
  <2>3. Holds(msg', <<>>, 0)
    BY <2>2, HoldsNothing
  <2>4. /\ pc = "ready" /\ pc' = "copy" /\ mode' = how /\ next' = 0
        /\ src' = msg /\ sent' = sent
        /\ intact' => intact /\ Len(sent) <= ParamNumMod
    BY <1>10 DEF StartCopy
  <2>5. Held' = <<>>
    <3>1. Held' = Carried(sent, how)[0]
      BY <2>4 DEF Held
    <3> QED BY <1>0, <3>1, CarriedStep
  <2>6. ASSUME intact' PROVE CopyInv'
    <3>1. Holds(msg, sent, msg.mNumChunks)
      BY <2>4, <2>6 DEF ReadInv, AddInv, Held
    <3> QED BY <1>0, <2>4, <2>6, <3>1 DEF CopyInv
  <2> QED BY <1>0, <2>2, <2>3, <2>4, <2>5, <2>6 DEF ReadInv, ArgInv, AddInv
\* A copy reads from its source the parameter it is at.
<1>11. ASSUME intact, pc = "copy"
       PROVE  /\ src.mNumParam = Len(sent)
              /\ next \in 0 .. Len(sent)
              /\ next < Len(sent) =>
                   /\ ReadParam(src, next) = sent[next + 1]
                   /\ getParamType(src, next) = sent[next + 1].type
  <2>1. Holds(src, sent, src.mNumChunks) /\ Len(sent) <= ParamNumMod /\ next \in 0 .. Len(sent)
    BY <1>11 DEF ReadInv, CopyInv
  <2>2. PICK off \in [1 .. Len(sent) + 1 -> Nat] : Laid(src, sent, src.mNumChunks, off)
    BY <2>1 DEF Holds
  <2>3. src.mNumChunks \in Nat
    BY DEF MessageInv, TypeOK, IsMessage
  <2>4. ASSUME next < Len(sent)
        PROVE  /\ ReadParam(src, next) = sent[next + 1]
               /\ getParamType(src, next) = sent[next + 1].type
    <3>1. next + 1 \in 1 .. Len(sent) /\ (next + 1) - 1 = next /\ next + 1 \in Nat /\ next + 1 >= 1
      BY <1>0, <2>1, <2>4
    <3>2. next + 1 <= ParamNumMod
      BY <1>0, <2>1, <3>1, MessageAssumption
    <3>3. FirstOfNumber(next + 1) = next + 1
      BY <3>1, <3>2, FirstCarrier
    <3>4. /\ ReadParam(src, (next + 1) - 1) = sent[FirstOfNumber(next + 1)]
          /\ getParamType(src, (next + 1) - 1) = sent[FirstOfNumber(next + 1)].type
      BY <1>0, <2>1, <2>2, <2>3, <3>1, ReadLaid
    <3> QED BY <3>1, <3>3, <3>4
  <2>5. src.mNumParam = Len(sent)
    BY <1>0, <2>1, HoldsCount
  <2> QED BY <2>1, <2>4, <2>5
<1>12. CASE CopyParam
  <2>1. /\ pc = "copy" /\ next < src.mNumParam /\ next' = next + 1
        /\ UNCHANGED <<src, mode, sent, intact>>
        /\ mode \in {"push", "pop"}
    BY <1>12 DEF CopyParam, ReadInv
  <2>2. pc' \in {"copy", "double", "store"}
    BY <1>12, <2>1 DEF CopyParam, StartAdd
  <2>3. ASSUME intact PROVE CopyInv' /\ AddInv' /\ ArgInv'
    <3>1. /\ next \in 0 .. Len(sent) /\ next < Len(sent)
          /\ ReadParam(src, next) = sent[next + 1]
          /\ getParamType(src, next) = sent[next + 1].type
      BY <1>11, <2>1, <2>3
    <3>2. next + 1 \in 1 .. Len(sent) /\ (next + 1) - 1 = next /\ next + 1 \in 0 .. Len(sent)
      BY <1>0, <3>1
    <3>3. CopyInv'
      BY <2>1, <2>3, <3>2 DEF ReadInv, CopyInv
    <3>4. Held = Carried(sent, mode)[next] /\ Holds(msg, Held, msg.mNumChunks)
      BY <2>1, <2>3 DEF ReadInv, AddInv, Held
    <3>5. Held \in Seq(Params)
      BY <1>0, <3>1, <3>4, CarriedType
    <3>6. CASE sent[next + 1].type \in Copies(mode)
      <4>1. StartAdd(sent[next + 1])
        BY <1>12, <3>1, <3>6 DEF CopyParam
      <4>2. sent[next + 1] \in Params
        BY <1>0, <3>2, ElementOfSeq
      <4>3. /\ Holds(msg', Held, msg'.mNumChunks - Size(sent[next + 1]))
            /\ arg' = sent[next + 1] /\ pc' \in {"double", "store"}
        BY <3>4, <3>5, <4>1, <4>2, StartHolds
      <4>4. Held' = Held
        BY <2>1, <3>2, <3>4, <4>3 DEF Held
      <4>5. AddInv'
        BY <4>3, <4>4 DEF AddInv
      <4>6. ArgInv'
        BY <2>1, <3>2, <3>6, <4>3 DEF ArgInv
      <4> QED BY <3>3, <4>5, <4>6
    <3>7. CASE sent[next + 1].type \notin Copies(mode)
      <4>1. UNCHANGED <<msg, arg, pc>>
        BY <1>12, <3>1, <3>7 DEF CopyParam
      <4>2. Held' = Carried(sent, mode)[next + 1]
        BY <2>1, <4>1 DEF Held
      <4>3. Carried(sent, mode)[next + 1] = Carried(sent, mode)[next]
        BY <1>0, <3>2, <3>7, CarriedStep
      <4>4. AddInv'
        BY <2>1, <3>4, <4>1, <4>2, <4>3 DEF AddInv
      <4>5. ArgInv'
        BY <2>1, <4>1 DEF ArgInv
      <4> QED BY <3>3, <4>4, <4>5
    <3> QED BY <3>6, <3>7
  <2>4. ASSUME ~intact PROVE ArgInv'
    BY <2>1, <2>4 DEF ArgInv
  <2> QED BY <1>0, <2>1, <2>2, <2>3, <2>4 DEF ReadInv
<1>13. CASE EndCopy
  <2>1. /\ pc = "copy" /\ pc' = "ready" /\ next = src.mNumParam
        /\ mode' = "build" /\ sent' = Carried(sent, mode)[Len(sent)]
        /\ UNCHANGED <<msg, intact>>
    BY <1>13 DEF EndCopy
  <2>2. sent' \in Seq(Params)
    <3>1. Len(sent) \in 0 .. Len(sent)
      BY <1>0
    <3> QED BY <1>0, <2>1, <3>1, CarriedType
  <2>3. ASSUME intact PROVE AddInv'
    <3>1. next = Len(sent)
      BY <1>11, <2>1, <2>3
    <3>2. Holds(msg, Held, msg.mNumChunks) /\ Held = Carried(sent, mode)[next]
      BY <2>1, <2>3 DEF ReadInv, AddInv, Held
    <3>3. Held' = sent'
      BY <2>1 DEF Held
    <3> QED BY <2>1, <3>1, <3>2, <3>3 DEF AddInv
  <2> QED BY <2>1, <2>2, <2>3 DEF ReadInv, ArgInv, CopyInv
<1>14. CASE StorePast \/ UNCHANGED vars
  BY <1>14 DEF StorePast, vars, ReadInv, ArgInv, AddInv, CopyInv, Held
<1> QED
  BY <1>1, <1>2, <1>3, <1>4, <1>6, <1>7, <1>8, <1>9, <1>10, <1>12, <1>13, <1>14
  DEF Next, AddStep, CopyStep, push_Message, pop_Message

\* A message whose strings were all added where addString works gives back what
\* was added, in order, through any growth and any copies into Lua and back.
THEOREM MessageReadsBack == Spec => []ReadsBack
<1>1. MessageInv /\ ReadInv => ReadsBack
  <2> SUFFICES ASSUME MessageInv, ReadInv, pc = "ready", intact
               PROVE  /\ msg.mNumParam = Len(sent)
                      /\ \A p \in 1 .. Len(sent) :
                           Readable(p) => ReadParam(msg, p - 1) = sent[FirstOfNumber(p)]
    BY DEF ReadsBack
  <2>1. sent \in Seq(Params) /\ Holds(msg, sent, msg.mNumChunks)
    BY DEF ReadInv, AddInv, Held
  <2>2. msg.mNumParam = Len(sent)
    BY <2>1, HoldsCount
  <2>3. PICK off \in [1 .. Len(sent) + 1 -> Nat] : Laid(msg, sent, msg.mNumChunks, off)
    BY <2>1 DEF Holds
  <2>4. msg.mNumChunks \in Nat
    BY DEF MessageInv, TypeOK, IsMessage
  <2>5. ASSUME NEW p \in 1 .. Len(sent), Readable(p)
        PROVE  ReadParam(msg, p - 1) = sent[FirstOfNumber(p)]
    BY <2>1, <2>3, <2>4, <2>5, ReadLaid DEF Readable
  <2> QED BY <2>2, <2>5
<1> QED BY <1>1, InitInv, NextInv, InitRead, NextRead, PTL DEF Spec

-----------------------------------------------------------------------------
(***************************************************************************)
(* Where addString stores.  NumInv: a message has at most as many more     *)
(* parameters than chunks as it has empty strings, and a copy, which drops *)
(* those, never has more.                                                  *)
(***************************************************************************)
Pending == IF pc \in {"double", "store"} THEN Len(ChunksOf(arg)) ELSE 0
Copying == mode \in {"push", "pop"}

NumInv ==
    /\ sent \in Seq(Params)
    /\ Len(ChunksOf(arg)) \in Nat
    /\ Pending <= msg.mNumChunks
    /\ Copying => msg.mNumParam <= msg.mNumChunks - Pending
    /\ ~Copying => msg.mNumParam <= msg.mNumChunks - Pending + Cardinality(Empties)
    /\ pc \in {"double", "store"} => IF Copying THEN Len(ChunksOf(arg)) >= 1 ELSE arg \in Params
    /\ pc = "copy" => Copying
    /\ pc = "ready" => ~Copying
    /\ todo # <<>> => mode = "create"

\* There are finitely many empty strings in a message, and adding a parameter
\* adds one if it is one.
LEMMA EmptiesType ==
    ASSUME sent \in Seq(Params)
    PROVE  IsFiniteSet(Empties) /\ Cardinality(Empties) \in Nat
<1>1. IsFiniteSet(1 .. Len(sent))
  BY LenProperties, FS_Interval
<1>2. Empties \in SUBSET (1 .. Len(sent))
  BY DEF Empties
<1> QED BY <1>1, <1>2, FS_Subset, FS_CardinalityType

LEMMA EmptiesAppend ==
    ASSUME sent \in Seq(Params), NEW p, sent' = Append(sent, p), sent' \in Seq(Params)
    PROVE  Cardinality(Empties)' = Cardinality(Empties) + IF ChunksOf(p) = <<>> THEN 1 ELSE 0
<1> DEFINE n == Len(sent) + 1
<1>1. /\ Len(sent) \in Nat
      /\ Len(sent') = n
      /\ \A q \in 1 .. Len(sent) : sent'[q] = sent[q]
      /\ sent'[n] = p
  <2>1. Len(Append(sent, p)) = Len(sent) + 1
    BY LenProperties
  <2> QED BY <2>1, LenProperties
<1>2. Empties' = Empties \cup {q \in {n} : ChunksOf(p) = <<>>}
  BY <1>1 DEF Empties
<1>3. n \notin Empties
  BY <1>1 DEF Empties
<1>4. IsFiniteSet(Empties) /\ Cardinality(Empties) \in Nat
  BY EmptiesType
<1>5. CASE ChunksOf(p) = <<>>
  <2>1. Empties' = Empties \cup {n}
    BY <1>2, <1>5
  <2>2. Cardinality(Empties \cup {n}) = Cardinality(Empties) + 1
    BY <1>3, <1>4, FS_AddElement
  <2> QED BY <1>5, <2>1, <2>2
<1>6. CASE ChunksOf(p) # <<>>
  <2>1. Empties' = Empties
    BY <1>2, <1>6
  <2> QED BY <1>4, <1>6, <2>1
<1> QED BY <1>5, <1>6

\* A string read back from a message has a piece: only numbers found are read.
LEMMA CopiedOne ==
    ASSUME IsMessage(src), getParamType(src, next) \in {"i", "f", "g", "s"}
    PROVE  Len(ChunksOf(ReadParam(src, next))) >= 1
<1>1. CASE getParamType(src, next) # "s"
  BY <1>1 DEF ReadParam, ChunksOf
<1>2. CASE getParamType(src, next) = "s"
  <2> DEFINE found == Matches(src, next)
             n == Cardinality(found)
             raw == [k \in 1 .. n |-> src.mParams[Min(found) + k - 1].mData]
             ends == {k \in 1 .. Len(raw) : raw[k] \in TailChunks}
  <2>1. src.mNumChunks \in Nat
    BY DEF IsMessage
  <2>2. found # {}
    BY <1>2 DEF getParamType
  <2>3. n \in Nat /\ n >= 1
    <3>1. IsFiniteSet(0 .. src.mNumChunks - 1)
      BY <2>1, FS_Interval
    <3>2. found \in SUBSET (0 .. src.mNumChunks - 1)
      BY DEF Matches
    <3>3. IsFiniteSet(found)
      BY <3>1, <3>2, FS_Subset
    <3>4. n \in Nat /\ n # 0
      BY <2>2, <3>3, FS_CardinalityType, FS_EmptySet
    <3> HIDE DEF n
    <3> QED BY <3>4
  <2>4. ChunksOf(ReadParam(src, next)) = CutAtNul(raw)
    BY <1>2, <2>2 DEF ReadParam, ChunksOf, getString
  <2> HIDE DEF n
  <2>5. DOMAIN raw = 1 .. n /\ Len(raw) = n
    BY <2>3
  <2>6. CASE ends = {}
    BY <2>3, <2>4, <2>5, <2>6 DEF CutAtNul
  <2>7. CASE ends # {}
    <3>1. ends \in SUBSET Nat
      BY <2>3, <2>5
    <3>2. Min(ends) \in ends
      <4> HIDE DEF ends
      <4> QED BY <2>7, <3>1, MinOfNaturals
    <3>3. Min(ends) \in 1 .. n
      BY <2>5, <3>2
    <3> HIDE DEF ends, raw
    <3>4. Len(SubSeq(raw, 1, Min(ends))) >= 1
      BY <2>3, <2>5, <3>3
    <3> USE DEF ends
    <3> QED BY <2>4, <2>7, <3>4 DEF CutAtNul
  <2> QED BY <2>6, <2>7
<1> QED BY <1>1, <1>2

LEMMA InitNum == Init => NumInv
<1> SUFFICES ASSUME Init PROVE NumInv
  OBVIOUS
<1>1. PICK j \in Junk : msg = NewMessage(START_CHUNK_NUM, j)
  BY DEF Init
<1>2. msg.mNumParam = 0 /\ msg.mNumChunks = 0
  BY <1>1 DEF NewMessage
<1>3. sent \in Seq(Params)
  BY EmptySeq DEF Init
<1>4. Cardinality(Empties) \in Nat
  BY <1>3, EmptiesType
<1>5. Len(ChunksOf(arg)) \in Nat
  BY DEF Init, NoParam, ChunksOf
<1> QED BY <1>2, <1>3, <1>4, <1>5 DEF Init, NumInv, Copying, Pending

\* Starting an add counts the chunks that are then pending.
LEMMA StartNum ==
    ASSUME MessageInv, NumInv, NEW p, Len(ChunksOf(p)) \in Nat, pc \in {"ready", "copy"}, StartAdd(p)
    PROVE  /\ pc' \in {"double", "store"} /\ arg' = p
           /\ msg'.mNumParam = msg.mNumParam
           /\ Pending = 0
           /\ msg'.mNumChunks - Pending' = msg.mNumChunks
           /\ Pending' <= msg'.mNumChunks
           /\ msg.mNumParam \in Nat /\ msg.mNumChunks \in Nat
<1>1. IsMessage(msg)
  BY DEF MessageInv, TypeOK
<1>2. /\ pc' \in {"double", "store"} /\ arg' = p
      /\ msg'.mNumParam = msg.mNumParam
      /\ msg'.mNumChunks = msg.mNumChunks + Len(ChunksOf(p))
      /\ msg.mNumParam \in Nat /\ msg.mNumChunks \in Nat
  BY <1>1 DEF StartAdd, IsMessage
<1>3. Pending = 0 /\ Pending' = Len(ChunksOf(p))
  BY <1>2 DEF Pending
<1> QED BY <1>2, <1>3

LEMMA ClientStartNum ==
    ASSUME MessageInv, NumInv, NEW p \in Params, pc = "ready", StartAdd(p),
           mode' \in {"build", "create"}, sent' = sent, todo' # <<>> => mode' = "create"
    PROVE  NumInv'
<1>1. Len(ChunksOf(p)) \in Nat
  BY ClientChunks
<1>2. /\ pc' \in {"double", "store"} /\ arg' = p
      /\ msg'.mNumParam = msg.mNumParam
      /\ Pending = 0
      /\ msg'.mNumChunks - Pending' = msg.mNumChunks
      /\ Pending' <= msg'.mNumChunks
      /\ msg.mNumParam \in Nat /\ msg.mNumChunks \in Nat
  BY <1>1, StartNum
<1>3. ~Copying /\ ~Copying'
  BY DEF NumInv, Copying
<1>4. Empties' = Empties
  BY DEF Empties
<1>5. msg.mNumParam <= msg.mNumChunks - Pending + Cardinality(Empties) /\ Cardinality(Empties) \in Nat
  BY <1>3, EmptiesType DEF NumInv
<1>6. msg'.mNumParam <= msg'.mNumChunks - Pending' + Cardinality(Empties')
  BY <1>2, <1>4, <1>5
<1> QED BY <1>1, <1>2, <1>3, <1>6 DEF NumInv

LEMMA NextNum == MessageInv /\ NumInv /\ [Next]_vars => NumInv'
<1> SUFFICES ASSUME MessageInv, NumInv, [Next]_vars PROVE NumInv'
  OBVIOUS
<1>0. /\ IsMessage(msg) /\ msg.mNumParam \in Nat /\ msg.mNumChunks \in Nat
      /\ Cardinality(Empties) \in Nat /\ sent \in Seq(Params) /\ Len(ChunksOf(arg)) \in Nat
  BY EmptiesType DEF MessageInv, TypeOK, IsMessage, NumInv
<1>1. ASSUME NEW p \in Params, addScalar(p) PROVE NumInv'
  BY <1>1, ClientStartNum DEF addScalar, ClientMayAdd
<1>2. CASE addInt \/ addFloat \/ addGameObject
  <2>1. PICK p \in Params : addScalar(p)
    BY <1>2 DEF addInt, addFloat, addGameObject, Params, Scalars
  <2> QED BY <1>1, <2>1
<1>3. CASE addString
  <2>1. PICK s \in Strings : StartAdd([type |-> "s", val |-> s])
    BY <1>3 DEF addString
  <2>2. [type |-> "s", val |-> s] \in Params
    BY DEF Params, Scalars
  <2> QED BY <1>3, <2>1, <2>2, ClientStartNum DEF addString, ClientMayAdd
<1>4. CASE AddNextArgument
  <2>1. Head(todo) \in Params
    BY <1>4, HeadTailProperties DEF AddNextArgument, MessageInv, TypeOK
  <2>2. mode' = "create" /\ mode = "create"
    BY <1>4 DEF AddNextArgument, NumInv
  <2> QED BY <1>4, <2>1, <2>2, ClientStartNum DEF AddNextArgument
<1>5. CASE Double \/ Reallocate
  <2>1. /\ pc \in {"double", "store"} /\ pc' \in {"double", "store"}
        /\ UNCHANGED <<mode, arg, sent, todo>>
        /\ msg'.mNumParam = msg.mNumParam /\ msg'.mNumChunks = msg.mNumChunks
    BY <1>0, <1>5 DEF Double, Reallocate, ReallocateWith, IsMessage
  <2>2. Pending' = Pending /\ Copying' = Copying /\ Empties' = Empties
    BY <2>1 DEF Pending, Copying, Empties
  <2> QED BY <2>1, <2>2 DEF NumInv
<1>6. CASE Store
  <2>1. /\ pc = "store" /\ pc' = (IF Copying THEN "copy" ELSE "ready")
        /\ UNCHANGED <<mode, todo>> /\ arg' = NoParam
        /\ sent' = (IF Copying THEN sent ELSE Append(sent, arg))
        /\ msg'.mNumParam = msg.mNumParam + 1 /\ msg'.mNumChunks = msg.mNumChunks
    BY <1>0, <1>6 DEF Store, Copying, IsMessage
  <2>2. Pending' = 0 /\ Copying' = Copying /\ Pending = Len(ChunksOf(arg))
    BY <2>1 DEF Pending, Copying
  <2>3. Len(ChunksOf(arg))' \in Nat
    BY <2>1 DEF NoParam, ChunksOf
  <2>4. CASE Copying
    <3>1. msg.mNumParam <= msg.mNumChunks - Pending /\ Len(ChunksOf(arg)) >= 1
      BY <2>1, <2>4 DEF NumInv
    <3>2. msg'.mNumParam <= msg'.mNumChunks - Pending'
      BY <1>0, <2>1, <2>2, <3>1
    <3> QED BY <1>0, <2>1, <2>2, <2>3, <2>4, <3>2 DEF NumInv
  <2>5. CASE ~Copying
    <3>1. msg.mNumParam <= msg.mNumChunks - Pending + Cardinality(Empties)
      BY <2>5 DEF NumInv
    <3>2. sent' = Append(sent, arg) /\ sent' \in Seq(Params) /\ arg \in Params
      BY <1>0, <2>1, <2>5, AppendProperties DEF NumInv
    <3>3. Cardinality(Empties)' = Cardinality(Empties) + IF ChunksOf(arg) = <<>> THEN 1 ELSE 0
      BY <1>0, <3>2, EmptiesAppend
    <3>4. ChunksOf(arg) # <<>> => Len(ChunksOf(arg)) >= 1
      BY <3>2, ChunksAppear
    <3>5. msg'.mNumParam <= msg'.mNumChunks - Pending' + Cardinality(Empties)'
      <4>1. CASE ChunksOf(arg) = <<>>
        <5>1. Len(ChunksOf(arg)) = 0
          BY <4>1, EmptySeq
        <5> QED BY <1>0, <2>1, <2>2, <3>1, <3>3, <4>1, <5>1
      <4>2. CASE ChunksOf(arg) # <<>>
        BY <1>0, <2>1, <2>2, <3>1, <3>3, <3>4, <4>2
      <4> QED BY <4>1, <4>2
    <3> QED BY <1>0, <2>1, <2>2, <2>3, <2>5, <3>2, <3>5 DEF NumInv
  <2> QED BY <2>4, <2>5
<1>7. CASE StorePast
  <2>1. /\ pc = "store" /\ pc' = "undefined"
        /\ UNCHANGED <<msg, mode, arg, sent, todo>>
    BY <1>7 DEF StorePast
  <2>2. Copying' = Copying /\ Empties' = Empties /\ Pending' = 0 /\ Pending = Len(ChunksOf(arg))
    BY <2>1 DEF Copying, Empties, Pending
  <2> QED BY <1>0, <2>1, <2>2 DEF NumInv
<1>8. CASE createMessage
  <2>0. PICK args \in CreateArgs : \E wild \in [Wild(args) -> 0 .. MaxWild], j \in Junk :
          msg' = NewMessage(ChunksCounted(args, wild), j)
    BY <1>8 DEF createMessage
  <2>1. PICK wild \in [Wild(args) -> 0 .. MaxWild], j \in Junk :
          msg' = NewMessage(ChunksCounted(args, wild), j)
    BY <2>0
  <2>2. msg'.mNumParam = 0 /\ msg'.mNumChunks = 0
    BY <2>1 DEF NewMessage
  <2>3. sent' = <<>> /\ sent' \in Seq(Params) /\ mode' = "create" /\ pc' \in {"ready", "undefined"} /\ arg' = arg
    BY <1>8, EmptySeq DEF createMessage
  <2>4. Cardinality(Empties)' \in Nat
    <3>1. IsFiniteSet(1 .. Len(sent'))
      BY <2>3, LenProperties, FS_Interval
    <3>2. Empties' \in SUBSET (1 .. Len(sent'))
      BY DEF Empties
    <3> QED BY <3>1, <3>2, FS_Subset, FS_CardinalityType
  <2>5. Pending' = 0 /\ ~Copying'
    BY <2>3 DEF Pending, Copying
  <2> QED BY <1>0, <2>2, <2>3, <2>4, <2>5 DEF NumInv
<1>9. ASSUME NEW how \in {"push", "pop"}, StartCopy(how) PROVE NumInv'
  <2>1. PICK j \in Junk : msg' = NewMessage(START_CHUNK_NUM, j)
    BY <1>9 DEF StartCopy
  <2>2. msg'.mNumParam = 0 /\ msg'.mNumChunks = 0
    BY <2>1 DEF NewMessage
  <2>3. /\ todo = <<>> /\ pc' = "copy" /\ mode' = how
        /\ UNCHANGED <<todo, arg, sent>>
    BY <1>9 DEF StartCopy
  <2>4. Pending' = 0 /\ Copying'
    BY <2>3 DEF Pending, Copying
  <2> QED BY <1>0, <2>2, <2>3, <2>4 DEF NumInv
<1>10. CASE CopyParam
  <2>1. /\ pc = "copy" /\ Copying /\ Copying' = Copying
        /\ UNCHANGED <<mode, sent, todo>>
    BY <1>10 DEF CopyParam, NumInv, Copying
  <2>2. CASE getParamType(src, next) \in Copies(mode)
    <3> DEFINE p == ReadParam(src, next)
    <3>1. StartAdd(p)
      BY <1>10, <2>2 DEF CopyParam
    <3>2. IsMessage(src)
      BY DEF MessageInv, TypeOK
    <3>3. Len(ChunksOf(p)) \in Nat /\ Len(ChunksOf(p)) >= 1
      BY <2>2, <3>2, CopiedChunks, CopiedOne DEF Copies
    <3> HIDE DEF p
    <3>4. /\ pc' \in {"double", "store"} /\ arg' = p
          /\ msg'.mNumParam = msg.mNumParam
          /\ Pending = 0
          /\ msg'.mNumChunks - Pending' = msg.mNumChunks
          /\ Pending' <= msg'.mNumChunks
      BY <2>1, <3>1, <3>3, StartNum
    <3>5. msg.mNumParam <= msg.mNumChunks - Pending
      BY <2>1 DEF NumInv
    <3>6. msg'.mNumParam <= msg'.mNumChunks - Pending'
      BY <1>0, <3>4, <3>5
    <3> QED BY <1>0, <2>1, <3>3, <3>4, <3>6 DEF NumInv
  <2>3. CASE getParamType(src, next) \notin Copies(mode)
    <3>1. UNCHANGED <<msg, arg, pc>>
      BY <1>10, <2>3 DEF CopyParam
    <3>2. Pending' = Pending /\ Empties' = Empties
      BY <2>1, <3>1 DEF Pending, Empties
    <3> QED BY <2>1, <3>1, <3>2 DEF NumInv
  <2> QED BY <2>2, <2>3
<1>11. CASE EndCopy
  <2>1. /\ pc = "copy" /\ pc' = "ready" /\ mode' = "build" /\ Copying
        /\ UNCHANGED <<msg, arg, todo>>
        /\ sent' = Carried(sent, mode)[Len(sent)]
    BY <1>11 DEF EndCopy, NumInv
  <2>2. sent' \in Seq(Params)
    <3>1. Len(sent) \in 0 .. Len(sent)
      BY <1>0, LenProperties
    <3> QED BY <1>0, <2>1, <3>1, CarriedType
  <2>3. Cardinality(Empties)' \in Nat
    <3>1. IsFiniteSet(1 .. Len(sent'))
      BY <2>2, LenProperties, FS_Interval
    <3>2. Empties' \in SUBSET (1 .. Len(sent'))
      BY DEF Empties
    <3> QED BY <3>1, <3>2, FS_Subset, FS_CardinalityType
  <2>4. Pending' = 0 /\ Pending = 0 /\ ~Copying'
    BY <2>1 DEF Pending, Copying
  <2>5. msg.mNumParam <= msg.mNumChunks
    BY <1>0, <2>1, <2>4 DEF NumInv
  <2>6. msg'.mNumParam <= msg'.mNumChunks - Pending' + Cardinality(Empties)'
    BY <1>0, <2>1, <2>3, <2>4, <2>5
  <2>7. todo = <<>>
    BY <2>1 DEF NumInv, Copying
  <2> QED BY <1>0, <2>1, <2>2, <2>4, <2>6, <2>7 DEF NumInv
<1>12. CASE UNCHANGED vars
  BY <1>12 DEF vars, NumInv, Copying, Pending, Empties
<1> QED
  BY <1>2, <1>3, <1>4, <1>5, <1>6, <1>7, <1>8, <1>9, <1>10, <1>11, <1>12
  DEF Next, AddStep, CopyStep, push_Message, pop_Message

\* No add stores further past the end of the array than the message has empty
\* strings; without any, none stores outside it.
THEOREM MessageStoresInBounds == Spec => []StoresInBounds
<1>1. MessageInv /\ NumInv => StoresInBounds
  <2> SUFFICES ASSUME MessageInv, NumInv, pc = "store",
                      NEW k \in 1 .. Len(ChunksOf(arg))
               PROVE  StoreIndex(arg, k) \in 0 .. msg.mMaxChunks - 1 + Cardinality(Empties)
    BY DEF StoresInBounds
  <2> DEFINE len == Len(ChunksOf(arg))
             extra == Cardinality(Empties)
  <2>1. /\ msg.mNumParam \in Nat /\ msg.mNumChunks \in Nat /\ msg.mMaxChunks \in Nat
        /\ msg.mNumChunks <= msg.mMaxChunks
    BY DEF MessageInv, TypeOK, ChunksFit, IsMessage
  <2>2. len \in Nat /\ extra \in Nat
    BY EmptiesType DEF NumInv
  <2>3. msg.mNumParam <= msg.mNumChunks - len + extra
    <3>1. Pending = len
      BY DEF Pending
    <3>2. CASE Copying
      <4>1. msg.mNumParam <= msg.mNumChunks - len
        BY <3>1, <3>2 DEF NumInv
      <4> HIDE DEF len, extra
      <4> QED BY <2>1, <2>2, <4>1
    <3>3. CASE ~Copying
      BY <3>1, <3>3 DEF NumInv
    <3> QED BY <3>2, <3>3
  <2>7. len <= msg.mNumChunks
    BY DEF NumInv, Pending
  <2>4. k \in Int /\ 1 <= k /\ k <= len
    BY <2>2
  <2>5. StoreIndex(arg, k) \in {msg.mNumParam + k - 1, msg.mNumChunks - 1}
    BY DEF StoreIndex
  <2> HIDE DEF len, extra
  <2>6. StoreIndex(arg, k) \in 0 .. msg.mMaxChunks - 1 + extra
    <3>1. CASE StoreIndex(arg, k) = msg.mNumParam + k - 1
      BY <2>1, <2>2, <2>3, <2>4, <3>1
    <3>2. CASE StoreIndex(arg, k) = msg.mNumChunks - 1
      BY <2>1, <2>2, <2>4, <2>7, <3>2
    <3> QED BY <2>5, <3>1, <3>2
  <2> QED BY <2>6 DEF extra
<1> QED BY <1>1, InitInv, NextInv, InitNum, NextNum, PTL DEF Spec
=============================================================================
