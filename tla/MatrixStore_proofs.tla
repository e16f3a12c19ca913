------------------------- MODULE MatrixStore_proofs -------------------------
(***************************************************************************)
(* The storage of matrix.h is right for every number of matrices, element  *)
(* types, shapes and blocks.  Every statement either points one matrix to  *)
(* a block or overwrites one block, so that the invariant is proved once   *)
(* for each of the two and every action is reduced to one of them.         *)
(***************************************************************************)
EXTENDS MatrixStore, BufferTheorems

ShapeSet == [row : Nat, col : Nat, chan : Nat]

IInv == TypeOK /\ NoLeak /\ ShapeFits /\ AliasesAgree

(***************************************************************************)
(* What a statement must establish to point handle h to block b of a heap  *)
(* hp, with shape s, where alive says whether h is in scope afterwards.    *)
(***************************************************************************)
Sound(h, s, b, hp, alive) ==
  /\ h \in Handles /\ s \in ShapeSet /\ b \in Blocks \cup {Null}
  /\ live' = IF alive THEN live \cup {h} ELSE live \ {h}
  /\ ~alive => b = Null
  /\ DOMAIN heap \subseteq DOMAIN hp
  /\ DOMAIN hp \subseteq DOMAIN heap \cup {b}
  /\ \A c \in DOMAIN heap : hp[c] = heap[c]
  /\ b = Null => Len(s) = 0 /\ DOMAIN hp = DOMAIN heap
  /\ b # Null => b \in DOMAIN hp /\ DOMAIN hp[b] = Cells(s)
  /\ b # Null => \A g \in live \ {h} : ptr[g] = b => shape[g] = s /\ Type[g] = Type[h]

LEMMA NatProduct == ASSUME NEW x \in Nat, NEW y \in Nat PROVE x * y \in Nat
OBVIOUS

\* The use counts follow the owners of the blocks.
LEMMA PointCounts ==
  ASSUME IInv, NEW h, NEW s, NEW b, NEW hp, NEW alive \in BOOLEAN,
         Sound(h, s, b, hp, alive), Point(h, s, b, hp)
  PROVE  \A c \in Blocks : /\ uses'[c] = Cardinality(Owners(c)')
                           /\ uses'[c] \in Nat
                           /\ uses'[c] > 0 <=> Owners(c)' # {}
<1> TAKE c \in Blocks
<1> USE StoreAssumption
<1>1. /\ IsFiniteSet(Owners(c)) /\ IsFiniteSet(Owners(c)') /\ Owners(c) \subseteq Handles
  <2>1. Owners(c) \subseteq Handles /\ Owners(c)' \subseteq Handles
    BY DEF IInv, TypeOK, Owners, Sound
  <2> QED  BY <2>1, FS_Subset
<1>2. uses[c] = Cardinality(Owners(c)) /\ uses[c] \in Nat
  BY DEF IInv, NoLeak, TypeOK
<1>3. ptr[h] = c <=> h \in Owners(c)
  BY DEF IInv, NoLeak, TypeOK, Owners, Sound
<1>4. uses'[c] = uses[c] + Count(c = b) - Count(c = ptr[h])
  BY DEF Point
<1>5. Owners(c)' = (Owners(c) \ {h}) \cup (IF c = b THEN {h} ELSE {})
  <2>1. ptr' = [ptr EXCEPT ![h] = b] /\ ptr \in [Handles -> Blocks \cup {Null}] /\ live \subseteq Handles
    BY DEF Point, IInv, TypeOK
  <2>2. c # Null
    OBVIOUS
  <2> QED  BY <2>1, <2>2 DEF Owners, Sound
<1>6. uses'[c] = Cardinality(Owners(c)')
  <2> DEFINE O == Owners(c)
  <2>1. Cardinality(O \ {h}) = IF h \in O THEN Cardinality(O) - 1 ELSE Cardinality(O)
    BY <1>1, FS_RemoveElement
  <2>2. IsFiniteSet(O \ {h})
    BY <1>1, FS_Subset
  <2>3. Cardinality((O \ {h}) \cup {h}) = Cardinality(O \ {h}) + 1
    BY <2>2, FS_AddElement
  <2>4. Cardinality(O \ {h}) \in Nat /\ Cardinality(O) \in Nat
    BY <1>1, <2>2, FS_CardinalityType
  <2>5. CASE c = b
    <3>1. Owners(c)' = (O \ {h}) \cup {h}
      BY <1>5, <2>5
    <3> QED  BY <3>1, <2>1, <2>3, <2>4, <2>5, <1>2, <1>3, <1>4 DEF Count
  <2>6. CASE c # b
    <3>1. Owners(c)' = O \ {h}
      BY <1>5, <2>6
    <3> QED  BY <3>1, <2>1, <2>4, <2>6, <1>2, <1>3, <1>4 DEF Count
  <2> QED  BY <2>5, <2>6
<1>7. Cardinality(Owners(c)') \in Nat /\ (Cardinality(Owners(c)') = 0 <=> Owners(c)' = {})
  BY <1>1, FS_CardinalityType, FS_EmptySet
<1> QED  BY <1>6, <1>7

LEMMA PointKeeps ==
  ASSUME IInv, NEW h, NEW s, NEW b, NEW hp, NEW alive \in BOOLEAN,
         Sound(h, s, b, hp, alive), Point(h, s, b, hp)
  PROVE  IInv'
<1> USE StoreAssumption
<1>1. \A c \in Blocks : /\ uses'[c] = Cardinality(Owners(c)')
                        /\ uses'[c] \in Nat
                        /\ uses'[c] > 0 <=> Owners(c)' # {}
  BY PointCounts
<1>2. TypeOK'
  <2>1. shape' \in [Handles -> [row : Nat, col : Nat, chan : Nat]]
    BY DEF Sound, Point, IInv, TypeOK, ShapeSet
  <2>2. ptr' \in [Handles -> Blocks \cup {Null}]
    BY DEF Sound, Point, IInv, TypeOK
  <2>3. uses' = [c \in Blocks |-> uses[c] + Count(c = b) - Count(c = ptr[h])]
    BY DEF Point
  <2>4. uses' \in [Blocks -> Nat]
    BY <2>3, <1>1
  <2>5. DOMAIN heap' \subseteq Blocks /\ live' \subseteq Handles /\ status' = status
    BY DEF Sound, Point, IInv, TypeOK
  <2> QED  BY <2>1, <2>2, <2>4, <2>5 DEF TypeOK, IInv
<1>3. DOMAIN heap' = {c \in Blocks : Owners(c)' # {}}
  <2>1. DOMAIN heap' = {x \in DOMAIN hp : uses'[x] > 0}
    BY DEF Point
  <2>2. DOMAIN hp \subseteq Blocks
    BY DEF Sound, IInv, TypeOK
  <2>3. ASSUME NEW c \in Blocks, Owners(c)' # {}  PROVE c \in DOMAIN hp
    <3>1. PICK g \in live' : ptr'[g] = c
      BY <2>3 DEF Owners
    <3>2. CASE g = h
      <4>1. c = b /\ b # Null
        BY <3>1, <3>2 DEF Point, Sound, IInv, TypeOK
      <4> QED  BY <4>1 DEF Sound
    <3>3. CASE g # h
      <4>1. g \in live /\ ptr[g] = c
        BY <3>1, <3>3 DEF Point, Sound, IInv, TypeOK
      <4>2. c \in DOMAIN heap
        BY <4>1 DEF IInv, NoLeak, Owners
      <4> QED  BY <4>2 DEF Sound
    <3> QED  BY <3>2, <3>3
  <2> QED  BY <1>1, <2>1, <2>2, <2>3
<1>4. NoLeak'
  <2>1. \A g \in Handles \ live' : ptr'[g] = Null
    BY DEF Point, Sound, IInv, NoLeak, TypeOK
  <2> QED  BY <1>1, <1>3, <2>1 DEF NoLeak
<1>5. \A g \in live' : ptr'[g] # Null => ptr'[g] \in DOMAIN heap' /\ heap'[ptr'[g]] = hp[ptr'[g]]
  <2> TAKE g \in live'
  <2> HAVE ptr'[g] # Null
  <2>1. ptr'[g] \in Blocks
    BY <1>2 DEF TypeOK
  <2>2. heap' = [c \in {x \in DOMAIN hp : uses'[x] > 0} |-> hp[c]]
    BY DEF Point
  <2>3. ptr'[g] \in DOMAIN heap'
    <3>1. \E k \in live' : ptr'[k] = ptr'[g]
      OBVIOUS
    <3> QED  BY <1>3, <2>1, <3>1 DEF Owners
  <2> QED  BY <2>2, <2>3
<1>6. ASSUME NEW g \in live', g # h  PROVE g \in live /\ shape'[g] = shape[g] /\ ptr'[g] = ptr[g]
  BY <1>6 DEF Point, Sound, IInv, TypeOK
<1>7. h \in live' => shape'[h] = s /\ ptr'[h] = b
  BY DEF Point, Sound, IInv, TypeOK
<1>8. ShapeFits'
  <2> SUFFICES ASSUME NEW g \in live'
               PROVE  IF ptr'[g] = Null THEN Len(shape'[g]) = 0
                                        ELSE DOMAIN heap'[ptr'[g]] = Cells(shape'[g])
    BY DEF ShapeFits, Data, Len, Cells
  <2>1. CASE g = h
    BY <2>1, <1>5, <1>7 DEF Sound
  <2>2. CASE g # h
    <3>1. g \in live /\ shape'[g] = shape[g] /\ ptr'[g] = ptr[g]
      BY <1>6, <2>2
    <3>2. IF ptr[g] = Null THEN Len(shape[g]) = 0 ELSE DOMAIN heap[ptr[g]] = Cells(shape[g])
      BY <3>1 DEF IInv, ShapeFits, Data
    <3>3. ptr[g] # Null /\ ptr[g] # b => hp[ptr[g]] = heap[ptr[g]]
      <4>1. ptr[g] # Null => ptr[g] \in DOMAIN heap
        BY <3>1 DEF IInv, TypeOK, NoLeak, Owners
      <4> QED  BY <4>1 DEF Sound
    <3>4. ptr[g] # Null /\ ptr[g] = b => shape[g] = s /\ DOMAIN hp[b] = Cells(s)
      BY <3>1, <2>2 DEF Sound
    <3> QED  BY <3>1, <3>2, <3>3, <3>4, <1>5
  <2> QED  BY <2>1, <2>2
<1>9. AliasesAgree'
  <2> SUFFICES ASSUME NEW g \in live', NEW k \in live', ptr'[g] = ptr'[k], ptr'[k] # Null
               PROVE  shape'[g] = shape'[k] /\ Type[g] = Type[k]
    BY DEF AliasesAgree
  <2>1. CASE g # h /\ k # h
    BY <2>1, <1>6 DEF IInv, AliasesAgree
  <2>2. CASE g = h /\ k # h
    BY <2>2, <1>6, <1>7 DEF Sound
  <2>3. CASE g # h /\ k = h
    BY <2>3, <1>6, <1>7 DEF Sound
  <2> QED  BY <2>1, <2>2, <2>3
<1> QED  BY <1>2, <1>4, <1>8, <1>9 DEF IInv

\* Changing the elements of a block, but not how many they are.
LEMMA OverwriteKeeps ==
  ASSUME IInv, NEW h \in live, NEW f, DOMAIN f = Cells(shape[h]), Overwrite(h, f)
  PROVE  IInv'
<1> USE StoreAssumption
<1>1. DOMAIN heap' = DOMAIN heap
  BY DEF Overwrite
<1>2. UNCHANGED <<live, shape, ptr, uses, status>>
  BY DEF Overwrite
<1>3. \A c \in Blocks : Owners(c)' = Owners(c)
  BY <1>2 DEF Owners
<1>4. TypeOK' /\ NoLeak'
  BY <1>1, <1>2, <1>3 DEF IInv, TypeOK, NoLeak
<1>5. ShapeFits'
  <2> SUFFICES ASSUME NEW g \in live
               PROVE  IF ptr[g] = Null THEN Len(shape[g]) = 0
                                       ELSE DOMAIN heap'[ptr[g]] = Cells(shape[g])
    BY <1>2 DEF ShapeFits, Data, Len, Cells
  <2>1. IF ptr[g] = Null THEN Len(shape[g]) = 0 ELSE DOMAIN heap[ptr[g]] = Cells(shape[g])
    BY DEF IInv, ShapeFits, Data
  <2>2. ptr[g] # Null => ptr[g] \in DOMAIN heap
    BY DEF IInv, TypeOK, NoLeak, Owners
  <2>3. ptr[g] # Null /\ ptr[g] = ptr[h] => shape[g] = shape[h]
    BY DEF IInv, AliasesAgree
  <2> QED  BY <2>1, <2>2, <2>3 DEF Overwrite
<1>6. AliasesAgree'
  BY <1>2 DEF IInv, AliasesAgree
<1> QED  BY <1>4, <1>5, <1>6 DEF IInv

LEMMA StutterKeeps == ASSUME IInv, UNCHANGED vars PROVE IInv'
<1>1. UNCHANGED <<live, shape, ptr, uses, heap, status>>
  BY DEF vars
<1>2. \A c \in Blocks : Owners(c)' = Owners(c)
  BY <1>1 DEF Owners
<1> QED  BY <1>1, <1>2 DEF IInv, TypeOK, NoLeak, ShapeFits, AliasesAgree, Data

LEMMA UndefinedKeeps == ASSUME IInv, Undefined PROVE IInv'
<1>1. UNCHANGED <<live, shape, ptr, uses, heap>> /\ status' = "undefined"
  BY DEF Undefined
<1>2. \A c \in Blocks : Owners(c)' = Owners(c)
  BY <1>1 DEF Owners
<1> QED  BY <1>1, <1>2 DEF IInv, TypeOK, NoLeak, ShapeFits, AliasesAgree, Data

(***************************************************************************)
(* The three ways a statement points a matrix somewhere: to a fresh block, *)
(* to the block of another matrix, and nowhere.                            *)
(***************************************************************************)
LEMMA FreshSound ==
  ASSUME IInv, NEW r \in Handles, NEW s \in ShapeSet, NEW f, DOMAIN f = Cells(s),
         Available # {}, live' = live \cup {r}
  PROVE  Sound(r, s, FreshBlock, WithBlock(f), TRUE)
<1> USE StoreAssumption
<1>1. FreshBlock \in Blocks /\ FreshBlock \notin DOMAIN heap
  BY DEF FreshBlock, Available
<1>2. \A g \in live : ptr[g] # FreshBlock
  BY <1>1 DEF IInv, TypeOK, NoLeak, Owners
<1> HIDE DEF FreshBlock
<1>3. WithBlock(f) = [c \in DOMAIN heap \cup {FreshBlock} |->
                        IF c = FreshBlock THEN f ELSE heap[c]]
  BY DEF WithBlock
<1> HIDE DEF WithBlock
<1> QED  BY <1>1, <1>2, <1>3 DEF Sound

LEMMA SharedSound ==
  ASSUME IInv, NEW r \in Handles, NEW g \in live, Type[r] = Type[g], live' = live \cup {r}
  PROVE  Sound(r, shape[g], ptr[g], heap, TRUE)
<1> USE StoreAssumption
<1>1. shape[g] \in ShapeSet /\ ptr[g] \in Blocks \cup {Null}
  BY DEF IInv, TypeOK, ShapeSet
<1>2. IF ptr[g] = Null THEN Len(shape[g]) = 0
                       ELSE ptr[g] \in DOMAIN heap /\ DOMAIN heap[ptr[g]] = Cells(shape[g])
  BY <1>1 DEF IInv, NoLeak, ShapeFits, Owners, Data
<1>3. ptr[g] # Null => \A k \in live : ptr[k] = ptr[g] => shape[k] = shape[g] /\ Type[k] = Type[g]
  BY DEF IInv, AliasesAgree
<1> QED  BY <1>1, <1>2, <1>3 DEF Sound

LEMMA NowhereSound ==
  ASSUME IInv, NEW h \in Handles, live' = live \ {h}
  PROVE  Sound(h, NoShape, Null, heap, FALSE)
BY DEF Sound, NoShape, ShapeSet, Len

(***************************************************************************)
(* What a statement does, seen from the storage.                           *)
(***************************************************************************)
Overwrites == \E h \in live : \E f : DOMAIN f = Cells(shape[h]) /\ Overwrite(h, f)
Points == \E h, s, b, hp : \E alive \in BOOLEAN : Sound(h, s, b, hp, alive) /\ Point(h, s, b, hp)
Stores == Points \/ Overwrites \/ Undefined \/ UNCHANGED vars

LEMMA StoresKeeps == ASSUME IInv, Stores PROVE IInv'
<1>1. CASE Points
  <2>1. PICK h, s, b, hp : \E alive \in BOOLEAN : Sound(h, s, b, hp, alive) /\ Point(h, s, b, hp)
    BY <1>1 DEF Points
  <2> QED  BY <2>1, PointKeeps
<1>2. CASE Overwrites
  BY <1>2, OverwriteKeeps DEF Overwrites
<1> QED  BY <1>1, <1>2, StutterKeeps, UndefinedKeeps DEF Stores

LEMMA CreateStores ==
  ASSUME IInv, NEW r \in Handles, NEW s \in ShapeSet, NEW f, DOMAIN f = Cells(s), Create(r, s, f)
  PROVE  Stores
<1>1. Sound(r, s, FreshBlock, WithBlock(f), TRUE)
  BY FreshSound DEF Create
<1> QED  BY <1>1 DEF Create, Stores, Points

LEMMA ShareStores ==
  ASSUME IInv, NEW r \in Handles, NEW g \in live, Type[r] = Type[g], Share(r, g)
  PROVE  Stores
<1>1. Sound(r, shape[g], ptr[g], heap, TRUE)
  BY SharedSound DEF Share
<1> QED  BY <1>1 DEF Share, Stores, Points

(***************************************************************************)
(* Every statement is of one of these kinds.  The elements of the results  *)
(* do not matter, only that there is one for every cell of the shape.      *)
(***************************************************************************)
LEMMA ShapeTypes ==
  ASSUME IInv, NEW h \in Handles, NEW g \in Handles
  PROVE  /\ shape[h] \in ShapeSet
         /\ MulShape(shape[h], shape[g]) \in ShapeSet
         /\ [row |-> 1, col |-> 1, chan |-> shape[h].chan] \in ShapeSet
         /\ [shape[h] EXCEPT !.chan = 1] \in ShapeSet
         /\ \A step \in Steps :
              shape[h].row >= shape[g].row /\ shape[h].col >= shape[g].col =>
                ConvShape(shape[h], shape[g], step) \in ShapeSet
<1> DEFINE s == shape[h]
           m == shape[g]
<1>1. s \in ShapeSet /\ m \in ShapeSet
  BY DEF IInv, TypeOK, ShapeSet
<1>2. s.chan * m.chan \in Nat
  BY <1>1, NatProduct DEF ShapeSet
<1>3. ASSUME NEW step \in Steps, s.row >= m.row, s.col >= m.col
      PROVE  ConvShape(s, m, step) \in ShapeSet
  <2>1. step.stride \in Nat \ {0} /\ step.padding \in Nat
    BY StoreAssumption
  <2>2. s.row + 2 * step.padding - m.row + 1 \in Nat /\ s.col + 2 * step.padding - m.col + 1 \in Nat
    BY <1>1, <1>3, <2>1 DEF ShapeSet
  <2>3. ASSUME NEW x \in Nat, NEW y \in Nat \ {0}  PROVE x \div y \in Nat
    BY <2>3
  <2>4. /\ (s.row + 2 * step.padding - m.row + 1) \div step.stride \in Nat
        /\ (s.col + 2 * step.padding - m.col + 1) \div step.stride \in Nat
    BY <2>1, <2>2, <2>3
  <2> QED  BY <1>1, <2>4 DEF ConvShape, ShapeSet
<1> QED  BY <1>1, <1>2, <1>3 DEF MulShape, ShapeSet

LEMMA ScopeStores ==
  ASSUME IInv, NEW h \in Handles, ConstructDefault(h) \/ Destroy(h)
  PROVE  Stores
<1>1. CASE ConstructDefault(h)
  <2>1. live' = live \cup {h} /\ Point(h, NoShape, Null, heap)
    BY <1>1 DEF ConstructDefault
  <2>2. Sound(h, NoShape, Null, heap, TRUE)
    BY <2>1 DEF Sound, NoShape, ShapeSet, Len
  <2> QED  BY <2>1, <2>2 DEF Stores, Points
<1>2. CASE Destroy(h)
  <2>1. Sound(h, NoShape, Null, heap, FALSE)
    BY <1>2, NowhereSound DEF Destroy
  <2> QED  BY <1>2, <2>1 DEF Destroy, Stores, Points
<1> QED  BY <1>1, <1>2

LEMMA ConstructStores ==
  ASSUME IInv, NEW r \in Handles, NEW s \in Shapes, NEW v,
         ConstructFilled(r, s, v) \/ ConstructFromFile(r, s, v)
  PROVE  Stores
<1> DEFINE filled == [i \in Cells(s) |-> Fit(r, v)]
           pixels == [i \in Cells(s) |-> Fit(r, v + i \div Area(s))]
<1>1. s \in ShapeSet
  BY StoreAssumption DEF ShapeSet
<1>2. Create(r, s, filled) \/ Create(r, s, pixels) \/ Undefined
  BY DEF ConstructFilled, ConstructFromFile
<1> QED  BY <1>1, <1>2, CreateStores DEF Stores

LEMMA CopyStores ==
  ASSUME IInv, NEW h \in Handles, NEW g \in Handles,
         CopyConstruct(h, g) \/ AssignSoft(h, g) \/ AssignHard(h, g)
  PROVE  Stores
<1>1. CASE CopyConstruct(h, g)
  BY <1>1, ShareStores DEF CopyConstruct, Live
<1>2. CASE AssignSoft(h, g)
  <2>1. h \in live /\ g \in live /\ live' = live \cup {h} /\ Type[h] = Type[g]
    BY <1>2 DEF AssignSoft, Live
  <2>2. Sound(h, shape[g], ptr[g], heap, TRUE)
    BY <2>1, SharedSound
  <2> QED  BY <1>2, <2>2 DEF AssignSoft, Stores, Points
<1>3. CASE AssignHard(h, g)
  <2> DEFINE f == [i \in Cells(shape[g]) |-> Fit(h, Data(g)[i])]
  <2>1. h \in live /\ live' = live \cup {h} /\ Available # {}
    BY <1>3 DEF AssignHard, Live
  <2>2. Sound(h, shape[g], FreshBlock, WithBlock(f), TRUE)
    BY <2>1, FreshSound, ShapeTypes
  <2>3. Point(h, shape[g], FreshBlock, WithBlock(f))
    BY <1>3 DEF AssignHard
  <2> QED  BY <2>2, <2>3 DEF Stores, Points
<1> QED  BY <1>1, <1>2, <1>3

LEMMA InPlaceStores ==
  ASSUME IInv, NEW h \in Handles, NEW v, NEW op, AssignValue(h, v) \/ UpdateValue(op, h, v)
  PROVE  Stores
<1> DEFINE fill == [i \in Cells(shape[h]) |-> Fit(h, v)]
           each == [i \in Cells(shape[h]) |-> Fit(h, Apply(op, Data(h)[i], v))]
<1>1. h \in live
  BY DEF AssignValue, UpdateValue, Live
<1>2. Overwrite(h, fill) \/ Overwrite(h, each) \/ UNCHANGED vars
  BY DEF AssignValue, UpdateValue
<1> QED  BY <1>1, <1>2 DEF Stores, Overwrites

LEMMA UpdateStores ==
  ASSUME IInv, NEW h \in Handles, NEW g \in Handles, NEW op, Update(op, h, g)
  PROVE  Stores
<1> DEFINE s == shape[h]
           stopped == op = "/" /\ Zeros(g, s) # {}
           Before(i) == stopped => \A z \in Zeros(g, s) : i < z
           each == [i \in Cells(s) |-> IF Before(i) THEN Fit(h, Apply(op, Data(h)[i], Data(g)[i]))
                                                    ELSE Data(h)[i]]
<1>1. h \in live
  BY DEF Update, Live
<1>2. Overwrite(h, each) \/ UNCHANGED vars \/ Undefined
  BY DEF Update
<1> QED  BY <1>1, <1>2 DEF Stores, Overwrites

LEMMA CombineStores ==
  ASSUME IInv, NEW r \in Handles, NEW h \in Handles, NEW g \in Handles, NEW op,
         Combine(op, r, h, g) \/ CombineFlat(op, r, h, g)
  PROVE  Stores
<1> DEFINE s == shape[h]
           zero == [i \in Cells(s) |-> 0]
           full == [i \in Cells(s) |-> Fit(r, Apply(op, Data(g)[i], Data(h)[i]))]
           flat == [i \in Cells(s) |-> IF i < Area(s) THEN Fit(r, Apply(op, Data(g)[i], Data(h)[i])) ELSE 0]
<1>1. s \in ShapeSet
  BY ShapeTypes
<1>2. Create(r, s, zero) \/ Create(r, s, full) \/ Create(r, s, flat) \/ Undefined
  <2>1. CASE Combine(op, r, h, g)
    BY <2>1 DEF Combine
  <2>2. CASE CombineFlat(op, r, h, g)
    BY <2>2 DEF CombineFlat
  <2> QED  BY <2>1, <2>2
<1> QED  BY <1>1, <1>2, CreateStores DEF Stores

LEMMA CombineValueStores ==
  ASSUME IInv, NEW r \in Handles, NEW h \in Handles, NEW v, NEW op, CombineValue(op, r, h, v)
  PROVE  Stores
<1> DEFINE s == shape[h]
           value == [i \in Cells(s) |-> Fit(r, Apply(op, Data(h)[i], v))]
<1>1. s \in ShapeSet
  BY ShapeTypes
<1>2. Create(r, s, value) \/ Undefined
  BY DEF CombineValue
<1> QED  BY <1>1, <1>2, CreateStores DEF Stores

LEMMA MulStores ==
  ASSUME IInv, NEW r \in Handles, NEW h \in Handles, NEW g \in Handles, Mul(r, h, g)
  PROVE  Stores
<1> DEFINE s == shape[h]
           m == shape[g]
           t == MulShape(s, m)
           zero == [i \in Cells(t) |-> 0]
           f == [i \in Cells(t) |-> Fit(r, MulElement(Data(h), s, Data(g), m, i))]
<1>1. t \in ShapeSet
  BY ShapeTypes
<1>2. Create(r, t, zero) \/ Create(r, t, f)
  BY DEF Mul
<1> HIDE DEF t
<1> QED  BY <1>1, <1>2, CreateStores

LEMMA ConvStores ==
  ASSUME IInv, NEW r \in Handles, NEW h \in Handles, NEW g \in Handles, NEW step \in Steps,
         Conv(r, h, g, step)
  PROVE  Stores
<1> DEFINE s == shape[h]
           m == shape[g]
           t == ConvShape(s, m, step)
           one == [row |-> 1, col |-> 1, chan |-> s.chan]
           zero == [i \in Cells(one) |-> 0]
           f == [i \in Cells(t) |-> Fit(r, ConvElement(Data(h), s, Data(g), m, step, i))]
<1>1. one \in ShapeSet /\ (s.row >= m.row /\ s.col >= m.col => t \in ShapeSet)
  BY ShapeTypes
<1>2. Create(r, one, zero) \/ (s.row >= m.row /\ s.col >= m.col /\ Create(r, t, f))
  BY DEF Conv
<1> HIDE DEF one, t
<1> QED  BY <1>1, <1>2, CreateStores

LEMMA ChannelStores ==
  ASSUME IInv, NEW r \in Handles, NEW h \in Handles, NEW c \in 0..2, Channel(c, r, h)
  PROVE  Stores
<1> DEFINE t == [shape[h] EXCEPT !.chan = 1]
           f == [i \in Cells(t) |-> Data(h)[i + c * Area(t)]]
<1>1. t \in ShapeSet
  BY ShapeTypes
<1>2. h \in live /\ Type[r] = Type[h] /\ (Share(r, h) \/ Create(r, t, f))
  BY DEF Channel, Live
<1> HIDE DEF t
<1> QED  BY <1>1, <1>2, CreateStores, ShareStores

LEMMA NextStores == ASSUME IInv, [Next]_vars PROVE Stores
<1>1. CASE UNCHANGED vars
  BY <1>1 DEF Stores
<1>2. CASE Next
  BY <1>2, ScopeStores, ConstructStores, CopyStores, InPlaceStores, UpdateStores, CombineStores,
     CombineValueStores, MulStores, ConvStores, ChannelStores DEF Next
<1> QED  BY <1>1, <1>2

LEMMA Invariance == Spec => []IInv
<1>1. Init => IInv
  <2> SUFFICES ASSUME Init PROVE IInv
    OBVIOUS
  <2>1. \A b \in Blocks : Owners(b) = {}
    BY DEF Init, Owners
  <2>2. Cardinality({}) = 0
    BY FS_EmptySet
  <2>3. NoLeak
    BY <2>1, <2>2 DEF Init, NoLeak
  <2>4. TypeOK
    BY DEF Init, TypeOK, NoShape
  <2> QED  BY <2>3, <2>4 DEF Init, IInv, ShapeFits, AliasesAgree
<1>2. IInv /\ [Next]_vars => IInv'
  BY NextStores, StoresKeeps
<1> QED  BY <1>1, <1>2, PTL DEF Spec

(***************************************************************************)
(* Pointing handle h elsewhere changes no other matrix, and overwriting a  *)
(* block changes only the matrices that own it.                            *)
(***************************************************************************)
OnlyAliases ==
  /\ live' \ live # {} => Changed = {}
  /\ \A g, h \in Changed : ptr[g] = ptr[h]

LEMMA PointView ==
  ASSUME IInv, NEW h, NEW s, NEW b, NEW hp, NEW alive \in BOOLEAN,
         Sound(h, s, b, hp, alive), Point(h, s, b, hp)
  PROVE  OnlyAliases
<1> USE StoreAssumption
<1>1. \A c \in Blocks : uses'[c] > 0 <=> Owners(c)' # {}
  BY PointCounts
<1>2. ASSUME NEW g \in live \cap live', g # h  PROVE View(g)' = View(g)
  <2>1. shape'[g] = shape[g] /\ ptr'[g] = ptr[g] /\ ptr[g] \in Blocks \cup {Null}
    BY <1>2 DEF Point, Sound, IInv, TypeOK
  <2>2. CASE ptr[g] = Null
    BY <2>1, <2>2 DEF View
  <2>3. CASE ptr[g] # Null
    <3>1. ptr[g] \in DOMAIN heap
      BY <2>1, <2>3 DEF IInv, NoLeak, Owners
    <3>2. ptr[g] \in DOMAIN hp /\ hp[ptr[g]] = heap[ptr[g]]
      BY <3>1, <2>3 DEF Sound
    <3>3. \E k \in live' : ptr'[k] = ptr[g]
      BY <2>1
    <3>4. uses'[ptr[g]] > 0
      BY <1>1, <2>1, <2>3, <3>3 DEF Owners
    <3>5. heap' = [c \in {x \in DOMAIN hp : uses'[x] > 0} |-> hp[c]]
      BY DEF Point
    <3>6. heap'[ptr[g]] = heap[ptr[g]]
      BY <3>2, <3>4, <3>5
    <3> QED  BY <2>1, <3>6 DEF View
  <2> QED  BY <2>1, <2>2, <2>3
<1>3. Changed \subseteq {h} \cap live
  BY <1>2 DEF Changed
<1>4. live' \ live # {} => h \notin live
  BY DEF Sound
<1> QED  BY <1>3, <1>4 DEF OnlyAliases

LEMMA OverwriteView ==
  ASSUME IInv, NEW h \in live, NEW f, Overwrite(h, f)
  PROVE  OnlyAliases
<1>1. live' = live /\ shape' = shape /\ ptr' = ptr
  BY DEF Overwrite
<1>2. ASSUME NEW g \in live, ptr[g] # ptr[h]  PROVE View(g)' = View(g)
  <2>1. CASE ptr[g] = Null
    BY <1>1, <2>1 DEF View
  <2>2. CASE ptr[g] # Null
    <3>1. ptr[g] \in DOMAIN heap
      BY <2>2 DEF IInv, TypeOK, NoLeak, Owners
    <3>2. heap'[ptr[g]] = heap[ptr[g]]
      BY <3>1, <1>2 DEF Overwrite
    <3> QED  BY <1>1, <3>2 DEF View
  <2> QED  BY <2>1, <2>2
<1>3. \A g \in Changed : ptr[g] = ptr[h]
  BY <1>1, <1>2 DEF Changed
<1> QED  BY <1>1, <1>3 DEF OnlyAliases

LEMMA IdleView ==
  ASSUME UNCHANGED <<live, shape, ptr, heap>>  PROVE OnlyAliases
<1>1. Changed = {}
  BY DEF Changed, View
<1> QED  BY <1>1 DEF OnlyAliases

-----------------------------------------------------------------------------
(***************************************************************************)
(* The variables of the matrices keep their types; in particular no use    *)
(* count ever becomes negative.                                            *)
(***************************************************************************)
THEOREM TypeCorrect == Spec => []TypeOK
<1>1. IInv => TypeOK
  BY DEF IInv
<1> QED  BY <1>1, Invariance, PTL

(***************************************************************************)
(* The use count of every block is the number of matrices that own it, and *)
(* exactly the owned blocks are allocated: the memory management README.md *)
(* calls significant neither leaks nor leaves a matrix with freed memory.  *)
(***************************************************************************)
THEOREM Storage == Spec => []NoLeak
<1>1. IInv => NoLeak
  BY DEF IInv
<1> QED  BY <1>1, Invariance, PTL

(***************************************************************************)
(* The block of a matrix has one element for every cell of its shape,      *)
(* whatever statements made it, mul, conv and the hard copy included.      *)
(***************************************************************************)
THEOREM ShapesFit == Spec => []ShapeFits
<1>1. IInv => ShapeFits
  BY DEF IInv
<1> QED  BY <1>1, Invariance, PTL

\* Matrices that share a block have the same shape and element type.
THEOREM SharersAgree == Spec => []AliasesAgree
<1>1. IInv => AliasesAgree
  BY DEF IInv
<1> QED  BY <1>1, Invariance, PTL

(***************************************************************************)
(* No statement changes a matrix that does not share its block with the    *)
(* one it assigns to, and one that makes a new matrix changes none.        *)
(***************************************************************************)
THEOREM SoftCopies == Spec => OnlyAliasesFollow
<1>1. IInv /\ [Next]_vars => [OnlyAliases]_vars
  <2> SUFFICES ASSUME IInv, [Next]_vars PROVE OnlyAliases
    OBVIOUS
  <2>1. Stores
    BY NextStores
  <2>2. CASE Points
    <3>1. PICK h, s, b, hp : \E alive \in BOOLEAN : Sound(h, s, b, hp, alive) /\ Point(h, s, b, hp)
      BY <2>2 DEF Points
    <3> QED  BY <3>1, PointView
  <2>3. CASE Overwrites
    BY <2>3, OverwriteView DEF Overwrites
  <2>4. CASE Undefined \/ UNCHANGED vars
    BY <2>4, IdleView DEF Undefined, vars
  <2> QED  BY <2>1, <2>2, <2>3, <2>4 DEF Stores
<1> QED  BY <1>1, Invariance, PTL DEF Spec, OnlyAliasesFollow, OnlyAliases

-----------------------------------------------------------------------------
(***************************************************************************)
(* The addresses of a product: dimensions of its operands, and the place   *)
(* of an element and of its left neighbour.                                *)
(***************************************************************************)
LEMMA Positive3 ==
  ASSUME NEW x \in Nat, NEW y \in Nat, NEW z \in Nat, x * y * z > 0
  PROVE  x > 0 /\ y > 0 /\ z > 0
<1>1. ASSUME x = 0 PROVE FALSE
  BY <1>1
<1>2. ASSUME y = 0 PROVE FALSE
  BY <1>2
<1>3. ASSUME z = 0 PROVE FALSE
  <2>1. x * y \in Nat
    OBVIOUS
  <2> QED BY <1>3, <2>1
<1> QED BY <1>1, <1>2, <1>3

LEMMA LeftNeighbour ==
  ASSUME NEW w \in Nat \ {0}, NEW k \in Nat \ {0}, NEW i \in Nat, i % w # 0
  PROVE  /\ (i - 1) \div (k * w) = i \div (k * w)
         /\ ((i - 1) % (k * w)) \div w = (i % (k * w)) \div w
         /\ (i - 1) % w = (i % w) - 1
<1>1. PICK W : W = k * w
  OBVIOUS
<1>2. W \in Nat \ {0}
  BY <1>1
<1>3. PICK a : a = i \div W
  OBVIOUS
<1>4. PICK q : q = i % W
  OBVIOUS
<1>5. a \in Nat /\ q \in 0..(W - 1) /\ i = a * W + q
  BY <1>2, <1>3, <1>4, DivMod
<1>6. PICK b : b = q \div w
  OBVIOUS
<1>7. PICK c : c = q % w
  OBVIOUS
<1>8. b \in Nat /\ c \in 0..(w - 1) /\ q = b * w + c
  <2>1. q \in Nat
    BY <1>5, <1>2
  <2> QED BY <2>1, <1>6, <1>7, DivMod
<1>9. i = (a * k + b) * w + c /\ a * k + b \in Nat
  BY <1>1, <1>5, <1>8
<1>10. i % w = c
  BY <1>8, <1>9, StrideSplit
<1>11. c - 1 \in 0..(w - 1) /\ i - 1 = (a * k + b) * w + (c - 1)
  BY <1>8, <1>9, <1>10
<1>12. (i - 1) % w = c - 1
  BY <1>9, <1>11, StrideSplit
<1>13. q - 1 = b * w + (c - 1) /\ (q - 1) \div w = b
  BY <1>8, <1>11, StrideSplit
<1>14. q - 1 \in 0..(W - 1)
  <2>1. b * w \in Nat
    BY <1>8
  <2> QED BY <1>5, <1>11, <1>13, <2>1, <1>2
<1>15. i - 1 = a * W + (q - 1)
  BY <1>5, <1>2
<1>16. (i - 1) \div W = a /\ (i - 1) % W = q - 1
  BY <1>5, <1>2, <1>14, <1>15, StrideSplit
<1> QED BY <1>1, <1>3, <1>4, <1>6, <1>10, <1>12, <1>13, <1>16

\* An element of a matrix lies in its block.
LEMMA AtCell ==
  ASSUME NEW s \in ShapeSet, NEW f \in [Cells(s) -> Int],
         NEW c \in 0..(s.chan - 1), NEW y \in 0..(s.row - 1), NEW x \in 0..(s.col - 1)
  PROVE  At(f, s, c, y, x) \in Int
<1>1. s.row \in Nat /\ s.col \in Nat /\ s.chan \in Nat
  BY DEF ShapeSet
<1>2. y * s.col + x \in 0..(s.row * s.col - 1)
  BY <1>1, StrideRange
<1>3. s.row * s.col \in Nat
  BY <1>1
<1>4. PICK A : A = s.row * s.col
  OBVIOUS
<1>5. PICK z : z = y * s.col + x
  OBVIOUS
<1>6. c * A + z \in 0..(s.chan * A - 1)
  BY <1>1, <1>2, <1>3, <1>4, <1>5, StrideRange
<1>7. s.chan * A = Len(s)
  BY <1>1, <1>4 DEF Len
<1>8. c * A + y * s.col \in Int /\ c * A + y * s.col + x = c * A + z
  BY <1>1, <1>3, <1>4, <1>5
<1> QED BY <1>4, <1>6, <1>7, <1>8 DEF At, Area, Cells

\* The channel pair, the row and the column of element i of a product.
LEMMA MulPlace ==
  ASSUME NEW s \in ShapeSet, NEW m \in ShapeSet, NEW i \in Cells(MulShape(s, m)),
         NEW t, t = MulShape(s, m)
  PROVE  /\ s.row \in Nat \ {0} /\ m.col \in Nat \ {0} /\ m.chan \in Nat \ {0} /\ s.chan \in Nat \ {0}
         /\ Area(t) \in Nat \ {0} /\ t.col = m.col /\ i \in Nat /\ Area(t) = s.row * m.col
         /\ i \div (m.chan * Area(t)) \in 0..(s.chan - 1)
         /\ (i \div Area(t)) % m.chan \in 0..(m.chan - 1)
         /\ (i % Area(t)) \div t.col \in 0..(s.row - 1)
         /\ i % t.col \in 0..(m.col - 1)
<1>1. /\ s.row \in Nat /\ s.col \in Nat /\ s.chan \in Nat
      /\ m.row \in Nat /\ m.col \in Nat /\ m.chan \in Nat
  BY DEF ShapeSet
<1>2. /\ t.row = s.row /\ t.col = m.col /\ t.chan = s.chan * m.chan /\ Area(t) = s.row * m.col
      /\ Len(t) = s.row * m.col * (s.chan * m.chan)
  BY DEF MulShape, Area, Len
<1>3. s.chan * m.chan \in Nat
  BY <1>1
<1>4. s.row * m.col * (s.chan * m.chan) > 0 /\ i \in Nat /\ i < Len(t)
  <2>1. PICK N : N = s.row * m.col * (s.chan * m.chan)
    OBVIOUS
  <2>2. N \in Nat
    <3>1. s.row * m.col \in Nat
      BY <1>1
    <3> QED BY <1>3, <2>1, <3>1
  <2>3. i \in 0..(N - 1)
    BY <1>2, <2>1 DEF Cells
  <2> QED BY <1>2, <2>1, <2>2, <2>3
<1>5. s.row > 0 /\ m.col > 0 /\ s.chan * m.chan > 0
  BY <1>1, <1>3, <1>4, Positive3
<1>6. s.chan > 0 /\ m.chan > 0
  <2>1. ASSUME s.chan = 0 PROVE FALSE
    BY <1>1, <1>5, <2>1
  <2>2. ASSUME m.chan = 0 PROVE FALSE
    BY <1>1, <1>5, <2>2
  <2> QED BY <1>1, <2>1, <2>2
<1>7. PICK A : A = s.row * m.col
  OBVIOUS
<1>8. A \in Nat \ {0}
  BY <1>1, <1>5, <1>7
<1>9. PICK W : W = m.chan * A
  OBVIOUS
<1>10. W \in Nat \ {0}
  BY <1>1, <1>6, <1>8, <1>9
<1>11. s.chan * W = Len(t)
  <2>1. s.row * m.col * (s.chan * m.chan) = A * (s.chan * m.chan)
    BY <1>7
  <2>2. A * (s.chan * m.chan) = s.chan * (m.chan * A)
    BY <1>1, <1>8
  <2> QED BY <1>2, <1>9, <2>1, <2>2
<1>12. i \in 0..(s.chan * W - 1)
  BY <1>4, <1>11, <1>10, <1>1
<1>13. i \div W \in 0..(s.chan - 1)
  BY <1>1, <1>10, <1>12, StrideCover
<1>14. i \div A \in Nat /\ i % A \in 0..(A - 1)
  BY <1>4, <1>8, DivMod
<1>15. (i \div A) % m.chan \in 0..(m.chan - 1)
  <2>1. m.chan \in Nat \ {0}
    BY <1>1, <1>6
  <2> QED BY <1>14, <2>1, DivMod
<1>16. m.col \in Nat \ {0}
  BY <1>1, <1>5
<1>17. (i % A) \div m.col \in 0..(s.row - 1)
  BY <1>1, <1>7, <1>14, <1>16, StrideCover
<1>18. i % m.col \in 0..(m.col - 1)
  BY <1>4, <1>16, DivMod
<1> QED BY <1>1, <1>2, <1>4, <1>5, <1>6, <1>7, <1>8, <1>9, <1>13, <1>15, <1>17, <1>18

-----------------------------------------------------------------------------
(***************************************************************************)
(* mul adds to an element the sums of the columns before its own.          *)
(***************************************************************************)
\* The term that column js[1] and inner index js[2] contribute to an element.
Term(f, s, g, m, first, second, y, js) ==
  At(f, s, first, y, js[2]) * At(g, m, second, js[2], js[1])

\* F has the terms of the columns up to x, P those of column x; L are the
\* places of the former, T those of the columns before x.
LastColumn(F, P, x, J, L, T) ==
  /\ IsFiniteSet(J) /\ x \in Nat /\ L = (0..x) \X J /\ T = (0..(x - 1)) \X J
  /\ F \in [L -> Int] /\ \A k \in J : P[k] = F[<<x, k>>]

LEMMA ColumnTerms ==
  ASSUME NEW F, NEW P, NEW x, NEW J, NEW L, NEW T, LastColumn(F, P, x, J, L, T)
  PROVE  /\ x = 0 => SumFunctionOnSet(F, L) = SumFunctionOnSet(P, J)
         /\ x # 0 => SumFunctionOnSet(F, L) = SumFunctionOnSet(P, J) + SumFunctionOnSet(F, T)
<1> USE DEF LastColumn
<1>1. PICK S : S = {x} \X J
  OBVIOUS
<1>2. IsFiniteSet(J) /\ IsFiniteSet(S) /\ IsFiniteSet(T)
  <2>1. IsFiniteSet({x})
    BY FS_Singleton
  <2>2. x - 1 \in Int
    OBVIOUS
  <2>3. IsFiniteSet(0..(x - 1))
    BY <2>2, FS_Interval
  <2> QED BY <1>1, <2>1, <2>3, FS_Product
<1>3. L = S \cup T /\ S \cap T = {}
  <2>1. 0..x = {x} \cup (0..(x - 1)) /\ {x} \cap (0..(x - 1)) = {}
    OBVIOUS
  <2> QED BY <1>1, <2>1
<1>4. \A z \in S \cup T : F[z] \in Int
  BY <1>3
<1>5. SumFunctionOnSet(P, J) = SumFunctionOnSet(F, S)
  <2>1. PICK b : b = [k \in J |-> <<x, k>>]
    OBVIOUS
  <2>2. Corresponds(P, J, F, S, b)
    <3>1. b \in [J -> S]
      BY <1>1, <2>1
    <3>2. \A k, l \in J : b[k] = b[l] => k = l
      BY <2>1
    <3>3. \A z \in S : \E k \in J : b[k] = z
      BY <1>1, <2>1
    <3>4. \A k \in J : P[k] \in Int /\ F[b[k]] = P[k]
      <4> SUFFICES ASSUME NEW k \in J  PROVE P[k] \in Int /\ F[b[k]] = P[k]
        OBVIOUS
      <4>1. b[k] = <<x, k>> /\ P[k] = F[<<x, k>>]
        BY <2>1
      <4>2. <<x, k>> \in L
        OBVIOUS
      <4> QED BY <4>1, <4>2
    <3> QED BY <3>1, <3>2, <3>3, <3>4 DEF Corresponds
  <2> QED BY <1>2, <2>2, SumReindex
<1>6. SumFunctionOnSet(F, S \cup T) = SumFunctionOnSet(F, S) + SumFunctionOnSet(F, T)
  BY <1>2, <1>3, <1>4, SumDisjoint
<1>7. SumFunctionOnSet(F, S) \in Int
  BY <1>2, <1>4, SumInt
<1>8. x = 0 => T = {}
  OBVIOUS
<1>9. x = 0 => S \cup T = S
  BY <1>8
<1> QED BY <1>3, <1>5, <1>6, <1>7, <1>9

LEMMA ColumnAdded ==
  ASSUME NEW s \in ShapeSet, NEW m \in ShapeSet, s.col = m.row,
         NEW f \in [Cells(s) -> Int], NEW g \in [Cells(m) -> Int], NEW i \in Cells(MulShape(s, m))
  PROVE  /\ i % m.col = 0 => MulElement(f, s, g, m, i) = Product(f, s, g, m, i)
         /\ i % m.col # 0 =>
              MulElement(f, s, g, m, i) = Product(f, s, g, m, i) + MulElement(f, s, g, m, i - 1)
<1>1. PICK t : t = MulShape(s, m)
  OBVIOUS
<1>2. PICK first : first = i \div (m.chan * Area(t))
  OBVIOUS
<1>3. PICK second : second = (i \div Area(t)) % m.chan
  OBVIOUS
<1>4. PICK y : y = (i % Area(t)) \div t.col
  OBVIOUS
<1>5. PICK x : x = i % t.col
  OBVIOUS
<1>6. /\ s.row \in Nat \ {0} /\ m.col \in Nat \ {0} /\ m.chan \in Nat \ {0}
      /\ Area(t) \in Nat \ {0} /\ t.col = m.col /\ i \in Nat /\ Area(t) = s.row * m.col
      /\ first \in 0..(s.chan - 1) /\ second \in 0..(m.chan - 1)
      /\ y \in 0..(s.row - 1) /\ x \in 0..(m.col - 1)
  BY <1>1, <1>2, <1>3, <1>4, <1>5, MulPlace
<1>7. s.col \in Nat /\ x \in Nat
  BY <1>6 DEF ShapeSet
<1>8. PICK F : F = [js \in (0..x) \X (0..(s.col - 1)) |-> Term(f, s, g, m, first, second, y, js)]
  OBVIOUS
<1>9. F \in [(0..x) \X (0..(s.col - 1)) -> Int]
  <2>1. ASSUME NEW js \in (0..x) \X (0..(s.col - 1))
        PROVE  Term(f, s, g, m, first, second, y, js) \in Int
    <3>1. js[1] \in 0..(m.col - 1) /\ js[2] \in 0..(s.col - 1) /\ js[2] \in 0..(m.row - 1)
      BY <1>6, <1>7
    <3>2. At(f, s, first, y, js[2]) \in Int /\ At(g, m, second, js[2], js[1]) \in Int
      BY <1>6, <3>1, AtCell
    <3> QED BY <3>2 DEF Term
  <2> QED BY <1>8, <2>1
<1>10. PICK P : P = [k \in 0..(s.col - 1) |-> F[<<x, k>>]]
  OBVIOUS
<1>11. MulElement(f, s, g, m, i) = SumFunctionOnSet(F, (0..x) \X (0..(s.col - 1)))
  <2>1. MulElement(f, s, g, m, i) = SumFunction(F)
    BY <1>1, <1>2, <1>3, <1>4, <1>5, <1>8 DEF MulElement, Term
  <2> QED BY <2>1, <1>8, SumOver
<1>12. Product(f, s, g, m, i) = SumFunctionOnSet(P, 0..(s.col - 1))
  <2>1. \A k \in 0..(s.col - 1) :
          F[<<x, k>>] = At(f, s, first, y, k) * At(g, m, second, k, x)
    BY <1>7, <1>8 DEF Term
  <2>2. P = [k \in 0..(s.col - 1) |-> At(f, s, first, y, k) * At(g, m, second, k, x)]
    BY <1>10, <2>1
  <2>3. Product(f, s, g, m, i) = SumFunction(P)
    BY <1>1, <1>2, <1>3, <1>4, <1>5, <1>6, <2>2 DEF Product
  <2> QED BY <2>3, <1>10, SumOver
<1>13. SumFunctionOnSet(P, 0..(s.col - 1)) \in Int
  <2>1. \A k \in 0..(s.col - 1) : P[k] \in Int
    BY <1>7, <1>9, <1>10
  <2>2. s.col - 1 \in Int
    BY <1>7
  <2>3. IsFiniteSet(0..(s.col - 1))
    BY <2>2, FS_Interval
  <2> QED BY <2>1, <2>3, SumInt
<1>14. PICK J : J = 0..(s.col - 1)
  OBVIOUS
<1>15. PICK L : L = (0..x) \X J
  OBVIOUS
<1>16. PICK T : T = (0..(x - 1)) \X J
  OBVIOUS
<1>17. IsFiniteSet(J) /\ IsFiniteSet(T)
  <2>1. s.col - 1 \in Int /\ x - 1 \in Int
    BY <1>7
  <2>2. IsFiniteSet(0..(s.col - 1)) /\ IsFiniteSet(0..(x - 1))
    BY <2>1, FS_Interval
  <2> QED BY <1>14, <1>16, <2>2, FS_Product
<1>18. /\ x = 0 => SumFunctionOnSet(F, L) = SumFunctionOnSet(P, J)
       /\ x # 0 => SumFunctionOnSet(F, L) = SumFunctionOnSet(P, J) + SumFunctionOnSet(F, T)
  <2>1. LastColumn(F, P, x, J, L, T)
    BY <1>7, <1>9, <1>10, <1>14, <1>15, <1>16, <1>17 DEF LastColumn
  <2> QED BY <2>1, ColumnTerms
<1>19. CASE x = 0
  <2>1. i % m.col = 0
    BY <1>5, <1>6, <1>19
  <2> QED BY <1>11, <1>12, <1>19, <1>13, <1>18, <1>14, <1>15, <2>1
<1>20. CASE x # 0
  <2>1. /\ (i - 1) % t.col = x - 1
        /\ ((i - 1) % Area(t)) \div t.col = y
        /\ (i - 1) \div (m.chan * Area(t)) = first
        /\ ((i - 1) \div Area(t)) % m.chan = second
    <3>1. i % m.col # 0
      BY <1>5, <1>6, <1>20
    <3>2. /\ (i - 1) \div (s.row * m.col) = i \div (s.row * m.col)
          /\ ((i - 1) % (s.row * m.col)) \div m.col = (i % (s.row * m.col)) \div m.col
          /\ (i - 1) % m.col = (i % m.col) - 1
      BY <1>6, <3>1, LeftNeighbour
    <3>3. PICK k : k = m.chan * s.row
      OBVIOUS
    <3>4. k \in Nat \ {0} /\ k * m.col = m.chan * Area(t)
      BY <1>6, <3>3
    <3>5. (i - 1) \div (k * m.col) = i \div (k * m.col)
      BY <1>6, <3>1, <3>4, LeftNeighbour
    <3> QED BY <1>2, <1>3, <1>4, <1>5, <1>6, <3>2, <3>4, <3>5
  <2>2. PICK H : H = [js \in (0..(x - 1)) \X (0..(s.col - 1)) |-> Term(f, s, g, m, first, second, y, js)]
    OBVIOUS
  <2>3. MulElement(f, s, g, m, i - 1) = SumFunction(H)
    BY <1>1, <2>1, <2>2 DEF MulElement, Term
  <2>4. MulElement(f, s, g, m, i - 1) = SumFunctionOnSet(H, T)
    BY <1>14, <1>16, <2>2, <2>3, SumOver
  <2>5. SumFunctionOnSet(H, T) = SumFunctionOnSet(F, T)
    <3>1. \A js \in T : H[js] = F[js]
      BY <1>7, <1>8, <1>14, <1>16, <2>2
    <3> QED BY <1>17, <3>1, SumCongruence
  <2>6. i % m.col # 0
    BY <1>5, <1>6, <1>20
  <2> QED BY <1>11, <1>12, <1>20, <1>18, <1>14, <1>15, <2>4, <2>5, <2>6
<1> QED BY <1>19, <1>20

-----------------------------------------------------------------------------
(***************************************************************************)
(* The first channel of conv: the loops over the rows and columns of the   *)
(* kernel read its cells one after another, and the image surrounded by    *)
(* zeros.                                                                  *)
(***************************************************************************)
LEMMA FirstChannel ==
  ASSUME NEW s \in ShapeSet, NEW m \in ShapeSet, Len(s) > 0, Len(m) > 0,
         NEW f \in [Cells(s) -> Int], NEW g \in [Cells(m) -> Int],
         NEW step \in [stride : Nat \ {0}, padding : Nat],
         s.row >= m.row, s.col >= m.col,
         NEW i \in 0..(Area(ConvShape(s, m, step)) - 1)
  PROVE  ConvElement(f, s, g, m, step, i) = Convolved(f, s, g, m, step, i)
<1>1. /\ s.row \in Nat /\ s.col \in Nat /\ s.chan \in Nat
      /\ m.row \in Nat /\ m.col \in Nat /\ m.chan \in Nat
      /\ step.stride \in Nat \ {0} /\ step.padding \in Nat
  BY DEF ShapeSet
<1>2. s.chan > 0 /\ m.row > 0 /\ m.col > 0 /\ m.chan > 0
  BY <1>1, Positive3 DEF Len
<1>3. PICK t : t = ConvShape(s, m, step)
  OBVIOUS
<1>4. t.row \in Nat /\ t.col \in Nat
  <2>1. s.row + 2 * step.padding - m.row + 1 \in Nat /\ s.col + 2 * step.padding - m.col + 1 \in Nat
    BY <1>1
  <2>2. \A z \in Nat : z \div step.stride \in Nat
    BY <1>1, DivMod
  <2> QED BY <1>3, <2>1, <2>2 DEF ConvShape
<1>5. Area(t) \in Nat \ {0} /\ i \in Nat /\ i < Area(t) /\ t.col \in Nat \ {0}
  <2>1. Area(t) \in Nat
    BY <1>4 DEF Area
  <2>2. i \in Nat /\ i < Area(t) /\ Area(t) # 0
    BY <1>3, <2>1
  <2>3. t.col # 0
    <3> SUFFICES ASSUME t.col = 0 PROVE FALSE
      OBVIOUS
    <3>1. Area(t) = 0
      BY <1>4 DEF Area
    <3> QED BY <2>2, <3>1
  <2> QED BY <1>4, <2>1, <2>2, <2>3
<1>6. i \div Area(t) = 0 /\ i % Area(t) = i
  <2>1. i = 0 * Area(t) + i /\ i \in 0..(Area(t) - 1)
    BY <1>5
  <2> QED BY <1>5, <2>1, StrideSplit
<1>7. PICK y : y = step.stride * (i \div t.col)
  OBVIOUS
<1>8. PICK x : x = step.stride * (i % t.col)
  OBVIOUS
<1>9. y \in Nat /\ x \in Nat
  <2>1. i \div t.col \in Nat /\ i % t.col \in Nat
    <3>1. t.col \in Nat \ {0} /\ i \in Nat
      BY <1>5
    <3>2. i \div t.col \in Nat /\ i % t.col \in 0..(t.col - 1)
      BY <3>1, DivMod
    <3> QED BY <3>1, <3>2
  <2> QED BY <1>1, <1>7, <1>8, <2>1
<1>10. PICK A : A = m.row * m.col
  OBVIOUS
<1>11. A \in Nat /\ Len(m) \in Nat /\ A <= Len(m) /\ Area(m) = A
  <2>1. A \in Nat
    BY <1>1, <1>10
  <2>2. A * m.chan >= A /\ A * m.chan \in Nat
    BY <1>1, <1>2, <2>1
  <2> QED BY <1>10, <2>1, <2>2 DEF Len, Area
\* The terms of the program, and of the definition.
<1>12. PICK W : W = (0..(m.row - 1)) \X (0..(m.col - 1))
  OBVIOUS
<1>13. PICK F : F = [ij \in W |->
           IF y + ij[1] - step.padding \in 0..(s.row - 1) /\ x + ij[2] - step.padding \in 0..(s.col - 1)
           THEN f[(y + ij[1] - step.padding) * s.col + (x + ij[2] - step.padding)] * g[ij[2] + ij[1] * m.col]
           ELSE 0]
  OBVIOUS
<1>14. PICK P : P = [p \in Cells(m) |-> IF p >= A THEN 0
           ELSE g[p] * Padded(f, s, y + (p \div m.col) - step.padding, x + (p % m.col) - step.padding)]
  OBVIOUS
<1>15. ConvElement(f, s, g, m, step, i) = SumFunctionOnSet(F, W)
  <2>1. \A ij \in W : ij[1] \in Int /\ ij[2] \in Int
    BY <1>12
  <2>2. 0 * Area(s) = 0
    BY <1>1 DEF Area
  <2>3. \A Y, X \in Int : At(f, s, 0, Y, X) = f[Y * s.col + X]
    <3> SUFFICES ASSUME NEW Y \in Int, NEW X \in Int  PROVE At(f, s, 0, Y, X) = f[Y * s.col + X]
      OBVIOUS
    <3>1. 0 + Y * s.col = Y * s.col
      BY <1>1
    <3> QED BY <2>2, <3>1 DEF At
  <2>4. PICK G : G = [ij \in W |->
           IF /\ 0 * Area(s) - step.padding + y + ij[1] \in 0..(s.row - 1)
              /\ 0 * Area(s) - step.padding + x + ij[2] \in 0..(s.col - 1)
           THEN At(f, s, 0, 0 * Area(s) - step.padding + y + ij[1], 0 * Area(s) - step.padding + x + ij[2])
                * g[ij[2] + ij[1] * m.col]
           ELSE 0]
    OBVIOUS
  <2>5. G = F
    <3>1. ASSUME NEW ij \in W  PROVE G[ij] = F[ij]
      <4>1. ij[1] \in Int /\ ij[2] \in Int
        BY <2>1
      <4>2. PICK Y : Y = y + ij[1] - step.padding
        OBVIOUS
      <4>3. PICK X : X = x + ij[2] - step.padding
        OBVIOUS
      <4>4. /\ 0 * Area(s) - step.padding + y + ij[1] = Y /\ Y \in Int
            /\ 0 * Area(s) - step.padding + x + ij[2] = X /\ X \in Int
        BY <1>1, <1>9, <2>2, <4>1, <4>2, <4>3
      <4>5. At(f, s, 0, Y, X) = f[Y * s.col + X]
        BY <2>3, <4>4
      <4> QED BY <1>13, <2>4, <4>2, <4>3, <4>4, <4>5
    <3> QED BY <1>13, <2>4, <3>1
  <2>6. ConvElement(f, s, g, m, step, i) = SumFunction(G)
    BY <1>3, <1>6, <1>7, <1>8, <1>12, <2>4 DEF ConvElement
  <2> QED BY <1>13, <2>5, <2>6, SumOver
<1>16. Convolved(f, s, g, m, step, i) = SumFunctionOnSet(P, Cells(m))
  <2>1. Convolved(f, s, g, m, step, i) = SumFunction(P)
    BY <1>3, <1>7, <1>8, <1>11, <1>14 DEF Convolved
  <2> QED BY <1>14, <2>1, SumOver
<1>17. PICK b : b = [ij \in W |-> ij[1] * m.col + ij[2]]
  OBVIOUS
<1>18. ASSUME NEW ij \in W
       PROVE  /\ b[ij] \in 0..(A - 1) /\ b[ij] \in Cells(m)
              /\ b[ij] \div m.col = ij[1] /\ b[ij] % m.col = ij[2]
              /\ F[ij] \in Int /\ P[b[ij]] = F[ij]
  <2>1. /\ ij[1] \in 0..(m.row - 1) /\ ij[2] \in 0..(m.col - 1)
        /\ ij[1] \in Nat /\ ij[2] \in Nat /\ m.col \in Nat \ {0}
    BY <1>1, <1>2, <1>12
  <2>2. PICK p : p = ij[1] * m.col + ij[2]
    OBVIOUS
  <2>3. p \in 0..(A - 1) /\ p \div m.col = ij[1] /\ p % m.col = ij[2]
    BY <1>1, <1>10, <2>1, <2>2, StrideRange, StrideSplit
  <2>4. p \in Cells(m) /\ p < A
    BY <1>11, <2>3 DEF Cells
  <2>5. ij[2] + ij[1] * m.col = p /\ g[p] \in Int
    BY <2>1, <2>2, <2>4
  <2>6. PICK Y : Y = y + ij[1] - step.padding
    OBVIOUS
  <2>7. PICK X : X = x + ij[2] - step.padding
    OBVIOUS
  <2>8. P[p] = g[p] * Padded(f, s, Y, X)
    <3>1. p \in Cells(m) /\ ~(p >= A)
      BY <1>11, <2>4, <2>3
    <3> QED BY <1>14, <2>3, <2>6, <2>7, <3>1
  <2>9. F[ij] = IF Y \in 0..(s.row - 1) /\ X \in 0..(s.col - 1) THEN f[Y * s.col + X] * g[p] ELSE 0
    BY <1>13, <2>5, <2>6, <2>7
  <2>10. CASE Y \in 0..(s.row - 1) /\ X \in 0..(s.col - 1)
    <3>1. Y * s.col + X \in Cells(s)
      <4>1. Y * s.col + X \in 0..(s.row * s.col - 1)
        BY <1>1, <2>10, StrideRange
      <4>2. PICK B : B = s.row * s.col
        OBVIOUS
      <4>3. B \in Nat /\ B * s.chan >= B /\ B * s.chan \in Nat
        BY <1>1, <1>2, <4>2
      <4> QED BY <4>1, <4>2, <4>3 DEF Cells, Len
    <3>2. f[Y * s.col + X] \in Int
      BY <3>1
    <3>3. Padded(f, s, Y, X) = f[Y * s.col + X]
      BY <2>10 DEF Padded
    <3>4. F[ij] = f[Y * s.col + X] * g[p]
      BY <2>9, <2>10
    <3> QED BY <1>17, <2>2, <2>3, <2>4, <2>5, <2>8, <3>2, <3>3, <3>4
  <2>11. CASE ~(Y \in 0..(s.row - 1) /\ X \in 0..(s.col - 1))
    <3>1. Padded(f, s, Y, X) = 0
      BY <2>11 DEF Padded
    <3>2. F[ij] = 0
      BY <2>9, <2>11
    <3> QED BY <1>17, <2>2, <2>3, <2>4, <2>5, <2>8, <3>1, <3>2
  <2> QED BY <2>10, <2>11
<1>19. Corresponds(F, W, P, 0..(A - 1), b)
  <2>1. b \in [W -> 0..(A - 1)]
    BY <1>17, <1>18
  <2>2. \A u, v \in W : b[u] = b[v] => u = v
    <3> SUFFICES ASSUME NEW u \in W, NEW v \in W, b[u] = b[v]  PROVE u = v
      OBVIOUS
    <3>1. u[1] = v[1] /\ u[2] = v[2]
      BY <1>18
    <3>2. u = <<u[1], u[2]>> /\ v = <<v[1], v[2]>>
      BY <1>12
    <3> QED BY <3>1, <3>2
  <2>3. \A z \in 0..(A - 1) : \E u \in W : b[u] = z
    <3> SUFFICES ASSUME NEW z \in 0..(A - 1)  PROVE \E u \in W : b[u] = z
      OBVIOUS
    <3>1. /\ z \div m.col \in 0..(m.row - 1) /\ z % m.col \in 0..(m.col - 1)
          /\ z = (z \div m.col) * m.col + (z % m.col)
      <4>1. m.col \in Nat \ {0} /\ z \in 0..(m.row * m.col - 1)
        BY <1>1, <1>2, <1>10
      <4> QED BY <1>1, <4>1, StrideCover
    <3>2. PICK u : u = <<z \div m.col, z % m.col>>
      OBVIOUS
    <3>3. u \in W /\ b[u] = z
      BY <1>12, <1>17, <3>1, <3>2
    <3> QED BY <3>3
  <2> QED BY <1>18, <2>1, <2>2, <2>3 DEF Corresponds
<1>20. IsFiniteSet(W) /\ IsFiniteSet(Cells(m))
  <2>1. m.row - 1 \in Int /\ m.col - 1 \in Int /\ Len(m) - 1 \in Int
    BY <1>1, <1>11
  <2>2. IsFiniteSet(0..(m.row - 1)) /\ IsFiniteSet(0..(m.col - 1)) /\ IsFiniteSet(0..(Len(m) - 1))
    <3>1. \A n \in Int : IsFiniteSet(0..n)
      BY FS_Interval
    <3> QED BY <2>1, <3>1
  <2> QED BY <1>12, <2>2, FS_Product DEF Cells
<1>21. SumFunctionOnSet(F, W) = SumFunctionOnSet(P, 0..(A - 1))
  BY <1>19, <1>20, SumReindex
<1>22. SumFunctionOnSet(P, Cells(m)) = SumFunctionOnSet(P, 0..(A - 1))
  <2>1. 0..(A - 1) \in SUBSET Cells(m)
    BY <1>11 DEF Cells
  <2>2. \A p \in Cells(m) \ (0..(A - 1)) : P[p] = 0
    BY <1>11, <1>14 DEF Cells
  <2>3. \A p \in Cells(m) : P[p] \in Int
    <3> SUFFICES ASSUME NEW p \in Cells(m)  PROVE P[p] \in Int
      OBVIOUS
    <3>1. CASE p \in 0..(A - 1)
      <4>1. PICK u \in W : b[u] = p
        BY <1>19, <3>1 DEF Corresponds
      <4> QED BY <1>18, <4>1
    <3>2. CASE p \notin 0..(A - 1)
      BY <2>2, <3>2
    <3> QED BY <3>1, <3>2
  <2>4. PICK T : T = 0..(A - 1)
    OBVIOUS
  <2> QED BY <1>20, <2>1, <2>2, <2>3, <2>4, SumSupport
<1> QED BY <1>15, <1>16, <1>21, <1>22

LEMMA ElementsRight == ASSUME TypeOK PROVE FirstColumnAndChannel
<1> SUFFICES ASSUME NEW s \in ShapeSet, NEW m \in ShapeSet, Len(s) > 0, Len(m) > 0,
                    NEW f, f = Sample(s), NEW g, g = Squares(m)
             PROVE  /\ s.col = m.row =>
                         \A i \in Cells(MulShape(s, m)) :
                           i % m.col = 0 => MulElement(f, s, g, m, i) = Product(f, s, g, m, i)
                    /\ s.row >= m.row /\ s.col >= m.col =>
                         \A step \in Steps : \A i \in 0..(Area(ConvShape(s, m, step)) - 1) :
                           ConvElement(f, s, g, m, step, i) = Convolved(f, s, g, m, step, i)
  <2>1. \A s \in {shape[z] : z \in {q \in live : Len(shape[q]) > 0}} : s \in ShapeSet /\ Len(s) > 0
    BY DEF TypeOK, ShapeSet
  <2> QED BY <2>1 DEF FirstColumnAndChannel
<1>1. Len(s) \in Nat /\ Len(m) \in Nat
  <2>1. \A u \in ShapeSet : Len(u) \in Nat
    <3> SUFFICES ASSUME NEW u \in ShapeSet  PROVE Len(u) \in Nat
      OBVIOUS
    <3>1. u.row \in Nat /\ u.col \in Nat /\ u.chan \in Nat /\ u.row * u.col \in Nat
      BY DEF ShapeSet
    <3> QED BY <3>1, NatProduct DEF Len
  <2> QED BY <2>1
<1>2. f \in [Cells(s) -> Int] /\ g \in [Cells(m) -> Int]
  BY <1>1 DEF Sample, Squares, Cells
<1>3. \A step \in Steps : step \in [stride : Nat \ {0}, padding : Nat]
  BY StoreAssumption
<1> QED BY <1>2, <1>3, ColumnAdded, FirstChannel

(***************************************************************************)
(* For matrices of every shape, the first column of a product and the      *)
(* first channel of a convolution are what they should be.                 *)
(***************************************************************************)
THEOREM FirstOnesRight == Spec => []FirstColumnAndChannel
<1>1. IInv => FirstColumnAndChannel
  BY ElementsRight DEF IInv
<1> QED  BY <1>1, Invariance, PTL
=============================================================================
