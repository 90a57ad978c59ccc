-------------------------- MODULE ReadAheadProofs --------------------------
(***************************************************************************)
(* The safety of ReadAhead for every number of readers and slots, every    *)
(* block size, file length and read-ahead.                                 *)
(*                                                                         *)
(* The goroutines are a bag.  HowMany counts those of some kinds, and the  *)
(* lemmas say what the three changes of the bag do to such a count.        *)
(***************************************************************************)
EXTENDS ReadAhead, Sums

Bag(w) == IsFiniteSet(DOMAIN w) /\ w \in [DOMAIN w -> Nat \ {0}]

HowMany(w, K) == SumFunctionOnSet(w, DOMAIN w \cap K)

Copies(w, x, K) == IF x \in DOMAIN w \cap K THEN w[x] ELSE 0

\* A count is a number.
LEMMA CountTyped ==
  ASSUME NEW w, Bag(w), NEW K
  PROVE  HowMany(w, K) \in Nat
<1>1. IsFiniteSet(DOMAIN w \cap K) /\ \A x \in DOMAIN w \cap K : w[x] \in Nat
  BY FS_Subset DEF Bag
<1> QED
  BY <1>1, SumNatural DEF HowMany

\* One kind and the others.
LEMMA CountSplits ==
  ASSUME NEW w, Bag(w), NEW x, NEW K
  PROVE  /\ HowMany(w, K) = Copies(w, x, K) + SumFunctionOnSet(w, (DOMAIN w \cap K) \ {x})
         /\ SumFunctionOnSet(w, (DOMAIN w \cap K) \ {x}) \in Nat
         /\ Copies(w, x, K) \in Nat
<1> DEFINE S == DOMAIN w \cap K
<1>1. IsFiniteSet(S) /\ IsFiniteSet(S \ {x}) /\ \A y \in S : w[y] \in Nat
  BY FS_Subset DEF Bag
<1>2. SumFunctionOnSet(w, S \ {x}) \in Nat
  BY <1>1, SumNatural
<1>3. CASE x \in S
  <2>1. SumFunctionOnSet(w, S) = w[x] + SumFunctionOnSet(w, S \ {x})
    <3>1. \A y \in S : w[y] \in Int
      BY <1>1
    <3> HIDE DEF S
    <3> QED
      BY <1>1, <1>3, <3>1, SumRemove
  <2> QED
    BY <1>1, <1>2, <1>3, <2>1 DEF HowMany, Copies
<1>4. CASE x \notin S
  <2>1. S \ {x} = S
    BY <1>4
  <2> QED
    BY <1>2, <1>4, <2>1 DEF HowMany, Copies
<1> QED
  BY <1>3, <1>4

\* Bags that differ in one kind.
LEMMA CountChanges ==
  ASSUME NEW w, Bag(w), NEW v, Bag(v), NEW x, NEW K,
         DOMAIN w \ {x} = DOMAIN v \ {x}, \A y \in DOMAIN w \ {x} : v[y] = w[y]
  PROVE  HowMany(v, K) = HowMany(w, K) + Copies(v, x, K) - Copies(w, x, K)
<1> DEFINE S == (DOMAIN w \cap K) \ {x}
<1>1. S = (DOMAIN v \cap K) \ {x} /\ IsFiniteSet(S)
  BY FS_Subset DEF Bag
<1>2. SumFunctionOnSet(w, S) = SumFunctionOnSet(v, S)
  <2>1. \A y \in S : w[y] = v[y]
    OBVIOUS
  <2> HIDE DEF S
  <2> QED
    BY <1>1, <2>1, SumSame
<1>3. HowMany(w, K) = Copies(w, x, K) + SumFunctionOnSet(w, S)
  BY CountSplits
<1>4. HowMany(v, K) = Copies(v, x, K) + SumFunctionOnSet(v, (DOMAIN v \cap K) \ {x})
  BY CountSplits
<1>5. SumFunctionOnSet(w, S) \in Nat /\ Copies(w, x, K) \in Nat /\ Copies(v, x, K) \in Nat
  BY CountSplits
<1> HIDE DEF S
<1> QED
  BY <1>1, <1>2, <1>3, <1>4, <1>5

One(x, K) == IF x \in K THEN 1 ELSE 0

\* A goroutine that starts.
LEMMA AddCounts ==
  ASSUME NEW w, Bag(w), NEW x
  PROVE  /\ Bag(BagOps!BagAdd(w, x)) /\ DOMAIN BagOps!BagAdd(w, x) = DOMAIN w \cup {x}
         /\ \A K : HowMany(BagOps!BagAdd(w, x), K) = HowMany(w, K) + One(x, K)
<1> DEFINE v == BagOps!BagAdd(w, x)
<1>1. DOMAIN v = DOMAIN w \cup {x}
  BY DEF BagOps!BagAdd
<1>2. \A y \in DOMAIN w \ {x} : v[y] = w[y]
  BY DEF BagOps!BagAdd
<1>3. v[x] = IF x \in DOMAIN w THEN w[x] + 1 ELSE 1
  BY DEF BagOps!BagAdd
<1>4. v \in [DOMAIN v -> Nat \ {0}]
  <2>1. v = [y \in DOMAIN v |-> v[y]]
    BY DEF BagOps!BagAdd
  <2>2. \A y \in DOMAIN v : v[y] \in Nat \ {0}
    BY <1>1, <1>2, <1>3 DEF Bag
  <2> HIDE DEF v
  <2> QED
    BY <2>1, <2>2
<1>5. IsFiniteSet(DOMAIN v)
  BY <1>1, FS_AddElement DEF Bag
<1> HIDE DEF v
<1>6. Bag(v)
  BY <1>4, <1>5 DEF Bag
<1>7. ASSUME NEW K PROVE HowMany(v, K) = HowMany(w, K) + One(x, K)
  <2>1. DOMAIN w \ {x} = DOMAIN v \ {x}
    BY <1>1
  <2>2. HowMany(v, K) = HowMany(w, K) + Copies(v, x, K) - Copies(w, x, K)
    BY <1>2, <1>6, <2>1, CountChanges
  <2>3. Copies(v, x, K) = Copies(w, x, K) + One(x, K)
    BY <1>1, <1>3 DEF Copies, One, Bag
  <2>4. HowMany(w, K) \in Nat /\ Copies(w, x, K) \in Nat /\ One(x, K) \in Nat
    BY CountTyped, CountSplits DEF One
  <2> QED
    BY <2>2, <2>3, <2>4
<1> QED
  BY <1>1, <1>6, <1>7 DEF v

\* A goroutine that returns.
LEMMA RemoveCounts ==
  ASSUME NEW w, Bag(w), NEW x \in DOMAIN w
  PROVE  /\ Bag(BagOps!BagRemove(w, x)) /\ DOMAIN BagOps!BagRemove(w, x) \subseteq DOMAIN w
         /\ \A K : HowMany(BagOps!BagRemove(w, x), K) = HowMany(w, K) - One(x, K)
<1> DEFINE v == BagOps!BagRemove(w, x)
<1>1. DOMAIN v = IF w[x] = 1 THEN DOMAIN w \ {x} ELSE DOMAIN w
  BY DEF BagOps!BagRemove
<1>2. \A y \in DOMAIN w \ {x} : v[y] = w[y]
  BY DEF BagOps!BagRemove
<1>3. w[x] # 1 => v[x] = w[x] - 1
  BY DEF BagOps!BagRemove
<1>4. v \in [DOMAIN v -> Nat \ {0}]
  <2>1. v = [y \in DOMAIN v |-> v[y]]
    BY DEF BagOps!BagRemove
  <2>2. \A y \in DOMAIN v : v[y] \in Nat \ {0}
    BY <1>1, <1>2, <1>3 DEF Bag
  <2> HIDE DEF v
  <2> QED
    BY <2>1, <2>2
<1>5. IsFiniteSet(DOMAIN v)
  BY <1>1, FS_Subset DEF Bag
<1> HIDE DEF v
<1>6. Bag(v)
  BY <1>4, <1>5 DEF Bag
<1>7. ASSUME NEW K PROVE HowMany(v, K) = HowMany(w, K) - One(x, K)
  <2>1. DOMAIN w \ {x} = DOMAIN v \ {x}
    BY <1>1
  <2>2. HowMany(v, K) = HowMany(w, K) + Copies(v, x, K) - Copies(w, x, K)
    BY <1>2, <1>6, <2>1, CountChanges
  <2>3. Copies(v, x, K) = Copies(w, x, K) - One(x, K)
    BY <1>1, <1>3 DEF Copies, One, Bag
  <2>4. HowMany(w, K) \in Nat /\ Copies(w, x, K) \in Nat /\ One(x, K) \in Nat
    BY CountTyped, CountSplits DEF One
  <2> QED
    BY <2>2, <2>3, <2>4
<1>8. DOMAIN v \subseteq DOMAIN w
  BY <1>1
<1> QED
  BY <1>6, <1>7, <1>8 DEF v

\* Goroutines that all become something: those of a kind are the sum of those
\* that it was made of.
Image(w, f) == [y \in Range(f) |-> SumFunctionOnSet(w, {x \in DOMAIN w : f[x] = y})]

LEMMA ImageCounts ==
  ASSUME NEW w, Bag(w), NEW R, NEW f \in [DOMAIN w -> R]
  PROVE  /\ Bag(Image(w, f)) /\ DOMAIN Image(w, f) = Range(f)
         /\ \A K, L : (\A x \in DOMAIN w : f[x] \in K <=> x \in L)
                        => HowMany(Image(w, f), K) = HowMany(w, L)
<1> DEFINE v == Image(w, f)
           Fibre(y) == {x \in DOMAIN w : f[x] = y}
<1>1. DOMAIN v = Range(f) /\ \A y \in Range(f) : v[y] = SumFunctionOnSet(w, Fibre(y))
  BY DEF Image
<1>2. IsFiniteSet(Range(f))
  <2>1. Range(f) = {f[x] : x \in DOMAIN w}
    BY DEF Range
  <2>2. f \in Surjection(DOMAIN w, Range(f))
    BY <2>1 DEF Surjection
  <2> QED
    BY <2>2, FS_Surjection DEF Bag
<1>3. \A S \in SUBSET DOMAIN w : IsFiniteSet(S) /\ \A x \in S : w[x] \in Nat \ {0}
  BY FS_Subset DEF Bag
<1>4. \A y \in Range(f) : v[y] \in Nat \ {0}
  <2> SUFFICES ASSUME NEW y \in Range(f) PROVE SumFunctionOnSet(w, Fibre(y)) \in Nat \ {0}
    BY <1>1
  <2>1. PICK x \in Fibre(y) : TRUE
    BY DEF Range
  <2>2. Fibre(y) \in SUBSET DOMAIN w /\ Fibre(y) \ {x} \in SUBSET DOMAIN w
    OBVIOUS
  <2> HIDE DEF Fibre
  <2>3. SumFunctionOnSet(w, Fibre(y)) = w[x] + SumFunctionOnSet(w, Fibre(y) \ {x})
    <3>1. IsFiniteSet(Fibre(y)) /\ \A z \in Fibre(y) : w[z] \in Int
      BY <1>3, <2>2
    <3> QED
      BY <3>1, <2>1, SumRemove
  <2>4. SumFunctionOnSet(w, Fibre(y) \ {x}) \in Nat
    BY <1>3, <2>2, SumNatural
  <2>5. w[x] \in Nat \ {0}
    BY <1>3, <2>1, <2>2
  <2> QED
    BY <2>3, <2>4, <2>5
<1>5. Bag(v)
  <2>1. v = [y \in Range(f) |-> v[y]]
    BY DEF Image
  <2> HIDE DEF v
  <2> QED
    BY <1>1, <1>2, <1>4, <2>1 DEF Bag
<1> HIDE DEF v
<1>6. \A V \in SUBSET Range(f) :
        SumFunctionOnSet(v, V) = SumFunctionOnSet(w, {x \in DOMAIN w : f[x] \in V})
  <2> DEFINE Over(V) == {x \in DOMAIN w : f[x] \in V}
             B == {V \in SUBSET Range(f) : SumFunctionOnSet(v, V) # SumFunctionOnSet(w, Over(V))}
  <2>1. SUFFICES ASSUME B # {} PROVE FALSE
    OBVIOUS
  <2>2. PICK T \in B : \A U \in B : U \subseteq T => U = T
    <3>1. B \in SUBSET SUBSET Range(f)
      OBVIOUS
    <3> HIDE DEF B
    <3> QED
      BY <1>2, <2>1, <3>1, SmallestSubset
  <2>3. T \subseteq Range(f) /\ SumFunctionOnSet(v, T) # SumFunctionOnSet(w, Over(T))
    OBVIOUS
  <2>4. T # {}
    <3>1. SumFunctionOnSet(v, {}) = 0 /\ SumFunctionOnSet(w, {}) = 0
      BY SumEmpty
    <3>2. Over({}) = {}
      OBVIOUS
    <3> HIDE DEF B, Over
    <3> QED
      BY <2>3, <3>1, <3>2
  <2>5. PICK y \in T : TRUE
    BY <2>4
  <2> DEFINE U == T \ {y}
  <2>6. SumFunctionOnSet(v, U) = SumFunctionOnSet(w, Over(U))
    <3>1. U \notin B /\ U \in SUBSET Range(f)
      BY <2>2, <2>3, <2>5
    <3> QED
      BY <3>1
  <2>7. SumFunctionOnSet(v, T) = v[y] + SumFunctionOnSet(v, U)
    <3>1. IsFiniteSet(T) /\ \A z \in T : v[z] \in Int
      BY <1>2, <1>4, <2>3, FS_Subset
    <3> QED
      BY <2>5, <3>1, SumRemove
  <2>8. SumFunctionOnSet(w, Over(T)) = SumFunctionOnSet(w, Fibre(y)) + SumFunctionOnSet(w, Over(U))
    <3>1. Over(T) = Fibre(y) \cup Over(U) /\ Fibre(y) \cap Over(U) = {}
      BY <2>5
    <3>2. Fibre(y) \in SUBSET DOMAIN w /\ Over(U) \in SUBSET DOMAIN w
      OBVIOUS
    <3>3. IsFiniteSet(Fibre(y)) /\ IsFiniteSet(Over(U))
          /\ \A x \in Fibre(y) \cup Over(U) : w[x] \in Int
      BY <1>3, <3>2
    <3> HIDE DEF Fibre, Over, U
    <3> QED
      BY <3>1, <3>3, SumUnion
  <2>9. v[y] = SumFunctionOnSet(w, Fibre(y))
    BY <1>1, <2>3, <2>5
  <2> HIDE DEF B, Over, U, Fibre
  <2> QED
    BY <2>3, <2>6, <2>7, <2>8, <2>9
<1>7. ASSUME NEW K, NEW L, \A x \in DOMAIN w : f[x] \in K <=> x \in L
      PROVE  HowMany(v, K) = HowMany(w, L)
  <2>1. {x \in DOMAIN w : f[x] \in Range(f) \cap K} = DOMAIN w \cap L
    BY <1>7 DEF Range
  <2>2. SumFunctionOnSet(v, Range(f) \cap K)
          = SumFunctionOnSet(w, {x \in DOMAIN w : f[x] \in Range(f) \cap K})
    BY <1>6
  <2> QED
    BY <1>1, <2>1, <2>2 DEF HowMany
<1> QED
  BY <1>1, <1>5, <1>7 DEF v

-----------------------------------------------------------------------------
(***************************************************************************)
(* The inductive invariant.  The bound on the goroutines needs what the    *)
(* reads under way may still start (Room); that a goroutine is about the   *)
(* window of a read since the last seek needs it of the reader that starts *)
(* it (ReaderWindow).                                                      *)
(***************************************************************************)
Kinds == [at : {"check", "slot"} \cup Holding, block : Blocks, stale : BOOLEAN]
HoldingKinds == {x \in Kinds : x.at \in Holding}

Locals == [at : {"idle", "wait", "fetch", "note", "spawn"}, off : 0 .. FileLen,
           end : 0 .. FileLen, block : Blocks, stale : BOOLEAN]

ReadersOK ==
  /\ known \in BOOLEAN /\ reader \in [Readers -> Locals]
  /\ lastEnd \in 0 .. FileLen
  /\ calls \subseteq Blocks /\ cached \subseteq Blocks
  /\ span \in (0 .. FileLen) \X (0 .. FileLen)

WorkOK == Bag(work) /\ Tasks \subseteq Kinds

SlotsOK == taken = HowMany(work, HoldingKinds) /\ taken <= Slots

\* A reader in the loop of maybePrefetch is in the window behind its end, and
\* that end is one since the last seek unless the reader is stale.
InLoop(l) ==
  l.at = "spawn" =>
    CeilBlock(l.end) <= l.block /\ l.block <= CeilBlock(l.end) + AheadBlocks

InSpan(l) == l.at = "spawn" /\ ~l.stale => span[1] <= l.end /\ l.end <= span[2]

ReaderWindow == \A r \in Readers : InLoop(reader[r]) /\ InSpan(reader[r])

\* The goroutines that a read may still start, and those that all may.
OwedBy(l) ==
  IF l.at = "idle" THEN 0
  ELSE IF l.at = "spawn" THEN CeilBlock(l.end) + AheadBlocks - l.block
  ELSE AheadBlocks

Owed(rd) == [r \in Readers |-> OwedBy(rd[r])]
AllOwed(rd) == SumFunctionOnSet(Owed(rd), Readers)

Room == HowMany(work, Kinds) + AllOwed(reader) <= MaxTasks

IInv == ReadersOK /\ WorkOK /\ SlotsOK /\ WorkFollowsReader /\ ReaderWindow /\ Room

-----------------------------------------------------------------------------
(* Blocks *)

\* A later end is in a later block, or the same.
LEMMA CeilMonotone ==
  /\ \A n \in Nat : CeilBlock(n) \in Nat
  /\ \A m, n \in Nat : m <= n => CeilBlock(m) <= CeilBlock(n)
  /\ AheadBlocks \in Nat
<1>1. BlockSize \in Nat \ {0} /\ Ahead \in Nat
  BY SizesAssumption
<1>2. \A n \in Nat : CeilBlock(n) \in Nat
  BY <1>1 DEF CeilBlock
<1>3. \A m, n \in Nat : m <= n => CeilBlock(m) <= CeilBlock(n)
  BY <1>1 DEF CeilBlock
<1> QED
  BY <1>1, <1>2, <1>3 DEF AheadBlocks

\* The blocks that the reads are about, and those behind them.
LEMMA BlocksTyped ==
  /\ Blocks \subseteq Nat /\ 0 \in Blocks
  /\ \A p \in Reads : /\ p[1] \in 0 .. FileLen /\ p[2] \in 0 .. FileLen
                      /\ p[1] \div BlockSize \in Blocks
  /\ \A n \in 0 .. FileLen : \A b \in Nat : b <= CeilBlock(n) + AheadBlocks => b \in Blocks
<1>1. BlockSize \in Nat \ {0} /\ FileLen \in Nat
  BY SizesAssumption
<1>2. CeilBlock(FileLen) \in Nat /\ AheadBlocks \in Nat
  BY <1>1, CeilMonotone
<1>3. ASSUME NEW p \in Reads
      PROVE  /\ p[1] \in 0 .. FileLen /\ p[2] \in 0 .. FileLen
             /\ p[1] \div BlockSize \in Blocks
  <2>1. p[1] \in Nat /\ p[2] \in Nat /\ p[1] < p[2] /\ p[2] <= FileLen
    BY <1>3, SizesAssumption
  <2>2. p[1] \div BlockSize <= CeilBlock(FileLen) /\ p[1] \div BlockSize \in Nat
    BY <1>1, <2>1 DEF CeilBlock
  <2> QED
    BY <1>1, <1>2, <2>1, <2>2 DEF Blocks
<1>4. ASSUME NEW n \in 0 .. FileLen, NEW b \in Nat, b <= CeilBlock(n) + AheadBlocks
      PROVE  b \in Blocks
  <2>1. CeilBlock(n) <= CeilBlock(FileLen) /\ CeilBlock(n) \in Nat
    BY <1>1, CeilMonotone
  <2> QED
    BY <1>2, <1>4, <2>1 DEF Blocks
<1> QED
  BY <1>2, <1>3, <1>4 DEF Blocks

-----------------------------------------------------------------------------
(* The bag of goroutines *)

Places == {"check", "slot"} \cup Holding
Holds(place) == IF place \in Holding THEN 1 ELSE 0

\* What the kinds of goroutines count.
LEMMA KindsCount ==
  /\ WorkOK => SumFunction(work) = HowMany(work, Kinds)
  /\ WorkOK => SumFunctionOnSet(work, Holders) = HowMany(work, HoldingKinds)
  /\ \A x \in Kinds : One(x, Kinds) = 1 /\ One(x, HoldingKinds) = Holds(x.at)
<1>1. WorkOK => Tasks \cap Kinds = Tasks /\ Tasks \cap HoldingKinds = Holders
  BY DEF WorkOK, HoldingKinds, Holders
<1> QED
  BY <1>1 DEF SumFunction, HowMany, One, Holds, HoldingKinds, Tasks

\* A goroutine that goes on.
LEMMA TaskMoves ==
  ASSUME WorkOK, NEW x \in Tasks, NEW place \in Places, Moves(x, place)
  PROVE  /\ WorkOK' /\ Tasks' \subseteq Tasks \cup {[x EXCEPT !.at = place]}
         /\ HowMany(work', Kinds) = HowMany(work, Kinds)
         /\ HowMany(work', HoldingKinds)
              = HowMany(work, HoldingKinds) - Holds(x.at) + Holds(place)
<1> DEFINE y == [x EXCEPT !.at = place]
           w == BagOps!BagRemove(work, x)
<1>1. x \in Kinds /\ y \in Kinds /\ y.at = place
  BY DEF WorkOK, Kinds, Places
<1>2. Bag(w) /\ DOMAIN w \subseteq Tasks /\ \A K : HowMany(w, K) = HowMany(work, K) - One(x, K)
  BY RemoveCounts DEF WorkOK, Tasks
<1> HIDE DEF w, y
<1>3. /\ Bag(BagOps!BagAdd(w, y)) /\ DOMAIN BagOps!BagAdd(w, y) = DOMAIN w \cup {y}
      /\ \A K : HowMany(BagOps!BagAdd(w, y), K) = HowMany(w, K) + One(y, K)
  <2>1. Bag(w)
    BY <1>2
  <2> QED
    BY <2>1, AddCounts
<1>4. work' = BagOps!BagAdd(w, y)
  BY DEF Moves, w, y
<1>5. WorkOK' /\ Tasks' \subseteq Tasks \cup {y}
  BY <1>1, <1>2, <1>3, <1>4 DEF WorkOK, Tasks
<1>6. \A K : HowMany(work', K) = HowMany(work, K) - One(x, K) + One(y, K)
  BY <1>2, <1>3, <1>4
<1>7. HowMany(work, Kinds) \in Nat /\ HowMany(work, HoldingKinds) \in Nat
  BY CountTyped DEF WorkOK
<1>8. /\ One(x, Kinds) = 1 /\ One(x, HoldingKinds) = Holds(x.at)
      /\ One(y, Kinds) = 1 /\ One(y, HoldingKinds) = Holds(place)
  BY <1>1, KindsCount
<1>9. Holds(x.at) \in Nat /\ Holds(place) \in Nat
  BY DEF Holds
<1>10. /\ HowMany(work', Kinds) = HowMany(work, Kinds)
       /\ HowMany(work', HoldingKinds) = HowMany(work, HoldingKinds) - Holds(x.at) + Holds(place)
  BY <1>6, <1>7, <1>8, <1>9
<1> QED
  BY <1>5, <1>10 DEF y

\* A goroutine that returns.
LEMMA TaskEnds ==
  ASSUME WorkOK, NEW x \in Tasks, Ends(x)
  PROVE  /\ WorkOK' /\ Tasks' \subseteq Tasks
         /\ HowMany(work', Kinds) = HowMany(work, Kinds) - 1
         /\ HowMany(work', HoldingKinds) = HowMany(work, HoldingKinds) - Holds(x.at)
<1>1. x \in Kinds
  BY DEF WorkOK
<1>2. /\ Bag(work') /\ DOMAIN work' \subseteq Tasks
      /\ \A K : HowMany(work', K) = HowMany(work, K) - One(x, K)
  BY RemoveCounts DEF WorkOK, Tasks, Ends
<1> QED
  BY <1>1, <1>2, KindsCount DEF WorkOK, Tasks

\* A goroutine that starts.
LEMMA TaskStarts ==
  ASSUME WorkOK, NEW x \in Kinds, x.at = "check", work' = BagOps!BagAdd(work, x)
  PROVE  /\ WorkOK' /\ Tasks' = Tasks \cup {x}
         /\ HowMany(work', Kinds) = HowMany(work, Kinds) + 1
         /\ HowMany(work', HoldingKinds) = HowMany(work, HoldingKinds)
<1>0. Bag(work)
  BY DEF WorkOK
<1> DEFINE v == BagOps!BagAdd(work, x)
<1>1. /\ Bag(v) /\ DOMAIN v = DOMAIN work \cup {x}
      /\ \A K : HowMany(v, K) = HowMany(work, K) + One(x, K)
  BY <1>0, AddCounts
<1>2. /\ Bag(work') /\ DOMAIN work' = Tasks \cup {x}
      /\ \A K : HowMany(work', K) = HowMany(work, K) + One(x, K)
  BY <1>1 DEF Tasks
<1>3. Holds("check") = 0
  BY DEF Holds, Holding
<1>4. HowMany(work, HoldingKinds) \in Nat
  BY CountTyped DEF WorkOK
<1> QED
  BY <1>2, <1>3, <1>4, KindsCount DEF WorkOK, Tasks

\* Goroutines that all become something keep their number and their slots.
LEMMA TasksBecome ==
  ASSUME WorkOK, NEW f \in [Tasks -> Kinds], Becomes(f),
         \A x \in Tasks : f[x].at \in Holding <=> x.at \in Holding
  PROVE  /\ WorkOK' /\ Tasks' = Range(f)
         /\ HowMany(work', Kinds) = HowMany(work, Kinds)
         /\ HowMany(work', HoldingKinds) = HowMany(work, HoldingKinds)
<1>1. work' = Image(work, f)
  BY DEF Becomes, Image, Tasks
<1>2. /\ Bag(Image(work, f)) /\ DOMAIN Image(work, f) = Range(f)
      /\ \A K, L : (\A x \in Tasks : f[x] \in K <=> x \in L)
                     => HowMany(Image(work, f), K) = HowMany(work, L)
  BY ImageCounts DEF WorkOK, Tasks
<1>3. Range(f) \subseteq Kinds
  BY DEF Range
<1>4. \A x \in Tasks : f[x] \in Kinds <=> x \in Kinds
  BY DEF WorkOK
<1>5. \A x \in Tasks : f[x] \in HoldingKinds <=> x \in HoldingKinds
  BY <1>4 DEF WorkOK, HoldingKinds
<1> QED
  BY <1>1, <1>2, <1>3, <1>4, <1>5 DEF WorkOK, Tasks

\* What the end of a call makes of a goroutine, and what a seek does.
Woken(b) == [x \in Tasks |-> IF Served(x, b) THEN [x EXCEPT !.at = "release"] ELSE x]
Stale == [x \in Tasks |-> [x EXCEPT !.stale = TRUE]]

LEMMA WokenTyped ==
  ASSUME WorkOK, NEW b
  PROVE  /\ Woken(b) \in [Tasks -> Kinds]
         /\ \A x \in Tasks : Woken(b)[x].at \in Holding <=> x.at \in Holding
         /\ \A y \in Range(Woken(b)) :
              \E x \in Tasks : y.block = x.block /\ y.stale = x.stale
<1>1. \A x \in Tasks : x \in Kinds
  BY DEF WorkOK
<1>2. \A x \in Tasks : Woken(b)[x] = IF Served(x, b) THEN [x EXCEPT !.at = "release"] ELSE x
  BY DEF Woken
<1>3. \A x \in Tasks : /\ Woken(b)[x] \in Kinds
                       /\ Woken(b)[x].at \in Holding <=> x.at \in Holding
                       /\ Woken(b)[x].block = x.block /\ Woken(b)[x].stale = x.stale
  <2> TAKE x \in Tasks
  <2>1. CASE Served(x, b)
    <3>1. x \in Kinds /\ x.at \in Holding
      BY <1>1, <2>1 DEF Holding, Served
    <3>2. Woken(b)[x] = [x EXCEPT !.at = "release"] /\ "release" \in Holding
      BY <1>2, <2>1 DEF Holding
    <3> QED
      BY <3>1, <3>2 DEF Kinds
  <2>2. CASE ~Served(x, b)
    BY <1>1, <1>2, <2>2
  <2> QED
    BY <2>1, <2>2
<1>4. DOMAIN Woken(b) = Tasks /\ Woken(b) = [x \in Tasks |-> Woken(b)[x]]
  BY DEF Woken
<1> QED
  BY <1>3, <1>4 DEF Range

LEMMA StaleTyped ==
  ASSUME WorkOK
  PROVE  /\ Stale \in [Tasks -> Kinds]
         /\ \A x \in Tasks : Stale[x].at \in Holding <=> x.at \in Holding
         /\ \A y \in Range(Stale) : y.stale /\ \E x \in Tasks : y.block = x.block
<1>1. \A x \in Tasks : x \in Kinds
  BY DEF WorkOK
<1>2. \A x \in Tasks : Stale[x] = [x EXCEPT !.stale = TRUE]
  BY DEF Stale
<1>3. \A x \in Tasks : /\ Stale[x] \in Kinds /\ Stale[x].at = x.at
                       /\ Stale[x].block = x.block /\ Stale[x].stale
  BY <1>1, <1>2 DEF Kinds
<1>4. DOMAIN Stale = Tasks /\ Stale = [x \in Tasks |-> Stale[x]]
  BY DEF Stale
<1> QED
  BY <1>3, <1>4 DEF Range

-----------------------------------------------------------------------------
(* What the readers may still start *)

Looping(rd) == rd \in [Readers -> Locals] /\ \A r \in Readers : InLoop(rd[r])

LEMMA OwedTyped ==
  ASSUME NEW rd, Looping(rd)
  PROVE  /\ \A r \in Readers : OwedBy(rd[r]) \in 0 .. AheadBlocks
         /\ AllOwed(rd) \in Nat
         /\ AllOwed(rd) <= AheadBlocks * Cardinality({r \in Readers : rd[r].at # "idle"})
<1>1. IsFiniteSet(Readers) /\ AheadBlocks \in Nat
  BY ReadersAssumption, CeilMonotone
<1>2. ASSUME NEW r \in Readers PROVE OwedBy(rd[r]) \in 0 .. AheadBlocks
  <2>1. rd[r] \in Locals /\ InLoop(rd[r])
    BY DEF Looping
  <2>2. rd[r].end \in Nat /\ rd[r].block \in Nat
    <3>1. Blocks \subseteq Nat /\ 0 .. FileLen \subseteq Nat
      BY BlocksTyped
    <3>2. rd[r].end \in 0 .. FileLen /\ rd[r].block \in Blocks
      BY <2>1 DEF Locals
    <3> QED
      BY <3>1, <3>2
  <2>3. CeilBlock(rd[r].end) \in Nat
    BY <2>2, CeilMonotone
  <2> QED
    BY <1>1, <2>1, <2>2, <2>3 DEF InLoop, OwedBy
<1> DEFINE o == Owed(rd)
           N == {r \in Readers : o[r] # 0}
           Active == {r \in Readers : rd[r].at # "idle"}
<1>3. \A r \in Readers : o[r] \in Nat /\ o[r] <= AheadBlocks
  BY <1>1, <1>2 DEF Owed
<1>4. N \subseteq Active
  BY DEF Owed, OwedBy
<1>5. Cardinality(N) \in Nat /\ Cardinality(Active) \in Nat /\ Cardinality(N) <= Cardinality(Active)
  <2>1. IsFiniteSet(Active) /\ IsFiniteSet(N)
    BY <1>1, FS_Subset
  <2> QED
    BY <1>4, <2>1, FS_Subset, FS_CardinalityType
<1> HIDE DEF o, Active
<1>6. SumFunctionOnSet(o, Readers) \in Nat
  BY <1>1, <1>3, SumNatural
<1>7. SumFunctionOnSet(o, Readers) <= AheadBlocks * Cardinality(N)
  BY <1>1, <1>3, SumBound
<1> HIDE DEF N
<1>8. AheadBlocks * Cardinality(N) <= AheadBlocks * Cardinality(Active)
  BY <1>1, <1>5
<1>9. SumFunctionOnSet(o, Readers) <= AheadBlocks * Cardinality(Active)
  BY <1>1, <1>5, <1>6, <1>7, <1>8
<1> QED
  BY <1>2, <1>6, <1>9 DEF o, Active, AllOwed

\* One reader goes on.
LEMMA OneOwes ==
  ASSUME NEW rd, Looping(rd), NEW td, Looping(td), NEW r \in Readers,
         \A q \in Readers \ {r} : td[q] = rd[q]
  PROVE  AllOwed(td) = AllOwed(rd) - OwedBy(rd[r]) + OwedBy(td[r])
<1> DEFINE o == Owed(rd)
           p == Owed(td)
           S == Readers \ {r}
<1>1. /\ \A q \in Readers : o[q] \in Int /\ p[q] \in Int
      /\ \A q \in S : p[q] = o[q]
      /\ o[r] = OwedBy(rd[r]) /\ p[r] = OwedBy(td[r])
  <2>1. \A q \in Readers : OwedBy(rd[q]) \in 0 .. AheadBlocks /\ OwedBy(td[q]) \in 0 .. AheadBlocks
    BY OwedTyped
  <2> QED
    BY <2>1 DEF Owed
<1>2. IsFiniteSet(Readers) /\ IsFiniteSet(S)
  BY ReadersAssumption, FS_Subset
<1>3. \A q \in S : o[q] \in Int
  BY <1>1
<1> HIDE DEF o, p
<1>4. SumFunctionOnSet(o, Readers) = o[r] + SumFunctionOnSet(o, S)
  BY <1>1, <1>2, SumRemove
<1>5. SumFunctionOnSet(p, Readers) = p[r] + SumFunctionOnSet(p, S)
  BY <1>1, <1>2, SumRemove
<1>6. SumFunctionOnSet(p, S) = SumFunctionOnSet(o, S)
  <2> HIDE DEF S
  <2> QED
    BY <1>1, <1>2, SumSame
<1>7. SumFunctionOnSet(o, S) \in Int
  <2> HIDE DEF S
  <2> QED
    BY <1>2, <1>3, SumInteger
<1>8. o[r] \in Int /\ p[r] \in Int
  BY <1>1
<1>9. AllOwed(rd) = SumFunctionOnSet(o, Readers) /\ AllOwed(td) = SumFunctionOnSet(p, Readers)
  BY DEF AllOwed, o, p
<1> HIDE DEF S
<1> QED
  BY <1>1, <1>4, <1>5, <1>6, <1>7, <1>8, <1>9

\* No reader owes more.
LEMMA LessOwed ==
  ASSUME NEW rd, Looping(rd), NEW td, Looping(td),
         \A r \in Readers : OwedBy(td[r]) <= OwedBy(rd[r])
  PROVE  AllOwed(td) <= AllOwed(rd)
<1> DEFINE o == Owed(rd)
           p == Owed(td)
<1>1. \A r \in Readers : OwedBy(rd[r]) \in 0 .. AheadBlocks /\ OwedBy(td[r]) \in 0 .. AheadBlocks
  BY OwedTyped
<1>2. \A r \in Readers : p[r] \in Int /\ o[r] \in Int /\ p[r] <= o[r]
  BY <1>1 DEF Owed
<1> HIDE DEF o, p
<1>3. SumFunctionOnSet(p, Readers) <= SumFunctionOnSet(o, Readers)
  BY <1>2, ReadersAssumption, SumMonotone
<1> QED
  BY <1>3 DEF AllOwed, o, p

-----------------------------------------------------------------------------
(* What the actions leave alone *)

\* Nothing happens to the goroutines.
LEMMA WorkKept ==
  ASSUME IInv, UNCHANGED <<known, work, taken, span>>
  PROVE  /\ WorkOK' /\ SlotsOK' /\ WorkFollowsReader'
         /\ HowMany(work', Kinds) = HowMany(work, Kinds)
<1>1. WorkOK' /\ SlotsOK' /\ HowMany(work', Kinds) = HowMany(work, Kinds)
  BY DEF IInv, WorkOK, SlotsOK, Tasks
<1>2. WorkFollowsReader'
  BY DEF IInv, WorkFollowsReader, Tasks
<1> QED
  BY <1>1, <1>2

\* The goroutines are about the blocks they were about.
LEMMA WorkStays ==
  ASSUME IInv, UNCHANGED <<known, span>>,
         \A y \in Tasks' : \E x \in Tasks : y.block = x.block /\ y.stale = x.stale
  PROVE  WorkFollowsReader'
BY DEF IInv, WorkFollowsReader

\* Nothing happens to the readers.
LEMMA ReadersKept ==
  ASSUME IInv, UNCHANGED <<known, reader, lastEnd, span>>,
         calls' \subseteq Blocks, cached' \subseteq Blocks
  PROVE  ReadersOK' /\ ReaderWindow' /\ AllOwed(reader') = AllOwed(reader)
<1>1. ReadersOK'
  BY DEF IInv, ReadersOK
<1>2. ReaderWindow'
  BY DEF IInv, ReaderWindow, InSpan
<1> QED
  BY <1>1, <1>2

LEMMA Numbers ==
  ASSUME IInv
  PROVE  /\ Looping(reader) /\ AllOwed(reader) \in Nat
         /\ HowMany(work, Kinds) \in Nat /\ HowMany(work, HoldingKinds) \in Nat
         /\ taken \in Nat /\ Slots \in Nat \ {0} /\ MaxTasks \in Nat /\ AheadBlocks \in Nat
<1>1. Looping(reader)
  BY DEF IInv, ReadersOK, ReaderWindow, Looping
<1>2. HowMany(work, Kinds) \in Nat /\ HowMany(work, HoldingKinds) \in Nat
  BY CountTyped DEF IInv, WorkOK
<1> QED
  BY <1>1, <1>2, OwedTyped, CeilMonotone, SizesAssumption DEF IInv, SlotsOK
-----------------------------------------------------------------------------
(* The goroutines *)

\* One that goes on, and keeps what it had of slots or changes taken with it.
LEMMA MoveKeeps ==
  ASSUME IInv, NEW x \in Tasks, NEW place \in Places, Moves(x, place),
         taken' = taken - Holds(x.at) + Holds(place), taken' <= Slots,
         UNCHANGED <<known, reader, lastEnd, span>>,
         calls' \subseteq Blocks, cached' \subseteq Blocks
  PROVE  IInv'
<1>1. ReadersOK' /\ ReaderWindow' /\ AllOwed(reader') = AllOwed(reader)
  BY ReadersKept
<1>2. /\ WorkOK' /\ Tasks' \subseteq Tasks \cup {[x EXCEPT !.at = place]}
      /\ HowMany(work', Kinds) = HowMany(work, Kinds)
      /\ HowMany(work', HoldingKinds)
           = HowMany(work, HoldingKinds) - Holds(x.at) + Holds(place)
  BY TaskMoves DEF IInv
<1>3. SlotsOK'
  BY <1>2 DEF IInv, SlotsOK, HoldingKinds, Kinds
<1>4. WorkFollowsReader'
  <2>1. \A y \in Tasks' : \E z \in Tasks : y.block = z.block /\ y.stale = z.stale
    <3>1. x \in Kinds
      BY DEF IInv, WorkOK
    <3>2. [x EXCEPT !.at = place].block = x.block /\ [x EXCEPT !.at = place].stale = x.stale
      BY <3>1 DEF Kinds
    <3> QED
      BY <1>2, <3>2
  <2> QED
    BY <2>1, WorkStays
<1>5. Room'
  BY <1>1, <1>2 DEF IInv, Room, Kinds
<1> QED
  BY <1>1, <1>2, <1>3, <1>4, <1>5 DEF IInv

\* One that returns, and gives back the slot it had.
LEMMA EndKeeps ==
  ASSUME IInv, NEW x \in Tasks, Ends(x), taken' = taken - Holds(x.at),
         UNCHANGED <<known, reader, lastEnd, calls, cached, span>>
  PROVE  IInv'
<1>1. ReadersOK' /\ ReaderWindow' /\ AllOwed(reader') = AllOwed(reader)
  BY ReadersKept DEF IInv, ReadersOK
<1>2. /\ WorkOK' /\ Tasks' \subseteq Tasks
      /\ HowMany(work', Kinds) = HowMany(work, Kinds) - 1
      /\ HowMany(work', HoldingKinds) = HowMany(work, HoldingKinds) - Holds(x.at)
  BY TaskEnds DEF IInv
<1>3. Holds(x.at) \in {0, 1}
  BY DEF Holds
<1>4. SlotsOK'
  <2>1. taken' = HowMany(work', HoldingKinds) /\ taken' <= Slots
    BY <1>2, <1>3, Numbers DEF IInv, SlotsOK
  <2> QED
    BY <2>1 DEF SlotsOK, HoldingKinds, Kinds
<1>5. WorkFollowsReader'
  BY <1>2, WorkStays
<1>6. Room'
  <2>1. HowMany(work', Kinds) + AllOwed(reader') <= MaxTasks
    BY <1>1, <1>2, Numbers DEF IInv, Room
  <2> QED
    BY <2>1 DEF Room, Kinds
<1> QED
  BY <1>1, <1>2, <1>4, <1>5, <1>6 DEF IInv

LEMMA TaskKeeps ==
  ASSUME IInv, NEW x \in Tasks, TaskStep(x)
  PROVE  IInv'
<1>1. x \in Kinds /\ x.at \in Places /\ x.block \in Blocks
  BY DEF IInv, WorkOK, Kinds, Places
<1>2. /\ Holds("check") = 0 /\ Holds("slot") = 0
      /\ \A place \in Holding : Holds(place) = 1
      /\ Holding \subseteq Places /\ "slot" \in Places
  BY DEF Holds, Holding, Places
<1>3. calls \subseteq Blocks /\ cached \subseteq Blocks
  BY DEF IInv, ReadersOK
<1>4. taken \in Nat /\ Slots \in Nat /\ taken <= Slots
  BY Numbers DEF IInv, SlotsOK
<1>5. CASE Check(x)
  <2>1. CASE x.stale
    BY <1>2, <1>4, <1>5, <2>1, EndKeeps DEF Check
  <2>2. CASE ~x.stale
    BY <1>2, <1>3, <1>4, <1>5, <2>2, MoveKeeps DEF Check
  <2> QED
    BY <2>1, <2>2
<1>6. CASE TakeSlot(x)
  <2>1. CASE taken < Slots /\ taken' = taken + 1 /\ Moves(x, "recheck")
    <3>1. "recheck" \in Holding /\ x.at = "slot"
      BY <1>6 DEF TakeSlot, Holding
    <3>2. taken' = taken - Holds(x.at) + Holds("recheck") /\ taken' <= Slots
      BY <1>2, <1>4, <2>1, <3>1
    <3> QED
      BY <1>2, <1>3, <1>6, <2>1, <3>1, <3>2, MoveKeeps DEF TakeSlot
  <2>2. CASE taken = Slots /\ Ends(x) /\ UNCHANGED taken
    BY <1>2, <1>4, <1>6, <2>2, EndKeeps DEF TakeSlot
  <2> QED
    BY <1>6, <2>1, <2>2 DEF TakeSlot
<1>7. CASE Recheck(x)
  <2> DEFINE place == IF x.stale THEN "release" ELSE "get"
  <2>1. x.at \in Holding /\ place \in Holding
    BY <1>7 DEF Recheck, Holding
  <2>2. Moves(x, place) /\ UNCHANGED <<known, reader, lastEnd, taken, calls, cached, span>>
    BY <1>7 DEF Recheck
  <2> HIDE DEF place
  <2>3. taken' = taken - Holds(x.at) + Holds(place)
    BY <1>2, <1>4, <2>1, <2>2
  <2> QED
    BY <1>2, <1>3, <1>4, <2>1, <2>2, <2>3, MoveKeeps
<1>8. CASE TaskGet(x)
  <2> DEFINE place == IF Found(x.block) = "have" THEN "release" ELSE Found(x.block)
  <2>1. x.at \in Holding /\ place \in Holding
    BY <1>8 DEF TaskGet, Holding, Found
  <2>2. Moves(x, place) /\ UNCHANGED <<known, reader, lastEnd, taken, cached, span>>
    BY <1>8 DEF TaskGet
  <2>3. calls' \subseteq Blocks /\ cached' \subseteq Blocks
    BY <1>1, <1>3, <1>8 DEF TaskGet, Register
  <2> HIDE DEF place
  <2>4. taken' = taken - Holds(x.at) + Holds(place)
    BY <1>2, <1>4, <2>1, <2>2
  <2> QED
    BY <1>2, <1>4, <2>1, <2>2, <2>3, <2>4, MoveKeeps
<1>9. CASE Release(x)
  <2>1. x.at \in Holding
    BY <1>9 DEF Release, Holding
  <2> QED
    BY <1>2, <1>9, <2>1, EndKeeps DEF Release
<1> QED
  BY <1>5, <1>6, <1>7, <1>8, <1>9 DEF TaskStep

-----------------------------------------------------------------------------
(* The readers *)

\* A reader that goes on, and owes no more than before.
LEMMA ReaderKeeps ==
  ASSUME IInv, ReadersOK', ReaderWindow', WorkOK', SlotsOK', WorkFollowsReader',
         \A r \in Readers : OwedBy(reader'[r]) <= OwedBy(reader[r]),
         HowMany(work', Kinds) = HowMany(work, Kinds)
  PROVE  IInv'
<1>1. Looping(reader')
  BY DEF ReadersOK, ReaderWindow, Looping, Locals, Holding
<1>2. AllOwed(reader') <= AllOwed(reader) /\ AllOwed(reader') \in Nat
  BY <1>1, Numbers, LessOwed, OwedTyped
<1>3. HowMany(work', Kinds) + AllOwed(reader') <= MaxTasks
  BY <1>2, Numbers DEF IInv, Room
<1>4. Room'
  BY <1>3 DEF Room, Kinds
<1> QED
  BY <1>4 DEF IInv

LEMMA EvictKeeps ==
  ASSUME IInv, Evict
  PROVE  IInv'
<1>1. ReadersOK' /\ ReaderWindow' /\ AllOwed(reader') = AllOwed(reader)
  BY ReadersKept DEF Evict, IInv, ReadersOK
<1>2. /\ WorkOK' /\ SlotsOK' /\ WorkFollowsReader'
      /\ HowMany(work', Kinds) = HowMany(work, Kinds)
  BY WorkKept DEF Evict
<1>3. Room'
  BY <1>1, <1>2 DEF IInv, Room, Kinds
<1> QED
  BY <1>1, <1>2, <1>3 DEF IInv
\* A reader that is where it owes nothing of a window.
LEMMA RestTyped == Rest \in Locals /\ OwedBy(Rest) = 0 /\ Rest.at = "idle"
<1>1. 0 \in 0 .. FileLen
  BY SizesAssumption
<1> QED
  BY <1>1, BlocksTyped DEF Rest, Locals, OwedBy

LEMMA CancelKeeps ==
  ASSUME IInv, Cancel
  PROVE  IInv'
<1>1. calls \subseteq Blocks /\ cached \subseteq Blocks
  BY DEF IInv, ReadersOK
<1>2. ASSUME NEW r \in Readers, reader[r].at = "wait", Goto(r, "idle"), UNCHANGED work
      PROVE  IInv'
  <2>1. UNCHANGED <<known, lastEnd, taken, calls, cached, span>>
    BY DEF Cancel
  <2>2. reader \in [Readers -> Locals]
    BY DEF IInv, ReadersOK
  <2>3. reader' \in [Readers -> Locals]
        /\ reader'[r] = Rest /\ \A q \in Readers \ {r} : reader'[q] = reader[q]
    BY <1>2, <2>2, RestTyped DEF Goto
  <2>4. ReadersOK'
    BY <2>1, <2>3 DEF IInv, ReadersOK, Locals
  <2>5. ReaderWindow'
    BY <2>1, <2>3, RestTyped DEF IInv, ReaderWindow, InLoop, InSpan
  <2>6. /\ WorkOK' /\ SlotsOK' /\ WorkFollowsReader'
        /\ HowMany(work', Kinds) = HowMany(work, Kinds)
    BY <1>2, <2>1, WorkKept
  <2>7. \A q \in Readers : OwedBy(reader'[q]) <= OwedBy(reader[q])
    <3>1. \A q \in Readers : OwedBy(reader[q]) \in 0 .. AheadBlocks
      BY Numbers, OwedTyped
    <3> QED
      BY <2>3, <3>1, RestTyped
  <2> QED
    BY <2>4, <2>5, <2>6, <2>7, ReaderKeeps
<1>3. ASSUME NEW x \in Tasks, x.at = "wait", Moves(x, "release"), UNCHANGED reader
      PROVE  IInv'
  <2>1. UNCHANGED <<known, lastEnd, taken, calls, cached, span>>
    BY DEF Cancel
  <2>2. Holds(x.at) = 1 /\ Holds("release") = 1 /\ "release" \in Places
    BY <1>3 DEF Holds, Holding, Places
  <2>3. taken' = taken - Holds(x.at) + Holds("release") /\ taken' <= Slots
    BY <2>1, <2>2, Numbers DEF IInv, SlotsOK
  <2> QED
    BY <1>1, <1>3, <2>1, <2>2, <2>3, MoveKeeps
<1> QED
  BY <1>2, <1>3 DEF Cancel

LEMMA EndCallKeeps ==
  ASSUME IInv, NEW b \in Blocks, EndCall(b)
  PROVE  IInv'
<1>1. UNCHANGED <<known, lastEnd, taken, span>> /\ Becomes(Woken(b))
  BY DEF EndCall, Woken
<1>2. \A r \in Readers :
        \/ reader'[r] = reader[r]
        \/ reader[r].at \in {"fetch", "wait"} /\ reader'[r] = [reader[r] EXCEPT !.at = "note"]
        \/ reader'[r] = Rest
  BY DEF EndCall, Served
<1>3. calls' \subseteq Blocks /\ cached' \subseteq Blocks
  BY DEF EndCall, IInv, ReadersOK
<1>4. \A r \in Readers : /\ reader'[r] \in Locals
                         /\ reader'[r].at = "spawn" => reader'[r] = reader[r]
                         /\ OwedBy(reader'[r]) <= OwedBy(reader[r])
  <2> TAKE r \in Readers
  <2>1. reader[r] \in Locals /\ OwedBy(reader[r]) \in Nat
    <3>1. OwedBy(reader[r]) \in 0 .. AheadBlocks
      BY Numbers, OwedTyped
    <3> QED
      BY <3>1 DEF IInv, ReadersOK
  <2>2. CASE reader'[r] = reader[r]
    BY <2>1, <2>2
  <2>3. CASE reader[r].at \in {"fetch", "wait"} /\ reader'[r] = [reader[r] EXCEPT !.at = "note"]
    <3>1. reader'[r] \in Locals /\ reader'[r].at = "note"
      BY <2>1, <2>3 DEF Locals
    <3>2. OwedBy(reader'[r]) = AheadBlocks /\ OwedBy(reader[r]) = AheadBlocks
      BY <2>3, <3>1 DEF OwedBy
    <3> QED
      BY <3>1, <3>2, CeilMonotone
  <2>4. CASE reader'[r] = Rest
    BY <2>1, <2>4, RestTyped
  <2> QED
    BY <1>2, <2>2, <2>3, <2>4
<1>5. ReadersOK'
  <2>1. reader' = [r \in Readers |-> reader'[r]]
    BY DEF EndCall
  <2>2. reader' \in [Readers -> Locals]
    BY <1>4, <2>1
  <2> QED
    BY <1>1, <1>3, <2>2 DEF IInv, ReadersOK, Locals
<1>6. ReaderWindow'
  BY <1>1, <1>4 DEF IInv, ReaderWindow, InLoop, InSpan
<1>7. /\ Woken(b) \in [Tasks -> Kinds]
      /\ \A x \in Tasks : Woken(b)[x].at \in Holding <=> x.at \in Holding
      /\ \A y \in Range(Woken(b)) : \E x \in Tasks : y.block = x.block /\ y.stale = x.stale
  BY WokenTyped DEF IInv
<1>8. /\ WorkOK' /\ Tasks' = Range(Woken(b))
      /\ HowMany(work', Kinds) = HowMany(work, Kinds)
      /\ HowMany(work', HoldingKinds) = HowMany(work, HoldingKinds)
  BY <1>1, <1>7, TasksBecome DEF IInv
<1>9. SlotsOK'
  BY <1>1, <1>8 DEF IInv, SlotsOK, HoldingKinds, Kinds
<1>10. WorkFollowsReader'
  BY <1>1, <1>7, <1>8, WorkStays
<1> QED
  BY <1>4, <1>5, <1>6, <1>8, <1>9, <1>10, ReaderKeeps

\* The guard leaves room for what the new read may start.
LEMMA BeginKeeps ==
  ASSUME IInv, NEW r \in Readers, Begin(r)
  PROVE  IInv'
<1>1. UNCHANGED <<known, work, lastEnd, taken, cached, span>> /\ reader[r].at = "idle"
  BY DEF Begin
<1>2. PICK p \in Reads :
        /\ reader' = [reader EXCEPT ![r] =
             [at |-> IF Found(p[1] \div BlockSize) = "have" THEN "note"
                     ELSE Found(p[1] \div BlockSize),
              off |-> p[1], end |-> p[2], block |-> p[1] \div BlockSize, stale |-> FALSE]]
        /\ Register(p[1] \div BlockSize)
  BY DEF Begin
<1>3. /\ p[1] \in 0 .. FileLen /\ p[2] \in 0 .. FileLen /\ p[1] \div BlockSize \in Blocks
  BY BlocksTyped
<1>4. reader \in [Readers -> Locals] /\ calls \subseteq Blocks
  BY DEF IInv, ReadersOK
<1>5. /\ reader'[r] \in Locals /\ reader'[r].at \in {"wait", "fetch", "note"}
      /\ \A q \in Readers \ {r} : reader'[q] = reader[q]
  BY <1>2, <1>3, <1>4 DEF Locals, Found
<1>6. reader' \in [Readers -> Locals]
  BY <1>2, <1>4, <1>5
<1>7. calls' \subseteq Blocks
  BY <1>2, <1>3, <1>4 DEF Register
<1>8. ReadersOK'
  BY <1>1, <1>6, <1>7 DEF IInv, ReadersOK, Locals
<1>9. ReaderWindow'
  BY <1>1, <1>5 DEF IInv, ReaderWindow, InLoop, InSpan
<1>10. /\ WorkOK' /\ SlotsOK' /\ WorkFollowsReader'
       /\ HowMany(work', Kinds) = HowMany(work, Kinds)
  BY <1>1, WorkKept
<1>11. HowMany(work', Kinds) + AllOwed(reader') <= MaxTasks
  <2>1. Looping(reader')
    BY <1>6, <1>9 DEF ReaderWindow, Looping
  <2>2. AllOwed(reader') = AllOwed(reader) - OwedBy(reader[r]) + OwedBy(reader'[r])
    BY <1>5, <2>1, Numbers, OneOwes
  <2>3. OwedBy(reader[r]) = 0 /\ OwedBy(reader'[r]) = AheadBlocks
    BY <1>1, <1>5 DEF OwedBy
  <2>4. AllOwed(reader) <= AheadBlocks * Cardinality(Busy) /\ AllOwed(reader) \in Nat
    BY Numbers, OwedTyped DEF Busy
  <2>5. HowMany(work, Kinds) + AheadBlocks * (Cardinality(Busy) + 1) <= MaxTasks
    BY KindsCount DEF Begin, WithinBound, IInv
  <2>6. Cardinality(Busy) \in Nat /\ AheadBlocks \in Nat
    <3>1. IsFiniteSet(Busy)
      BY ReadersAssumption, FS_Subset DEF Busy
    <3> QED
      BY <3>1, FS_CardinalityType, CeilMonotone
  <2>7. AheadBlocks * (Cardinality(Busy) + 1) = AheadBlocks * Cardinality(Busy) + AheadBlocks
    BY <2>6
  <2>8. AheadBlocks * Cardinality(Busy) \in Nat
    BY <2>6
  <2>9. HowMany(work, Kinds) \in Nat /\ MaxTasks \in Nat
    BY Numbers
  <2> QED
    BY <1>10, <2>2, <2>3, <2>4, <2>5, <2>6, <2>7, <2>8, <2>9
<1>12. Room'
  BY <1>11 DEF Room, Kinds
<1> QED
  BY <1>8, <1>9, <1>10, <1>12 DEF IInv
\* A turn of the loop: the goroutine it starts is one that was owed, and it is
\* about the window that the reader is in.
LEMMA SpawnKeeps ==
  ASSUME IInv, NEW r \in Readers, Spawn(r)
  PROVE  IInv'
<1> DEFINE b == reader[r].block
           end == reader[r].end
           over == b >= CeilBlock(end) + AheadBlocks \/ (known /\ Behind(b))
<1>1. UNCHANGED <<known, lastEnd, taken, calls, cached, span>> /\ reader[r].at = "spawn"
  BY DEF Spawn
<1>2. /\ reader \in [Readers -> Locals] /\ reader[r] \in Locals
      /\ calls \subseteq Blocks /\ cached \subseteq Blocks
  BY DEF IInv, ReadersOK
<1>3. /\ b \in Blocks /\ b \in Nat /\ end \in 0 .. FileLen /\ end \in Nat
      /\ reader[r].stale \in BOOLEAN
  <2>1. Blocks \subseteq Nat /\ 0 .. FileLen \subseteq Nat
    BY BlocksTyped
  <2>2. b \in Blocks /\ end \in 0 .. FileLen /\ reader[r].stale \in BOOLEAN
    BY <1>2 DEF Locals
  <2> QED
    BY <2>1, <2>2
<1>4. CeilBlock(end) \in Nat /\ AheadBlocks \in Nat
  BY <1>3, CeilMonotone
<1>5. /\ CeilBlock(end) <= b /\ b <= CeilBlock(end) + AheadBlocks
      /\ ~reader[r].stale => span[1] <= end /\ end <= span[2]
  BY <1>1 DEF IInv, ReaderWindow, InLoop, InSpan
<1>6. \A q \in Readers : OwedBy(reader[q]) \in 0 .. AheadBlocks
  BY Numbers, OwedTyped
<1>7. CASE over /\ Goto(r, "idle") /\ UNCHANGED work
  <2>1. reader' \in [Readers -> Locals]
        /\ reader'[r] = Rest /\ \A q \in Readers \ {r} : reader'[q] = reader[q]
    BY <1>2, <1>7, RestTyped DEF Goto
  <2>2. ReadersOK'
    BY <1>1, <2>1 DEF IInv, ReadersOK, Locals
  <2>3. ReaderWindow'
    BY <1>1, <2>1, RestTyped DEF IInv, ReaderWindow, InLoop, InSpan
  <2>4. /\ WorkOK' /\ SlotsOK' /\ WorkFollowsReader'
        /\ HowMany(work', Kinds) = HowMany(work, Kinds)
    BY <1>1, <1>7, WorkKept
  <2>5. \A q \in Readers : OwedBy(reader'[q]) <= OwedBy(reader[q])
    BY <1>4, <1>6, <2>1, RestTyped
  <2> QED
    BY <2>2, <2>3, <2>4, <2>5, ReaderKeeps
<1>8. CASE /\ ~over
           /\ reader' = [reader EXCEPT ![r].block = b + 1]
           /\ work' = IF b \in cached \cup calls THEN work
                      ELSE BagOps!BagAdd(work, Started(r))
  <2>1. b < CeilBlock(end) + AheadBlocks /\ (known => ~Behind(b))
    BY <1>3, <1>4, <1>8
  <2>2. b + 1 \in Blocks
    BY <1>3, <1>4, <2>1, BlocksTyped
  <2>3. /\ reader'[r] \in Locals /\ reader'[r].at = "spawn" /\ reader'[r].end = end
        /\ reader'[r].block = b + 1 /\ reader'[r].stale = reader[r].stale
        /\ \A q \in Readers \ {r} : reader'[q] = reader[q]
    BY <1>1, <1>2, <1>8, <2>2 DEF Locals
  <2>4. reader' \in [Readers -> Locals]
    BY <1>2, <1>8, <2>3
  <2>5. ReadersOK'
    BY <1>1, <2>4 DEF IInv, ReadersOK, Locals
  <2>6. InLoop(reader'[r])
    BY <1>3, <1>4, <1>5, <2>1, <2>3 DEF InLoop
  <2>7. ReaderWindow'
    BY <1>1, <1>5, <2>3, <2>6 DEF IInv, ReaderWindow, InLoop, InSpan
  <2>8. /\ OwedBy(reader'[r]) = OwedBy(reader[r]) - 1
    BY <1>1, <1>3, <1>4, <2>3 DEF OwedBy
  <2>9. CASE b \in cached \cup calls
    <3>1. work' = work
      BY <1>8, <2>9
    <3>2. /\ WorkOK' /\ SlotsOK' /\ WorkFollowsReader'
          /\ HowMany(work', Kinds) = HowMany(work, Kinds)
      BY <1>1, <3>1, WorkKept
    <3>3. \A q \in Readers : OwedBy(reader'[q]) <= OwedBy(reader[q])
      BY <1>4, <1>6, <2>3, <2>8
    <3> QED
      BY <2>5, <2>7, <3>2, <3>3, ReaderKeeps
  <2>10. CASE b \notin cached \cup calls
    <3> DEFINE x == Started(r)
    <3>1. work' = BagOps!BagAdd(work, x)
      BY <1>8, <2>10
    <3>2. /\ x \in Kinds /\ x.at = "check" /\ x.block = b /\ x.stale = reader[r].stale
      BY <1>3 DEF Started, Kinds
    <3> HIDE DEF x
    <3>3. /\ WorkOK' /\ Tasks' = Tasks \cup {x}
          /\ HowMany(work', Kinds) = HowMany(work, Kinds) + 1
          /\ HowMany(work', HoldingKinds) = HowMany(work, HoldingKinds)
      BY <3>1, <3>2, TaskStarts DEF IInv
    <3>4. SlotsOK'
      BY <1>1, <3>3 DEF IInv, SlotsOK, HoldingKinds, Kinds
    <3>5. ~x.stale => x.block \in CeilBlock(span[1]) .. CeilBlock(span[2]) + AheadBlocks - 1
      <4> SUFFICES ASSUME ~reader[r].stale
                   PROVE  b \in CeilBlock(span[1]) .. CeilBlock(span[2]) + AheadBlocks - 1
        BY <3>2
      <4>1. span[1] \in Nat /\ span[2] \in Nat
        BY DEF IInv, ReadersOK
      <4>2. CeilBlock(span[1]) <= CeilBlock(end) /\ CeilBlock(end) <= CeilBlock(span[2])
        BY <1>3, <1>5, <4>1, CeilMonotone
      <4>3. CeilBlock(span[1]) \in Nat /\ CeilBlock(span[2]) \in Nat
        BY <4>1, CeilMonotone
      <4> QED
        BY <1>3, <1>4, <1>5, <2>1, <4>2, <4>3
    <3>6. WorkFollowsReader'
      BY <1>1, <2>1, <3>2, <3>3, <3>5 DEF IInv, WorkFollowsReader
    <3>7. HowMany(work', Kinds) + AllOwed(reader') <= MaxTasks
      <4>1. Looping(reader')
        BY <2>4, <2>7 DEF ReaderWindow, Looping
      <4>2. AllOwed(reader') = AllOwed(reader) - OwedBy(reader[r]) + OwedBy(reader'[r])
        BY <2>3, <4>1, Numbers, OneOwes
      <4>3. OwedBy(reader[r]) \in Nat
        BY <1>4, <1>6
      <4> QED
        BY <2>8, <3>3, <4>2, <4>3, Numbers DEF IInv, Room
    <3>8. Room'
      BY <3>7 DEF Room, Kinds
    <3> QED
      BY <2>5, <2>7, <3>3, <3>4, <3>6, <3>8 DEF IInv
  <2> QED
    BY <2>9, <2>10
<1> QED
  BY <1>7, <1>8 DEF Spawn
\* The critical section: the window is one of the ends since the last seek, or
\* everything that follows an earlier end is stale.
LEMMA NoteKeeps ==
  ASSUME IInv, NEW r \in Readers, Note(r)
  PROVE  IInv'
<1> DEFINE end == reader[r].end
<1>1. /\ UNCHANGED <<known, taken, calls, cached>>
      /\ reader[r].at = "note" /\ lastEnd' = end
  BY DEF Note
<1>2. /\ reader \in [Readers -> Locals] /\ reader[r] \in Locals
      /\ span[1] \in 0 .. FileLen /\ span[2] \in 0 .. FileLen
  BY DEF IInv, ReadersOK
<1>3. end \in 0 .. FileLen /\ 0 .. FileLen \subseteq Nat
  BY <1>2 DEF Locals
<1>4. \A q \in Readers : OwedBy(reader[q]) \in 0 .. AheadBlocks
  BY Numbers, OwedTyped
<1>5. CeilBlock(end) \in Nat /\ AheadBlocks \in Nat
  BY <1>3, CeilMonotone
<1>6. CASE Follow(r)
  <2>1. /\ reader' = [reader EXCEPT ![r].at = "spawn", ![r].block = CeilBlock(end)]
        /\ span' = <<Lesser(span[1], end), Greater(span[2], end)>>
        /\ UNCHANGED work
    BY <1>6 DEF Follow
  <2>2. /\ span'[1] \in 0 .. FileLen /\ span'[2] \in 0 .. FileLen
        /\ span' = <<span'[1], span'[2]>>
        /\ span'[1] <= end /\ end <= span'[2]
        /\ span'[1] <= span[1] /\ span[2] <= span'[2]
    BY <1>2, <1>3, <2>1 DEF Lesser, Greater
  <2>3. CeilBlock(end) \in Blocks
    BY <1>3, <1>5, BlocksTyped
  <2>4. /\ reader'[r] \in Locals /\ reader'[r].at = "spawn" /\ reader'[r].end = end
        /\ reader'[r].block = CeilBlock(end)
        /\ \A q \in Readers \ {r} : reader'[q] = reader[q]
    BY <1>2, <2>1, <2>3 DEF Locals
  <2>5. ReadersOK'
    <3>1. reader' \in [Readers -> Locals]
      BY <1>2, <2>1, <2>4
    <3>2. span' \in (0 .. FileLen) \X (0 .. FileLen)
      BY <2>2
    <3> QED
      BY <1>1, <1>3, <3>1, <3>2 DEF IInv, ReadersOK, Locals
  <2>6. InLoop(reader'[r])
    BY <1>5, <2>4 DEF InLoop
  <2>7. ReaderWindow'
    <3>1. ASSUME NEW q \in Readers, q # r
          PROVE  (InLoop(reader[q]) /\ InSpan(reader[q]))'
      <4>1. reader'[q] = reader[q] /\ InLoop(reader[q]) /\ InSpan(reader[q])
        BY <2>4, <3>1 DEF IInv, ReaderWindow
      <4>2. reader[q].end \in Nat
        BY <1>2, <1>3 DEF Locals
      <4> QED
        BY <1>2, <1>3, <2>2, <4>1, <4>2 DEF InLoop, InSpan
    <3>2. (InLoop(reader[r]) /\ InSpan(reader[r]))'
      BY <2>2, <2>4, <2>6 DEF InSpan, InLoop
    <3> QED
      BY <3>1, <3>2 DEF ReaderWindow
  <2>8. WorkOK' /\ SlotsOK' /\ HowMany(work', Kinds) = HowMany(work, Kinds)
    BY <1>1, <2>1 DEF IInv, WorkOK, SlotsOK, Tasks
  <2>9. WorkFollowsReader'
    <3>1. Tasks' = Tasks /\ known' = known
      BY <1>1, <2>1 DEF Tasks
    <3>2. CeilBlock(span'[1]) <= CeilBlock(span[1]) /\ CeilBlock(span[2]) <= CeilBlock(span'[2])
      BY <1>2, <1>3, <2>2, CeilMonotone
    <3>3. /\ CeilBlock(span'[1]) \in Nat /\ CeilBlock(span[1]) \in Nat
          /\ CeilBlock(span[2]) \in Nat /\ CeilBlock(span'[2]) \in Nat
      BY <1>2, <1>3, <2>2, CeilMonotone
    <3>4. \A n \in CeilBlock(span[1]) .. CeilBlock(span[2]) + AheadBlocks - 1 :
            n \in CeilBlock(span'[1]) .. CeilBlock(span'[2]) + AheadBlocks - 1
      BY <1>5, <3>2, <3>3
    <3> QED
      BY <3>1, <3>4 DEF IInv, WorkFollowsReader
  <2>10. \A q \in Readers : OwedBy(reader'[q]) <= OwedBy(reader[q])
    <3>1. OwedBy(reader[r]) = AheadBlocks /\ OwedBy(reader'[r]) = AheadBlocks
      BY <1>1, <1>5, <2>4 DEF OwedBy
    <3> QED
      BY <1>4, <1>5, <2>4, <3>1
  <2> QED
    BY <2>5, <2>7, <2>8, <2>9, <2>10, ReaderKeeps
<1>7. CASE Seek(r)
  <2>1. /\ reader' = [q \in Readers |-> IF q = r THEN Rest
                        ELSE [reader[q] EXCEPT !.stale = reader[q].at = "spawn"]]
        /\ Becomes(Stale) /\ span' = <<end, end>>
    BY <1>7 DEF Seek, Stale
  <2>2. \A q \in Readers : /\ reader'[q] \in Locals
                           /\ reader'[q].at = "spawn" => reader'[q].stale
                           /\ InLoop(reader'[q])
                           /\ OwedBy(reader'[q]) <= OwedBy(reader[q])
    <3> TAKE q \in Readers
    <3>1. CASE q = r
      BY <1>4, <2>1, <3>1, RestTyped, <1>5 DEF InLoop
    <3>2. CASE q # r
      <4>1. reader[q] \in Locals /\ InLoop(reader[q])
        BY <1>2 DEF IInv, ReaderWindow
      <4>2. reader'[q] = [reader[q] EXCEPT !.stale = reader[q].at = "spawn"]
        BY <2>1, <3>2
      <4>3. (reader[q].at = "spawn") \in BOOLEAN
        OBVIOUS
      <4>4. /\ reader'[q] \in Locals
            /\ reader'[q].at = reader[q].at /\ reader'[q].end = reader[q].end
            /\ reader'[q].block = reader[q].block
            /\ reader'[q].stale = (reader[q].at = "spawn")
        BY <4>1, <4>2, <4>3 DEF Locals
      <4>5. InLoop(reader'[q]) /\ OwedBy(reader'[q]) = OwedBy(reader[q])
        BY <4>1, <4>4 DEF InLoop, OwedBy
      <4>6. OwedBy(reader'[q]) <= OwedBy(reader[q])
        BY <1>4, <1>5, <4>5
      <4>7. reader'[q].at = "spawn" => reader'[q].stale
        BY <4>4
      <4> QED
        BY <4>4, <4>5, <4>6, <4>7
    <3> QED
      BY <3>1, <3>2
  <2>3. ReadersOK'
    <3>1. reader' \in [Readers -> Locals]
      BY <2>1, <2>2
    <3>2. span' \in (0 .. FileLen) \X (0 .. FileLen)
      BY <1>3, <2>1
    <3> QED
      BY <1>1, <1>3, <3>1, <3>2 DEF IInv, ReadersOK, Locals
  <2>4. ReaderWindow'
    BY <2>2 DEF ReaderWindow, InSpan, InLoop
  <2>5. /\ Stale \in [Tasks -> Kinds]
        /\ \A x \in Tasks : Stale[x].at \in Holding <=> x.at \in Holding
        /\ \A y \in Range(Stale) : y.stale /\ \E x \in Tasks : y.block = x.block
    BY StaleTyped DEF IInv
  <2>6. /\ WorkOK' /\ Tasks' = Range(Stale)
        /\ HowMany(work', Kinds) = HowMany(work, Kinds)
        /\ HowMany(work', HoldingKinds) = HowMany(work, HoldingKinds)
    BY <2>1, <2>5, TasksBecome DEF IInv
  <2>7. SlotsOK'
    BY <1>1, <2>6 DEF IInv, SlotsOK, HoldingKinds, Kinds
  <2>8. WorkFollowsReader'
    BY <1>1, <2>5, <2>6 DEF IInv, WorkFollowsReader
  <2> QED
    BY <2>2, <2>3, <2>4, <2>6, <2>7, <2>8, ReaderKeeps
<1> QED
  BY <1>6, <1>7 DEF Note

-----------------------------------------------------------------------------
(* The theorems *)

LEMMA InitIInv == Init => IInv
<1> SUFFICES ASSUME Init PROVE IInv
  OBVIOUS
<1>1. /\ known \in BOOLEAN /\ reader = [r \in Readers |-> Rest]
      /\ Tasks = {} /\ work = [x \in {} |-> 0] /\ lastEnd = 0 /\ taken = 0
      /\ span = <<0, 0>> /\ calls = {} /\ cached = {}
  BY SizesAssumption DEF Init, Tasks
<1>2. ReadersOK
  <2>1. 0 \in 0 .. FileLen
    BY SizesAssumption
  <2> QED
    BY <1>1, <2>1, RestTyped DEF ReadersOK
<1>3. WorkOK
  BY <1>1, FS_EmptySet DEF WorkOK, Bag, Tasks
<1>4. HowMany(work, HoldingKinds) = 0 /\ HowMany(work, Kinds) = 0
  <2>1. DOMAIN work \cap HoldingKinds = {} /\ DOMAIN work \cap Kinds = {}
    BY <1>1
  <2> QED
    BY <2>1, SumEmpty DEF HowMany
<1>5. SlotsOK
  BY <1>1, <1>4, SizesAssumption DEF SlotsOK
<1>6. WorkFollowsReader
  BY <1>1 DEF WorkFollowsReader
<1>7. ReaderWindow
  BY <1>1, RestTyped DEF ReaderWindow, InLoop, InSpan
<1>8. Room
  <2>1. Looping(reader)
    BY <1>2, <1>7 DEF ReadersOK, ReaderWindow, Looping
  <2>2. {r \in Readers : reader[r].at # "idle"} = {}
    BY <1>1, RestTyped
  <2>3. AllOwed(reader) \in Nat /\ AllOwed(reader) <= AheadBlocks * 0
    BY <2>1, <2>2, OwedTyped, FS_EmptySet
  <2>4. AheadBlocks * 0 = 0
    BY CeilMonotone
  <2> QED
    BY <1>4, <2>3, <2>4, SizesAssumption DEF Room
<1> QED
  BY <1>2, <1>3, <1>5, <1>6, <1>7, <1>8 DEF IInv

LEMMA NextIInv == IInv /\ [Next]_vars => IInv'
<1> SUFFICES ASSUME IInv, [Next]_vars PROVE IInv'
  OBVIOUS
<1>1. CASE UNCHANGED vars
  BY <1>1 DEF vars, IInv, ReadersOK, WorkOK, SlotsOK, WorkFollowsReader, ReaderWindow,
              InSpan, Room, Tasks
<1>2. ASSUME NEW r \in Readers, Begin(r) PROVE IInv'
  BY <1>2, BeginKeeps
<1>3. ASSUME NEW r \in Readers, ReaderStep(r) PROVE IInv'
  BY <1>3, NoteKeeps, SpawnKeeps DEF ReaderStep
<1>4. ASSUME NEW x \in Tasks, TaskStep(x) PROVE IInv'
  BY <1>4, TaskKeeps
<1>5. ASSUME NEW b \in Blocks, EndCall(b) PROVE IInv'
  BY <1>5, EndCallKeeps
<1>6. CASE Cancel \/ Evict
  BY <1>6, CancelKeeps, EvictKeeps
<1> QED
  BY <1>1, <1>2, <1>3, <1>4, <1>5, <1>6 DEF Next

\* The invariant of the read-ahead of maybePrefetch.
THEOREM Inductive == Spec => []IInv
<1>1. Init => IInv
  BY InitIInv
<1>2. IInv /\ [Next]_vars => IInv'
  BY NextIInv
<1> QED
  BY <1>1, <1>2, PTL DEF Spec

\* The variables keep their types: the goroutines are within what the guard of
\* a new read leaves room for, and the slots within the capacity of prefetchSem.
THEOREM TypeCorrect == Spec => []TypeOK
<1>1. IInv => TypeOK
  <2> SUFFICES ASSUME IInv PROVE TypeOK
    OBVIOUS
  <2>1. SumFunction(work) <= MaxTasks
    <3>1. SumFunction(work) = HowMany(work, Kinds)
      BY KindsCount DEF IInv
    <3> QED
      BY <3>1, Numbers DEF IInv, Room
  <2>2. taken \in 0 .. Slots
    BY Numbers DEF IInv, SlotsOK
  <2> QED
    BY <2>1, <2>2 DEF TypeOK, IInv, ReadersOK, WorkOK, Bag, Tasks, Kinds, Locals
<1> QED
  BY <1>1, Inductive, PTL

\* The slots of prefetchSem in use are those of the goroutines that have taken
\* one and have not returned, and never more than there are.
THEOREM SlotsAreHeldHolds == Spec => []SlotsAreHeld
<1>1. IInv => SlotsAreHeld
  BY KindsCount DEF IInv, SlotsOK, SlotsAreHeld
<1> QED
  BY <1>1, Inductive, PTL

\* A goroutine that no seek has made stale is about the window of a read since
\* the last seek, and none is about a block behind the end of a known size.
THEOREM WorkFollowsReaderHolds == Spec => []WorkFollowsReader
<1>1. IInv => WorkFollowsReader
  BY DEF IInv
<1> QED
  BY <1>1, Inductive, PTL
=============================================================================
