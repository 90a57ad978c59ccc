-------------------------------- MODULE Sums --------------------------------
(***************************************************************************)
(* What SumFunctionOnSet of the community modules computes over a finite   *)
(* set, whatever the order in which it picks the elements.  Its definition *)
(* is a recursive function on the subsets; the lemmas are proved from a    *)
(* smallest subset that would refute them.                                 *)
(***************************************************************************)
EXTENDS Functions, FiniteSetTheorems, TLAPS

Picked(s) == CHOOSE x \in s : TRUE

\* g has the sum of f over every subset of S.
SumsUp(f, S, g) ==
  g = [s \in SUBSET S |-> IF s = {} THEN 0 ELSE f[Picked(s)] + g[s \ {Picked(s)}]]

\* A set of subsets of a finite set has a member without a smaller one.
LEMMA SmallestSubset ==
  ASSUME NEW S, IsFiniteSet(S), NEW B \in SUBSET SUBSET S, B # {}
  PROVE  \E T \in B : \A U \in B : U \subseteq T => U = T
<1>1. IsWellFoundedOn(StrictSubsetOrdering(S), SUBSET S)
  BY FS_StrictSubsetOrderingWellFounded, FS_FiniteSubsetsOfFinite
<1>2. PICK T \in B : \A U \in B : ~(<<U, T>> \in StrictSubsetOrdering(S))
  BY <1>1, WFMin
<1>3. \A U \in B : U \subseteq T => U = T
  BY <1>2 DEF StrictSubsetOrdering
<1> QED
  BY <1>3

\* The library's definition is such a function.
LEMMA SumDefinition ==
  ASSUME NEW f, NEW S
  PROVE  SumFunctionOnSet(f, S) = (CHOOSE g : SumsUp(f, S, g))[S]
  BY DEF SumFunctionOnSet, FoldFunctionOnSet, MapThenFoldSet, SumsUp, Picked

\* Two such functions agree wherever both are defined.
LEMMA SumsAgree ==
  ASSUME NEW f, NEW S, IsFiniteSet(S), NEW A \in SUBSET S, NEW g, SumsUp(f, S, g),
         NEW h, SumsUp(f, A, h)
  PROVE  \A s \in SUBSET A : g[s] = h[s]
<1> DEFINE B == {s \in SUBSET A : g[s] # h[s]}
<1>1. SUFFICES ASSUME B # {} PROVE FALSE
  OBVIOUS
<1>2. PICK T \in B : \A U \in B : U \subseteq T => U = T
  <2>1. B \in SUBSET SUBSET S
    OBVIOUS
  <2> HIDE DEF B
  <2> QED
    BY <1>1, <2>1, SmallestSubset
<1>3. T \in SUBSET A /\ T \in SUBSET S /\ g[T] # h[T]
  OBVIOUS
<1>4. T # {}
  BY <1>3 DEF SumsUp
<1>5. Picked(T) \in T
  BY <1>4 DEF Picked
<1>6. g[T \ {Picked(T)}] = h[T \ {Picked(T)}]
  <2>1. T \ {Picked(T)} \notin B
    BY <1>2, <1>5
  <2> QED
    BY <1>3, <2>1
<1>7. /\ g[T] = f[Picked(T)] + g[T \ {Picked(T)}]
      /\ h[T] = f[Picked(T)] + h[T \ {Picked(T)}]
  BY <1>3, <1>4 DEF SumsUp
<1> QED
  BY <1>3, <1>6, <1>7

\* There is such a function for every finite set.
LEMMA SumsExist ==
  ASSUME NEW f, NEW S, IsFiniteSet(S)
  PROVE  \A A \in SUBSET S : \E g : SumsUp(f, A, g)
<1> DEFINE B == {A \in SUBSET S : ~ \E g : SumsUp(f, A, g)}
<1>1. SUFFICES ASSUME B # {} PROVE FALSE
  OBVIOUS
<1>2. PICK T \in B : \A U \in B : U \subseteq T => U = T
  <2>1. B \in SUBSET SUBSET S
    OBVIOUS
  <2> HIDE DEF B
  <2> QED
    BY <1>1, <2>1, SmallestSubset
<1>3. T \in SUBSET S /\ ~ \E g : SumsUp(f, T, g)
  OBVIOUS
<1> DEFINE G(s) == CHOOSE g : SumsUp(f, s, g)
           h == [s \in SUBSET T |-> IF s = {} THEN 0
                                    ELSE f[Picked(s)] + G(s \ {Picked(s)})[s \ {Picked(s)}]]
<1>4. \A s \in SUBSET T : s # T => SumsUp(f, s, G(s))
  <2> SUFFICES ASSUME NEW s \in SUBSET T, s # T PROVE SumsUp(f, s, G(s))
    OBVIOUS
  <2>1. s \notin B /\ s \in SUBSET S
    BY <1>2, <1>3
  <2>2. \E g : SumsUp(f, s, g)
    BY <2>1
  <2> QED
    BY <2>2
<1> HIDE DEF B, G
<1>5. \A s \in SUBSET T : s # {} => Picked(s) \in s
  BY DEF Picked
<1>6. \A s \in SUBSET T : s # T => G(s)[s] = h[s]
  <2> SUFFICES ASSUME NEW s \in SUBSET T, s # T PROVE G(s)[s] = h[s]
    OBVIOUS
  <2>1. CASE s = {}
    BY <1>4, <2>1 DEF SumsUp
  <2>2. CASE s # {}
    <3> DEFINE r == s \ {Picked(s)}
    <3>1. r \in SUBSET s /\ r \in SUBSET T /\ r # T
      BY <1>5, <2>2
    <3>2. G(s)[s] = f[Picked(s)] + G(s)[r]
      BY <1>4, <2>2 DEF SumsUp
    <3>3. IsFiniteSet(s)
      BY <1>3, FS_Subset
    <3>4. G(s)[r] = G(r)[r]
      <4>1. SumsUp(f, s, G(s)) /\ SumsUp(f, r, G(r))
        BY <1>4, <3>1
      <4> HIDE DEF r
      <4> QED
        BY <3>1, <3>3, <4>1, SumsAgree
    <3> QED
      BY <2>2, <3>2, <3>4
  <2> QED
    BY <2>1, <2>2
<1>7. \A s \in SUBSET T : s # {} => G(s \ {Picked(s)})[s \ {Picked(s)}] = h[s \ {Picked(s)}]
  <2> SUFFICES ASSUME NEW s \in SUBSET T, s # {}
               PROVE  G(s \ {Picked(s)})[s \ {Picked(s)}] = h[s \ {Picked(s)}]
    OBVIOUS
  <2>1. s \ {Picked(s)} \in SUBSET T /\ s \ {Picked(s)} # T
    BY <1>5
  <2> HIDE DEF h
  <2> QED
    BY <1>6, <2>1
<1>8. h = [s \in SUBSET T |-> IF s = {} THEN 0 ELSE f[Picked(s)] + h[s \ {Picked(s)}]]
  <2> DEFINE k == [s \in SUBSET T |-> IF s = {} THEN 0 ELSE f[Picked(s)] + h[s \ {Picked(s)}]]
  <2>1. \A s \in SUBSET T : h[s] = k[s]
    BY <1>7
  <2> QED
    BY <2>1
<1>9. SumsUp(f, T, h)
  BY <1>8 DEF SumsUp
<1> QED
  BY <1>3, <1>9

-----------------------------------------------------------------------------
\* The sum over no elements.
LEMMA SumEmpty == ASSUME NEW f PROVE SumFunctionOnSet(f, {}) = 0
<1> DEFINE g == CHOOSE g : SumsUp(f, {}, g)
<1>1. \E k : SumsUp(f, {}, k)
  BY SumsExist, FS_EmptySet
<1>2. SumsUp(f, {}, g)
  BY <1>1
<1>3. g[{}] = 0
  <2> HIDE DEF g
  <2> QED
    BY <1>2 DEF SumsUp
<1> QED
  BY <1>3, SumDefinition

\* The sum over some elements: the picked one and the rest.
LEMMA SumPicked ==
  ASSUME NEW f, NEW S, IsFiniteSet(S), S # {}
  PROVE  SumFunctionOnSet(f, S) = f[Picked(S)] + SumFunctionOnSet(f, S \ {Picked(S)})
<1> DEFINE g == CHOOSE k : SumsUp(f, S, k)
           r == S \ {Picked(S)}
           h == CHOOSE k : SumsUp(f, r, k)
<1>1. r \in SUBSET S /\ S \in SUBSET S
  OBVIOUS
<1>2. (\E k : SumsUp(f, S, k)) /\ (\E k : SumsUp(f, r, k))
  <2> HIDE DEF r
  <2> QED
    BY <1>1, SumsExist
<1>3. SumsUp(f, S, g) /\ SumsUp(f, r, h)
  BY <1>2
<1>4. SumFunctionOnSet(f, S) = g[S] /\ SumFunctionOnSet(f, r) = h[r]
  <2>1. \A A : SumFunctionOnSet(f, A) = (CHOOSE k : SumsUp(f, A, k))[A]
    BY SumDefinition
  <2> QED
    BY <2>1
<1> HIDE DEF g, h
<1>5. g[S] = f[Picked(S)] + g[r]
  BY <1>3 DEF SumsUp
<1>6. g[r] = h[r]
  <2> HIDE DEF r
  <2> QED
    BY <1>1, <1>3, SumsAgree
<1> QED
  BY <1>4, <1>5, <1>6

\* Integers add up to an integer.
LEMMA SumInteger ==
  ASSUME NEW f, NEW S, IsFiniteSet(S), \A x \in S : f[x] \in Int
  PROVE  SumFunctionOnSet(f, S) \in Int
<1> DEFINE B == {s \in SUBSET S : SumFunctionOnSet(f, s) \notin Int}
<1>1. SUFFICES ASSUME B # {} PROVE FALSE
  OBVIOUS
<1>2. PICK T \in B : \A U \in B : U \subseteq T => U = T
  <2>1. B \in SUBSET SUBSET S
    OBVIOUS
  <2> HIDE DEF B
  <2> QED
    BY <1>1, <2>1, SmallestSubset
<1>3. T \subseteq S /\ SumFunctionOnSet(f, T) \notin Int
  OBVIOUS
<1>4. IsFiniteSet(T) /\ T # {}
  <2>1. SumFunctionOnSet(f, {}) \in Int
    BY SumEmpty
  <2> QED
    BY <1>3, <2>1, FS_Subset
<1>5. Picked(T) \in T
  BY <1>4 DEF Picked
<1>6. SumFunctionOnSet(f, T \ {Picked(T)}) \in Int
  BY <1>2, <1>3, <1>5
<1> QED
  BY <1>3, <1>4, <1>5, <1>6, SumPicked

\* Natural numbers add up to a natural number.
LEMMA SumNatural ==
  ASSUME NEW f, NEW S, IsFiniteSet(S), \A x \in S : f[x] \in Nat
  PROVE  SumFunctionOnSet(f, S) \in Nat
<1> DEFINE B == {s \in SUBSET S : SumFunctionOnSet(f, s) \notin Nat}
<1>1. SUFFICES ASSUME B # {} PROVE FALSE
  OBVIOUS
<1>2. PICK T \in B : \A U \in B : U \subseteq T => U = T
  <2>1. B \in SUBSET SUBSET S
    OBVIOUS
  <2> HIDE DEF B
  <2> QED
    BY <1>1, <2>1, SmallestSubset
<1>3. T \subseteq S /\ SumFunctionOnSet(f, T) \notin Nat
  OBVIOUS
<1>4. IsFiniteSet(T) /\ T # {}
  <2>1. SumFunctionOnSet(f, {}) \in Nat
    BY SumEmpty
  <2> QED
    BY <1>3, <2>1, FS_Subset
<1>5. Picked(T) \in T
  BY <1>4 DEF Picked
<1>6. SumFunctionOnSet(f, T \ {Picked(T)}) \in Nat
  BY <1>2, <1>3, <1>5
<1> QED
  BY <1>3, <1>4, <1>5, <1>6, SumPicked

\* Any element may be taken first.
LEMMA SumRemove ==
  ASSUME NEW f, NEW S, IsFiniteSet(S), \A y \in S : f[y] \in Int, NEW x \in S
  PROVE  SumFunctionOnSet(f, S) = f[x] + SumFunctionOnSet(f, S \ {x})
<1> DEFINE B == {s \in SUBSET S :
                   \E y \in s : SumFunctionOnSet(f, s) # f[y] + SumFunctionOnSet(f, s \ {y})}
<1>1. SUFFICES ASSUME B # {} PROVE FALSE
  OBVIOUS
<1>2. PICK T \in B : \A U \in B : U \subseteq T => U = T
  <2>1. B \in SUBSET SUBSET S
    OBVIOUS
  <2> HIDE DEF B
  <2> QED
    BY <1>1, <2>1, SmallestSubset
<1>3. T \subseteq S
  OBVIOUS
<1>4. PICK y \in T : SumFunctionOnSet(f, T) # f[y] + SumFunctionOnSet(f, T \ {y})
  OBVIOUS
<1> DEFINE c == Picked(T)
<1>5. \A U \in SUBSET T : IsFiniteSet(U)
  BY <1>3, FS_Subset
<1>6. SumFunctionOnSet(f, T) = f[c] + SumFunctionOnSet(f, T \ {c}) /\ c \in T
  BY <1>4, <1>5, SumPicked DEF Picked
<1>7. c # y
  BY <1>4, <1>6
<1>8. SumFunctionOnSet(f, T \ {c}) = f[y] + SumFunctionOnSet(f, T \ {c, y})
  <2>1. T \ {c} \notin B /\ y \in T \ {c} /\ (T \ {c}) \ {y} = T \ {c, y}
    BY <1>2, <1>6, <1>7
  <2> QED
    BY <1>3, <2>1
<1>9. SumFunctionOnSet(f, T \ {y}) = f[c] + SumFunctionOnSet(f, T \ {c, y})
  <2>1. T \ {y} \notin B /\ c \in T \ {y} /\ (T \ {y}) \ {c} = T \ {c, y}
    BY <1>2, <1>4, <1>6, <1>7
  <2> QED
    BY <1>3, <2>1
<1>10. SumFunctionOnSet(f, T \ {c, y}) \in Int /\ f[c] \in Int /\ f[y] \in Int
  BY <1>3, <1>5, <1>6, SumInteger
<1> QED
  BY <1>4, <1>6, <1>8, <1>9, <1>10

\* The sum depends on the elements only.
LEMMA SumSame ==
  ASSUME NEW f, NEW h, NEW S, IsFiniteSet(S), \A x \in S : f[x] = h[x]
  PROVE  SumFunctionOnSet(f, S) = SumFunctionOnSet(h, S)
<1> DEFINE B == {s \in SUBSET S : SumFunctionOnSet(f, s) # SumFunctionOnSet(h, s)}
<1>1. SUFFICES ASSUME B # {} PROVE FALSE
  OBVIOUS
<1>2. PICK T \in B : \A U \in B : U \subseteq T => U = T
  <2>1. B \in SUBSET SUBSET S
    OBVIOUS
  <2> HIDE DEF B
  <2> QED
    BY <1>1, <2>1, SmallestSubset
<1>3. T \subseteq S /\ SumFunctionOnSet(f, T) # SumFunctionOnSet(h, T)
  OBVIOUS
<1>4. IsFiniteSet(T) /\ T # {}
  BY <1>3, FS_Subset, SumEmpty
<1>5. Picked(T) \in T
  BY <1>4 DEF Picked
<1>6. SumFunctionOnSet(f, T \ {Picked(T)}) = SumFunctionOnSet(h, T \ {Picked(T)})
  BY <1>2, <1>3, <1>5
<1> QED
  BY <1>3, <1>4, <1>5, <1>6, SumPicked

\* Two sets without a common element add up.
LEMMA SumUnion ==
  ASSUME NEW f, NEW A, IsFiniteSet(A), NEW S, IsFiniteSet(S), A \cap S = {},
         \A x \in A \cup S : f[x] \in Int
  PROVE  SumFunctionOnSet(f, A \cup S) = SumFunctionOnSet(f, A) + SumFunctionOnSet(f, S)
<1> DEFINE B == {s \in SUBSET S : SumFunctionOnSet(f, A \cup s)
                                    # SumFunctionOnSet(f, A) + SumFunctionOnSet(f, s)}
<1>1. SUFFICES ASSUME B # {} PROVE FALSE
  OBVIOUS
<1>2. PICK T \in B : \A U \in B : U \subseteq T => U = T
  <2>1. B \in SUBSET SUBSET S
    OBVIOUS
  <2> HIDE DEF B
  <2> QED
    BY <1>1, <2>1, SmallestSubset
<1>3. /\ T \subseteq S /\ SumFunctionOnSet(f, A \cup T)
                            # SumFunctionOnSet(f, A) + SumFunctionOnSet(f, T)
  OBVIOUS
<1>4. IsFiniteSet(T) /\ IsFiniteSet(A \cup T) /\ SumFunctionOnSet(f, A) \in Int
  BY <1>3, FS_Subset, FS_Union, SumInteger
<1>5. T # {}
  <2>1. SumFunctionOnSet(f, {}) = 0 /\ A \cup {} = A
    BY SumEmpty
  <2>2. SumFunctionOnSet(f, A \cup {}) = SumFunctionOnSet(f, A) + SumFunctionOnSet(f, {})
    BY <1>4, <2>1
  <2> HIDE DEF B
  <2> QED
    BY <1>3, <2>2
<1>6. PICK x \in T : TRUE
  BY <1>5
<1> DEFINE U == T \ {x}
<1>7. SumFunctionOnSet(f, A \cup U) = SumFunctionOnSet(f, A) + SumFunctionOnSet(f, U)
  <2>1. U \notin B /\ U \in SUBSET S
    BY <1>2, <1>3, <1>6
  <2> QED
    BY <2>1
<1>8. SumFunctionOnSet(f, T) = f[x] + SumFunctionOnSet(f, U)
  BY <1>3, <1>4, <1>6, SumRemove
<1>9. SumFunctionOnSet(f, A \cup T) = f[x] + SumFunctionOnSet(f, A \cup U)
  <2>1. A \cup U = (A \cup T) \ {x} /\ x \in A \cup T
    BY <1>3, <1>6
  <2>2. \A y \in A \cup T : f[y] \in Int
    BY <1>3
  <2> HIDE DEF U
  <2> QED
    BY <1>4, <2>1, <2>2, SumRemove
<1>10. SumFunctionOnSet(f, U) \in Int /\ f[x] \in Int
  BY <1>3, <1>4, <1>6, FS_Subset, SumInteger
<1> HIDE DEF U, B
<1> QED
  BY <1>3, <1>4, <1>7, <1>8, <1>9, <1>10

\* Larger numbers have the larger sum.
LEMMA SumMonotone ==
  ASSUME NEW f, NEW h, NEW S, IsFiniteSet(S),
         \A x \in S : f[x] \in Int /\ h[x] \in Int /\ f[x] <= h[x]
  PROVE  SumFunctionOnSet(f, S) <= SumFunctionOnSet(h, S)
<1> DEFINE B == {s \in SUBSET S : ~(SumFunctionOnSet(f, s) <= SumFunctionOnSet(h, s))}
<1>1. SUFFICES ASSUME B # {} PROVE FALSE
  OBVIOUS
<1>2. PICK T \in B : \A U \in B : U \subseteq T => U = T
  <2>1. B \in SUBSET SUBSET S
    OBVIOUS
  <2> HIDE DEF B
  <2> QED
    BY <1>1, <2>1, SmallestSubset
<1>3. T \subseteq S /\ ~(SumFunctionOnSet(f, T) <= SumFunctionOnSet(h, T))
  OBVIOUS
<1>4. IsFiniteSet(T) /\ T # {}
  <2>1. SumFunctionOnSet(f, {}) = 0 /\ SumFunctionOnSet(h, {}) = 0
    BY SumEmpty
  <2>2. T # {}
    BY <1>3, <2>1
  <2> QED
    BY <1>3, <2>2, FS_Subset
<1> DEFINE x == Picked(T)
           U == T \ {x}
<1>5. x \in T
  BY <1>4 DEF Picked
<1>6. SumFunctionOnSet(f, U) <= SumFunctionOnSet(h, U)
  BY <1>2, <1>3, <1>5
<1>7. /\ SumFunctionOnSet(f, T) = f[x] + SumFunctionOnSet(f, U)
      /\ SumFunctionOnSet(h, T) = h[x] + SumFunctionOnSet(h, U)
  BY <1>4, SumPicked
<1>8. SumFunctionOnSet(f, U) \in Int /\ SumFunctionOnSet(h, U) \in Int
  BY <1>3, <1>4, FS_Subset, SumInteger
<1>9. f[x] \in Int /\ h[x] \in Int /\ f[x] <= h[x]
  BY <1>3, <1>5
<1> HIDE DEF x, U, B
<1> QED
  BY <1>3, <1>6, <1>7, <1>8, <1>9

\* Numbers up to c add up to at most c for each that is not zero.
LEMMA SumBound ==
  ASSUME NEW f, NEW S, IsFiniteSet(S), NEW c \in Nat,
         \A x \in S : f[x] \in Nat /\ f[x] <= c
  PROVE  SumFunctionOnSet(f, S) <= c * Cardinality({x \in S : f[x] # 0})
<1> DEFINE N(s) == {x \in s : f[x] # 0}
           B == {s \in SUBSET S : ~(SumFunctionOnSet(f, s) <= c * Cardinality(N(s)))}
<1>1. SUFFICES ASSUME B # {} PROVE FALSE
  OBVIOUS
<1>2. PICK T \in B : \A U \in B : U \subseteq T => U = T
  <2>1. B \in SUBSET SUBSET S
    OBVIOUS
  <2> HIDE DEF B
  <2> QED
    BY <1>1, <2>1, SmallestSubset
<1>3. T \subseteq S /\ ~(SumFunctionOnSet(f, T) <= c * Cardinality(N(T)))
  OBVIOUS
<1>4. IsFiniteSet(T) /\ T # {}
  <2>1. SumFunctionOnSet(f, {}) = 0 /\ N({}) = {}
    BY SumEmpty
  <2>2. Cardinality({}) = 0 /\ c * 0 = 0
    BY FS_EmptySet
  <2>3. T # {}
    <3> HIDE DEF N
    <3> QED
      BY <1>3, <2>1, <2>2
  <2> QED
    BY <1>3, <2>3, FS_Subset
<1> DEFINE x == Picked(T)
           U == T \ {x}
<1>5. x \in T
  BY <1>4 DEF Picked
<1>6. SumFunctionOnSet(f, U) <= c * Cardinality(N(U))
  <2>1. U \notin B /\ U \in SUBSET S
    BY <1>2, <1>3, <1>5
  <2> QED
    BY <2>1
<1>7. SumFunctionOnSet(f, T) = f[x] + SumFunctionOnSet(f, U)
  BY <1>4, SumPicked
<1>8. SumFunctionOnSet(f, U) \in Int /\ f[x] \in Nat /\ f[x] <= c
  BY <1>3, <1>4, <1>5, FS_Subset, SumInteger
<1>9. IsFiniteSet(N(U)) /\ Cardinality(N(U)) \in Nat
  BY <1>4, FS_Subset, FS_CardinalityType
<1>10. CASE f[x] = 0
  <2>1. N(T) = N(U)
    BY <1>10
  <2> HIDE DEF x, U, B, N
  <2> QED
    BY <1>3, <1>6, <1>7, <1>8, <1>10, <2>1
<1>11. CASE f[x] # 0
  <2>1. N(T) = N(U) \cup {x} /\ x \notin N(U)
    BY <1>5, <1>11
  <2>2. Cardinality(N(T)) = Cardinality(N(U)) + 1
    BY <1>9, <2>1, FS_AddElement
  <2> DEFINE n == Cardinality(N(U))
  <2>3. c * (n + 1) = c * n + c /\ c * n \in Int
    BY <1>9
  <2> HIDE DEF x, U, B, N
  <2> QED
    BY <1>3, <1>6, <1>7, <1>8, <2>2, <2>3
<1> QED
  BY <1>10, <1>11
=============================================================================
