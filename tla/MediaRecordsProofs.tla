------------------------- MODULE MediaRecordsProofs -------------------------
(***************************************************************************)
(* Proofs about MediaRecords and WebPages: no refresh loses or doubles a   *)
(* video, a folder has one spelling and keeps it, works have folders of    *)
(* their own if their names tell them apart, labels give every version a   *)
(* path of its own, a subtitle lies beside a video of its item, the tree   *)
(* shows every record, and the web pages show the torrents and the mount.  *)
(*                                                                         *)
(* The model works with sequences of anything: sorted, selected from,      *)
(* folded over and joined.  The first parts say what these operators keep; *)
(* then come the invariant, the casing, the loops, the steps, the theorems *)
(* about records, the labels, the tree and the pages.  That a claim fails  *)
(* first at a least number or at a smallest set takes the place of         *)
(* induction.                                                              *)
(***************************************************************************)
EXTENDS WebPages, Sums

(* Sequences *)

\* What the prover knows of sequences, for those of no given set.
LEMMA SeqDomain ==
  ASSUME NEW s, IsSequence(s)
  PROVE  /\ Len(s) \in Nat /\ DOMAIN s = 1 .. Len(s)
         /\ s = [i \in 1 .. Len(s) |-> s[i]]
  BY DEF IsSequence

LEMMA SeqMade ==
  ASSUME NEW s, NEW n \in Nat, s = [i \in 1 .. n |-> s[i]]
  PROVE  IsSequence(s) /\ Len(s) = n /\ DOMAIN s = 1 .. n
<1>1. s \in [1 .. n -> ToSet(s)]
  BY DEF ToSet
<1> QED
  BY <1>1 DEF IsSequence

\* Whatever is a sequence over a set is a sequence.
LEMMA SeqTyped == ASSUME NEW S, NEW s \in Seq(S) PROVE IsSequence(s)
<1>1. Len(s) \in Nat /\ s = [i \in 1 .. Len(s) |-> s[i]]
  OBVIOUS
<1> QED
  BY <1>1, SeqMade

\* A sequence whose elements are in W.
LEMMA TextOf == ASSUME NEW s, IsSequence(s), NEW W, ToSet(s) \subseteq W PROVE s \in Seq(W)
<1>1. Len(s) \in Nat /\ s = [i \in 1 .. Len(s) |-> s[i]]
  BY SeqDomain
<1>2. \A i \in 1 .. Len(s) : s[i] \in W
  BY SeqDomain DEF ToSet
<1>3. s \in [1 .. Len(s) -> W]
  BY <1>1, <1>2
<1> QED
  BY <1>1, <1>3

LEMMA WordsOf == ASSUME NEW W, NEW s \in Seq(W) PROVE ToSet(s) \subseteq W
  BY DEF ToSet

LEMMA SeqAppend ==
  ASSUME NEW s, IsSequence(s), NEW e
  PROVE  /\ IsSequence(Append(s, e)) /\ Len(Append(s, e)) = Len(s) + 1
         /\ DOMAIN Append(s, e) = 1 .. Len(s) + 1
         /\ \A i \in 1 .. Len(s) : Append(s, e)[i] = s[i]
         /\ Append(s, e)[Len(s) + 1] = e
<1>1. s \in Seq(ToSet(s) \cup {e})
  <2>1. Len(s) \in Nat /\ s \in [1 .. Len(s) -> ToSet(s) \cup {e}]
    BY SeqDomain DEF ToSet
  <2> QED
    BY <2>1
<1>2. Append(s, e) \in Seq(ToSet(s) \cup {e})
  BY <1>1
<1>3. Len(s) \in Nat /\ Len(Append(s, e)) = Len(s) + 1 /\ DOMAIN Append(s, e) = 1 .. Len(s) + 1
  BY <1>1, <1>2
<1>4. /\ \A i \in 1 .. Len(s) : Append(s, e)[i] = s[i]
      /\ Append(s, e)[Len(s) + 1] = e
  BY <1>1
<1> QED
  BY <1>2, <1>3, <1>4, SeqTyped

LEMMA SeqTail ==
  ASSUME NEW s, IsSequence(s), s # <<>>
  PROVE  /\ IsSequence(Tail(s)) /\ Len(s) \in Nat \ {0} /\ Head(s) = s[1]
         /\ DOMAIN Tail(s) = 1 .. Len(s) - 1
         /\ \A i \in 1 .. Len(s) - 1 : Tail(s)[i] = s[i + 1]
<1>1. Len(s) \in Nat /\ Len(s) # 0
  BY DEF IsSequence
<1>2. Tail(s) \in Seq(ToSet(s)) /\ Len(Tail(s)) = Len(s) - 1 /\ Head(s) = s[1]
  BY <1>1 DEF IsSequence
<1>3. \A i \in 1 .. Len(s) - 1 : Tail(s)[i] = s[i + 1]
  BY <1>1 DEF IsSequence
<1>4. IsSequence(Tail(s))
  BY <1>2, SeqTyped
<1>5. DOMAIN Tail(s) = 1 .. Len(s) - 1
  BY <1>2, <1>4, SeqDomain
<1> QED
  BY <1>1, <1>2, <1>3, <1>4, <1>5

LEMMA SeqConcat ==
  ASSUME NEW s, IsSequence(s), NEW t, IsSequence(t)
  PROVE  /\ IsSequence(s \o t) /\ Len(s \o t) = Len(s) + Len(t)
         /\ DOMAIN (s \o t) = 1 .. Len(s) + Len(t)
         /\ \A i \in 1 .. Len(s) : (s \o t)[i] = s[i]
         /\ \A i \in 1 .. Len(t) : (s \o t)[Len(s) + i] = t[i]
<1> DEFINE S == ToSet(s) \cup ToSet(t)
<1>1. s \in Seq(S) /\ t \in Seq(S)
  <2>1. Len(s) \in Nat /\ s \in [1 .. Len(s) -> S]
    BY SeqDomain DEF ToSet
  <2>2. Len(t) \in Nat /\ t \in [1 .. Len(t) -> S]
    BY SeqDomain DEF ToSet
  <2> QED
    BY <2>1, <2>2
<1> HIDE DEF S
<1>2. s \o t \in Seq(S) /\ Len(s \o t) = Len(s) + Len(t)
  BY <1>1
<1>3. Len(s) \in Nat /\ Len(t) \in Nat
  BY <1>1
<1>4. /\ \A i \in 1 .. Len(s) : (s \o t)[i] = s[i]
      /\ \A i \in 1 .. Len(t) : (s \o t)[Len(s) + i] = t[i]
  BY <1>1, <1>3
<1>5. IsSequence(s \o t)
  BY <1>2, SeqTyped
<1>6. DOMAIN (s \o t) = 1 .. Len(s) + Len(t)
  BY <1>2, <1>5, SeqDomain
<1> QED
  BY <1>2, <1>4, <1>5, <1>6

-----------------------------------------------------------------------------
(* InOrder, Selected and Sorted *)

\* Sorting gives every index one place.
LEMMA Ordering ==
  ASSUME NEW I, IsFiniteSet(I), I \subseteq Int, NEW key, \A i \in I : key[i] \in Int
  PROVE  LET r == InOrder(I, key) IN
         /\ IsSequence(r) /\ DOMAIN r = 1 .. Cardinality(I) /\ Cardinality(I) \in Nat
         /\ \A n \in DOMAIN r : r[n] \in I
         /\ \A m, n \in DOMAIN r : r[m] = r[n] => m = n
         /\ \A i \in I : \E n \in DOMAIN r : r[n] = i
         /\ \A m, n \in DOMAIN r : m < n => key[r[m]] <= key[r[n]]
<1> DEFINE before(j, i) == key[j] < key[i] \/ (key[j] = key[i] /\ j <= i)
           upTo(i) == {j \in I : before(j, i)}
           N == Cardinality(I)
           place == [i \in I |-> Cardinality(upTo(i))]
           r == InOrder(I, key)
<1>1. N \in Nat
  BY FS_CardinalityType
<1>2. \A i \in I : IsFiniteSet(upTo(i)) /\ Cardinality(upTo(i)) \in 1 .. N
  <2> SUFFICES ASSUME NEW i \in I
               PROVE  IsFiniteSet(upTo(i)) /\ Cardinality(upTo(i)) \in 1 .. N
    OBVIOUS
  <2>1. upTo(i) \in SUBSET I /\ i \in upTo(i)
    OBVIOUS
  <2> HIDE DEF upTo
  <2>2. IsFiniteSet(upTo(i)) /\ Cardinality(upTo(i)) <= N
    BY <2>1, FS_Subset
  <2>3. Cardinality(upTo(i)) \in Nat /\ Cardinality(upTo(i)) # 0
    BY <2>1, <2>2, FS_CardinalityType, FS_EmptySet
  <2> QED
    BY <1>1, <2>2, <2>3
<1>3. \A i, j \in I : i # j /\ before(i, j) => Cardinality(upTo(i)) < Cardinality(upTo(j))
  <2> SUFFICES ASSUME NEW i \in I, NEW j \in I, i # j, before(i, j)
               PROVE  Cardinality(upTo(i)) < Cardinality(upTo(j))
    OBVIOUS
  <2>1. upTo(i) \in SUBSET upTo(j)
    <3> SUFFICES ASSUME NEW k \in upTo(i) PROVE before(k, j)
      OBVIOUS
    <3>1. /\ key[k] \in Int /\ key[i] \in Int /\ key[j] \in Int
          /\ k \in Int /\ i \in Int /\ j \in Int
      OBVIOUS
    <3>2. before(k, i)
      OBVIOUS
    <3> QED
      BY <3>1, <3>2
  <2>2. j \in upTo(j) /\ j \notin upTo(i)
    <3>1. /\ key[i] \in Int /\ key[j] \in Int /\ i \in Int /\ j \in Int
      OBVIOUS
    <3> QED
      BY <3>1
  <2>3. upTo(i) # upTo(j)
    BY <2>2
  <2> HIDE DEF upTo
  <2>4. /\ Cardinality(upTo(i)) <= Cardinality(upTo(j))
        /\ Cardinality(upTo(i)) # Cardinality(upTo(j))
    BY <1>2, <2>1, <2>3, FS_Subset
  <2>5. Cardinality(upTo(i)) \in 1 .. N /\ Cardinality(upTo(j)) \in 1 .. N
    BY <1>2
  <2> QED
    BY <1>1, <2>4, <2>5
<1>4. \A i, j \in I : i # j => before(i, j) \/ before(j, i)
  <2> SUFFICES ASSUME NEW i \in I, NEW j \in I, i # j PROVE before(i, j) \/ before(j, i)
    OBVIOUS
  <2>1. key[i] \in Int /\ key[j] \in Int /\ i \in Int /\ j \in Int
    OBVIOUS
  <2> QED
    BY <2>1
<1>13. \A i, j \in I : before(i, j) => key[i] <= key[j]
  <2> SUFFICES ASSUME NEW i \in I, NEW j \in I, before(i, j) PROVE key[i] <= key[j]
    OBVIOUS
  <2>1. key[i] \in Int /\ key[j] \in Int
    OBVIOUS
  <2> QED
    BY <2>1
<1> HIDE DEF upTo, before
<1>5. \A i, j \in I : Cardinality(upTo(i)) = Cardinality(upTo(j)) => i = j
  <2> SUFFICES ASSUME NEW i \in I, NEW j \in I, i # j
               PROVE  Cardinality(upTo(i)) # Cardinality(upTo(j))
    OBVIOUS
  <2>1. Cardinality(upTo(i)) \in 1 .. N /\ Cardinality(upTo(j)) \in 1 .. N
    BY <1>2
  <2>2. \/ Cardinality(upTo(i)) < Cardinality(upTo(j))
        \/ Cardinality(upTo(j)) < Cardinality(upTo(i))
    BY <1>3, <1>4
  <2> HIDE DEF N
  <2> QED
    BY <1>1, <2>1, <2>2
<1>6. \A n \in 1 .. N : \E i \in I : Cardinality(upTo(i)) = n
  <2>1. place \in Injection(I, 1 .. N)
    BY <1>2, <1>5 DEF Injection, IsInjective
  <2>2. IsFiniteSet(1 .. N) /\ Cardinality(1 .. N) = N
    BY <1>1, FS_Interval
  <2>3. place \in Surjection(I, 1 .. N)
    <3> HIDE DEF place
    <3> QED
      BY <2>1, <2>2, FS_Injection
  <2> QED
    BY <2>3 DEF Surjection
<1>7. r = [n \in 1 .. N |-> CHOOSE i \in I : Cardinality(upTo(i)) = n]
  BY DEF InOrder, upTo, before
<1>8. \A n \in 1 .. N : r[n] \in I /\ Cardinality(upTo(r[n])) = n
  BY <1>6, <1>7
<1>9. DOMAIN r = 1 .. N /\ r = [n \in 1 .. N |-> r[n]]
  BY <1>7
<1>10. \A i \in I : \E n \in 1 .. N : r[n] = i
  <2> SUFFICES ASSUME NEW i \in I PROVE \E n \in 1 .. N : r[n] = i
    OBVIOUS
  <2>1. Cardinality(upTo(i)) \in 1 .. N
    BY <1>2
  <2>2. r[Cardinality(upTo(i))] = i
    BY <1>5, <1>8, <2>1
  <2> QED
    BY <2>1, <2>2
<1> HIDE DEF r, N
<1>11. IsSequence(r)
  BY <1>1, <1>9, SeqMade
<1>12. \A m, n \in 1 .. N : r[m] = r[n] => m = n
  BY <1>8
<1>14. ASSUME NEW m \in 1 .. N, NEW n \in 1 .. N, m < n PROVE key[r[m]] <= key[r[n]]
  <2>1. r[m] # r[n] /\ r[m] \in I /\ r[n] \in I
    BY <1>8, <1>12, <1>14
  <2>2. ~(Cardinality(upTo(r[n])) < Cardinality(upTo(r[m])))
    BY <1>1, <1>8, <1>14
  <2>3. ~before(r[n], r[m])
    BY <1>3, <2>1, <2>2
  <2> QED
    BY <1>4, <1>13, <2>1, <2>3
<1> QED
  BY <1>1, <1>8, <1>9, <1>10, <1>11, <1>12, <1>14 DEF r, N

\* The places of a sequence can be put in an order.
LEMMA SeqFinite == ASSUME NEW s, IsSequence(s) PROVE IsFiniteSet(DOMAIN s) /\ DOMAIN s \subseteq Int
<1>1. Len(s) \in Nat /\ DOMAIN s = 1 .. Len(s)
  BY SeqDomain
<1> QED
  BY <1>1, FS_Interval

\* What is picked out of a sequence is what is at the indices, in one place each.
LEMMA Selection ==
  ASSUME NEW s, IsSequence(s), NEW I \in SUBSET DOMAIN s
  PROVE  LET r == Selected(s, I) IN
         /\ IsSequence(r)
         /\ \A n \in DOMAIN r : \E i \in I : r[n] = s[i]
         /\ \A i \in I : \E n \in DOMAIN r : r[n] = s[i]
         /\ (\A i, j \in I : s[i] = s[j] => i = j)
              => \A m, n \in DOMAIN r : r[m] = r[n] => m = n
<1> DEFINE place == [i \in I |-> i]
           order == InOrder(I, place)
           r == Selected(s, I)
<1>1. IsFiniteSet(I) /\ I \subseteq Int
  BY SeqFinite, FS_Subset
<1>2. \A i \in I : place[i] \in Int
  BY <1>1
<1>3. r = [n \in DOMAIN order |-> s[order[n]]]
  BY DEF Selected
<1> HIDE DEF place
<1>4. /\ IsSequence(order) /\ DOMAIN order = 1 .. Cardinality(I) /\ Cardinality(I) \in Nat
      /\ \A n \in DOMAIN order : order[n] \in I
      /\ \A m, n \in DOMAIN order : order[m] = order[n] => m = n
      /\ \A i \in I : \E n \in DOMAIN order : order[n] = i
  BY <1>1, <1>2, Ordering
<1> HIDE DEF order, r
<1>5. IsSequence(r)
  <2>1. r = [n \in 1 .. Cardinality(I) |-> r[n]]
    BY <1>3, <1>4
  <2> QED
    BY <1>4, <2>1, SeqMade
<1>6. DOMAIN r = DOMAIN order /\ \A n \in DOMAIN order : r[n] = s[order[n]]
  BY <1>3
<1>7. \A n \in DOMAIN r : \E i \in I : r[n] = s[i]
  BY <1>4, <1>6
<1>8. \A i \in I : \E n \in DOMAIN r : r[n] = s[i]
  BY <1>4, <1>6
<1>9. ASSUME \A i, j \in I : s[i] = s[j] => i = j, NEW m \in DOMAIN r, NEW n \in DOMAIN r, r[m] = r[n]
      PROVE  m = n
  BY <1>4, <1>6, <1>9
<1> QED
  BY <1>5, <1>7, <1>8, <1>9 DEF r

\* The records sorted are the records, in one place each.
LEMMA Sorting ==
  ASSUME NEW s, IsSequence(s), \A i \in DOMAIN s : s[i].key \in Int
  PROVE  LET r == Sorted(s) IN
         /\ IsSequence(r) /\ ToSet(r) = ToSet(s)
         /\ (\A i, j \in DOMAIN s : s[i].key = s[j].key => i = j)
              => \A m, n \in DOMAIN r : r[m].key = r[n].key => m = n
         /\ \A m, n \in DOMAIN r : m < n => r[m].key <= r[n].key
<1> DEFINE place == [i \in DOMAIN s |-> s[i].key]
           order == InOrder(DOMAIN s, place)
           r == Sorted(s)
<1>1. r = [n \in DOMAIN order |-> s[order[n]]]
  BY DEF Sorted, ByKey
<1>2. \A i \in DOMAIN s : place[i] \in Int /\ place[i] = s[i].key
  OBVIOUS
<1> HIDE DEF place
<1>3. /\ IsSequence(order) /\ DOMAIN order = 1 .. Cardinality(DOMAIN s)
      /\ Cardinality(DOMAIN s) \in Nat
      /\ \A n \in DOMAIN order : order[n] \in DOMAIN s
      /\ \A m, n \in DOMAIN order : order[m] = order[n] => m = n
      /\ \A i \in DOMAIN s : \E n \in DOMAIN order : order[n] = i
      /\ \A m, n \in DOMAIN order : m < n => place[order[m]] <= place[order[n]]
  BY <1>2, SeqFinite, Ordering
<1> HIDE DEF order, r
<1>4. IsSequence(r)
  <2>1. r = [n \in 1 .. Cardinality(DOMAIN s) |-> r[n]]
    BY <1>1, <1>3
  <2> QED
    BY <1>3, <2>1, SeqMade
<1>5. DOMAIN r = DOMAIN order /\ \A n \in DOMAIN order : r[n] = s[order[n]]
  BY <1>1
<1>6. ToSet(r) = ToSet(s)
  BY <1>3, <1>5 DEF ToSet
<1>7. ASSUME \A i, j \in DOMAIN s : s[i].key = s[j].key => i = j,
             NEW m \in DOMAIN r, NEW n \in DOMAIN r, r[m].key = r[n].key
      PROVE  m = n
  BY <1>3, <1>5, <1>7
<1>8. \A m, n \in DOMAIN r : m < n => r[m].key <= r[n].key
  BY <1>2, <1>3, <1>5
<1> QED
  BY <1>4, <1>6, <1>7, <1>8 DEF r

-----------------------------------------------------------------------------
(* Least numbers *)

\* Some numbers have a least.
Less == {p \in Nat \X Nat : p[1] < p[2]}

\* The well-ordering of the naturals, with the operators of FiniteSetsExt.
LEMMA Least == ASSUME NEW s \in SUBSET Nat, s # {} PROVE \E x \in s : \A y \in s : x <= y
<1>1. IsWellFoundedOn(Less, Nat)
  BY NatLessThanWellFounded DEF OpToRel, Less
<1>2. PICK x \in s : \A y \in s : ~(<<y, x>> \in Less)
  BY <1>1, WFMin
<1>3. \A y \in s : ~(y < x)
  BY <1>2 DEF Less
<1>4. \A y \in s : x <= y
  BY <1>3
<1> QED
  BY <1>4

LEMMA MinIn == ASSUME NEW s \in SUBSET Nat, s # {} PROVE Min(s) \in s
  BY Least DEF Min

LEMMA MaxIn == ASSUME NEW n \in Nat, NEW s \in SUBSET (1 .. n), s # {} PROVE Max(s) \in s
<1> DEFINE D == {n - x : x \in s}
<1>1. D \in SUBSET Nat /\ D # {}
  <2>1. \A x \in s : n - x \in Nat
    OBVIOUS
  <2> QED
    BY <2>1
<1>2. PICK d \in D : \A e \in D : d <= e
  <2> HIDE DEF D
  <2> QED
    BY <1>1, Least
<1>3. PICK x \in s : d = n - x
  BY <1>2
<1>4. \A y \in s : x >= y
  <2> SUFFICES ASSUME NEW y \in s PROVE x >= y
    OBVIOUS
  <2>1. n - y \in D /\ x \in 1 .. n /\ y \in 1 .. n
    OBVIOUS
  <2>2. n - x <= n - y
    BY <1>2, <1>3, <2>1
  <2> HIDE DEF D
  <2> QED
    BY <2>1, <2>2
<1>5. \E z \in s : \A y \in s : z >= y
  BY <1>4
<1> QED
  BY <1>5 DEF Max

LastIn(S) == \A s \in SUBSET S : s # {} => Max(s) \in s

\* The least of the places found, if any is.
LEMMA Chosen ==
  ASSUME NEW n \in Nat, NEW I \in SUBSET (1 .. n), NEW k, k = IF I # {} THEN Min(I) ELSE 0
  PROVE  k = 0 \/ k \in 1 .. n
<1>1. CASE I = {}
  BY <1>1
<1>2. CASE I # {}
  <2>1. I \in SUBSET Nat
    OBVIOUS
  <2>2. Min(I) \in I
    BY <1>2, <2>1, MinIn
  <2> QED
    BY <1>2, <2>2
<1> QED
  BY <1>1, <1>2

-----------------------------------------------------------------------------
(* Names are sequences *)

\* The ends of the names that Classify puts together.
LEMMA EmptySequence == IsSequence(<<>>)
<1>1. <<>> \in Seq({})
  OBVIOUS
<1> QED
  BY <1>1, SeqTyped

LEMMA OneWord == ASSUME NEW e PROVE IsSequence(<<e>>)
<1>1. <<e>> \in Seq({e})
  OBVIOUS
<1> QED
  BY <1>1, SeqTyped

\* What a parser cuts out of a name.
LEMMA Part ==
  ASSUME NEW s, IsSequence(s), NEW m \in Nat \ {0}, NEW n \in Int, n <= Len(s)
  PROVE  IsSequence(SubSeq(s, m, n))
<1>1. s \in Seq(ToSet(s))
  BY DEF IsSequence
<1> DEFINE S == ToSet(s)
<1> HIDE DEF S
<1>2. Len(s) \in Nat /\ s \in Seq(S)
  BY <1>1 DEF S
<1>3. SubSeq(s, m, n) \in Seq(S)
  <2>1. \A i \in 1 .. Len(s) : s[i] \in S
    BY <1>2
  <2> QED
    BY <1>2, <2>1
<1> QED
  BY <1>3, SeqTyped

\* The tokens a title is made of (torrent_name.go).
LEMMA TextsAreSequences ==
  ASSUME NEW s, IsSequence(s)
  PROVE  IsSequence(Texts(s))
<1>1. Len(s) \in Nat /\ DOMAIN s = 1 .. Len(s)
  BY SeqDomain
<1>2. Texts(s) = [i \in 1 .. Len(s) |-> Texts(s)[i]]
  BY <1>1 DEF Texts
<1> QED
  BY <1>1, <1>2, SeqMade

\* The first run of tokens that is no noise, and the title guessed from it.
LEMMA UnmatchedTitle ==
  ASSUME NEW s, IsSequence(s)
  PROVE  IsSequence(FirstUnmatchedTitle(s))
<1> DEFINE plain == {i \in DOMAIN s : ~Marked(s, i) /\ s[i].kind # "dash"}
           run == {j \in plain : \A k \in Min(plain) .. j : ~Marked(s, k)}
<1>1. Len(s) \in Nat /\ DOMAIN s = 1 .. Len(s)
  BY SeqDomain
<1>2. FirstUnmatchedTitle(s) = IF plain = {} THEN <<>> ELSE Texts(SubSeq(s, Min(plain), Max(run)))
  BY DEF FirstUnmatchedTitle, NoText
<1>3. CASE plain = {}
  BY <1>2, <1>3, EmptySequence
<1>4. CASE plain # {}
  <2>1. plain \in SUBSET (1 .. Len(s)) /\ plain \in SUBSET Nat
    BY <1>1
  <2>2. Min(plain) \in plain
    BY <1>4, <2>1, MinIn
  <2>3. ~Marked(s, Min(plain))
    BY <2>2
  <2>4. run \in SUBSET (1 .. Len(s)) /\ Min(plain) \in run
    <3> DEFINE m == Min(plain)
    <3>1. m \in 1 .. Len(s)
      BY <2>1, <2>2
    <3> HIDE DEF m
    <3>2. \A k \in m .. m : k = m
      BY <1>1, <3>1
    <3> QED
      BY <2>1, <2>2, <2>3, <3>2 DEF m
  <2> HIDE DEF run, plain
  <2>5. Max(run) \in 1 .. Len(s)
    <3>1. Max(run) \in run
      BY <1>1, <2>4, MaxIn
    <3> QED
      BY <2>4, <3>1
  <2>6. Min(plain) \in Nat \ {0}
    <3>1. Min(plain) \in 1 .. Len(s)
      BY <2>1, <2>2
    <3> QED
      BY <1>1, <3>1
  <2>7. IsSequence(SubSeq(s, Min(plain), Max(run)))
    <3>1. Max(run) \in Int /\ Max(run) <= Len(s)
      BY <1>1, <2>5
    <3> QED
      BY <2>6, <3>1, Part
  <2> QED
    BY <1>2, <1>4, <2>7, TextsAreSequences
<1> QED
  BY <1>3, <1>4

LEMMA SafeNames == ASSUME NEW s, IsSequence(s) PROVE IsSequence(SafePathName(s))
  BY OneWord DEF SafePathName

LEMMA GuessedTitle ==
  ASSUME NEW name, IsSequence(name.stem)
  PROVE  IsSequence(GuessTitle(name))
<1> DEFINE I == {i \in DOMAIN name.stem :
                   name.stem[i].kind \notin {"both", "season", "year", "quality"}}
           left == Selected(name.stem, I)
           shown == [i \in DOMAIN left |-> IF left[i].kind = "range" THEN "-" ELSE left[i].text]
<1>1. GuessTitle(name) = SafePathName(shown)
  BY DEF GuessTitle
<1>2. IsSequence(left)
  <2>1. I \in SUBSET DOMAIN name.stem
    OBVIOUS
  <2> HIDE DEF I
  <2>2. LET r == Selected(name.stem, I) IN IsSequence(r)
    BY <2>1, Selection
  <2> QED
    BY <2>2
<1> HIDE DEF left
<1>3. Len(left) \in Nat /\ DOMAIN left = 1 .. Len(left)
  BY <1>2, SeqDomain
<1>4. shown = [i \in 1 .. Len(left) |-> shown[i]]
  BY <1>3
<1> HIDE DEF shown
<1>5. IsSequence(shown)
  BY <1>3, <1>4, SeqMade
<1> QED
  BY <1>1, <1>5, SafeNames

\* Well-formed names of a file.
Named(f) ==
  /\ IsSequence(f.name.stem) /\ IsSequence(f.name.ext)
  /\ IsSequence(f.short.stem) /\ IsSequence(f.short.ext)
  /\ IsSequence(f.dirs) /\ \A i \in DOMAIN f.dirs : IsSequence(f.dirs[i])

TitleOf(name) == FirstNonEmpty(ParseTorrentName(name).title, GuessTitle(name))

\* The title of a movie and of a show, and the folder it gives.
LEMMA TitlesAreSequences ==
  ASSUME NEW f, Named(f), NEW i \in {1, 2}
  PROVE  IsSequence(Titles(f)[i])
<1>1. ASSUME NEW name, IsSequence(name.stem) PROVE IsSequence(TitleOf(name))
  <2> DEFINE first == FirstUnmatchedTitle(name.stem)
             year == <<ToString(name.stem[1].n[1])>>
             title == ParseTorrentName(name).title
  <2>1. title = first \/ title = year
    BY DEF ParseTorrentName
  <2>2. IsSequence(first) /\ IsSequence(year)
    BY <1>1, UnmatchedTitle, OneWord
  <2>3. IsSequence(title)
    BY <2>1, <2>2
  <2> QED
    BY <1>1, <2>3, GuessedTitle DEF TitleOf, FirstNonEmpty
<1>2. Titles(f) = <<TitleOf(NameOr(f.short, f.name)), TitleOf(NameOr(f.name, f.short))>>
  BY DEF Titles, TitleOf
<1>3. /\ IsSequence(NameOr(f.short, f.name).stem)
      /\ IsSequence(NameOr(f.name, f.short).stem)
  BY DEF Named, NameOr
<1>4. /\ IsSequence(TitleOf(NameOr(f.short, f.name)))
      /\ IsSequence(TitleOf(NameOr(f.name, f.short)))
  BY <1>1, <1>3
<1> QED
  BY <1>2, <1>4

LEMMA Joined == ASSUME NEW s, IsSequence(s), NEW t, IsSequence(t) PROVE IsSequence(s \o t)
  BY SeqConcat

LEMMA Folders ==
  ASSUME NEW title, IsSequence(title), NEW year, NEW edition
  PROVE  IsSequence(RootFolder(title, year)) /\ IsSequence(MovieBase(title, year, edition))
<1>1. IsSequence(YearText(year))
  BY EmptySequence, OneWord DEF YearText
<1>2. IsSequence(RootFolder(title, year))
  BY <1>1, Joined DEF RootFolder
<1> DEFINE more == IF edition = NoText THEN <<>> ELSE <<"{edition-" \o edition[1] \o "}">>
<1>3. IsSequence(more)
  BY EmptySequence, OneWord
<1>4. MovieBase(title, year, edition) = RootFolder(title, year) \o more
  BY DEF MovieBase
<1> HIDE DEF more
<1> QED
  BY <1>2, <1>3, <1>4, Joined

\* A root folder is a name.
LEMMA RootsAreSequences == ASSUME NEW f, Named(f) PROVE IsSequence(Classify(f).root)
<1> DEFINE whole == Texts(Whole(f.name))
           year == YearOf(f)
           edition == MovieEdition(Combined(f))
<1>1. \E i \in {1, 2} : Classify(f).root \in
        {RootFolder(Titles(f)[i], year), MovieBase(Titles(f)[i], year, edition),
         SafePathName(FirstNonEmpty(whole, Titles(f)[i]))}
  BY DEF Classify, Placed
<1>2. PICK i \in {1, 2} : Classify(f).root \in
        {RootFolder(Titles(f)[i], year), MovieBase(Titles(f)[i], year, edition),
         SafePathName(FirstNonEmpty(whole, Titles(f)[i]))}
  BY <1>1
<1>3. IsSequence(Titles(f)[i])
  BY TitlesAreSequences
<1>4. IsSequence(whole)
  BY Joined, TextsAreSequences DEF Whole, Named
<1> HIDE DEF whole
<1>5. IsSequence(FirstNonEmpty(whole, Titles(f)[i]))
  BY <1>3, <1>4 DEF FirstNonEmpty
<1> QED
  BY <1>2, <1>3, <1>5, Folders, SafeNames
-----------------------------------------------------------------------------
(* Texts put together from parts *)

\* What FlattenSeq computes of the first n of some sequences.
Flattens(seqs, n, g) ==
  g = [i \in 1 .. n |-> IF i = 1 THEN seqs[i] ELSE g[i - 1] \o seqs[i]]

\* FlattenSeq is a recursive function; there is a table of it up to each n.
LEMMA FlattenDefinition ==
  ASSUME NEW seqs, Len(seqs) # 0
  PROVE  FlattenSeq(seqs) = (CHOOSE g : Flattens(seqs, Len(seqs), g))[Len(seqs)]
  BY DEF FlattenSeq, Flattens

LEMMA FlattensExist == ASSUME NEW seqs, NEW n \in Nat PROVE \E g : Flattens(seqs, n, g)
<1> DEFINE Bad == {m \in 0 .. n : ~ \E g : Flattens(seqs, m, g)}
<1>1. SUFFICES ASSUME Bad # {} PROVE FALSE
  <2>1. n \in 0 .. n
    OBVIOUS
  <2> QED
    BY <2>1
<1>2. Bad \in SUBSET Nat
  OBVIOUS
<1>3. PICK m \in Bad : \A l \in Bad : m <= l
  <2> HIDE DEF Bad
  <2> QED
    BY <1>1, <1>2, Least
<1>4. m \in 0 .. n /\ ~ \E g : Flattens(seqs, m, g)
  OBVIOUS
<1>5. m # 0
  <2> DEFINE h == [i \in 1 .. 0 |-> seqs[i]]
  <2>1. Flattens(seqs, 0, h)
    BY DEF Flattens
  <2> QED
    BY <1>4, <2>1
<1>6. m - 1 \in 0 .. n /\ m - 1 \notin Bad
  <2>1. m - 1 \in 0 .. n /\ ~(m <= m - 1)
    BY <1>4, <1>5
  <2> HIDE DEF Bad
  <2> QED
    BY <1>3, <2>1
<1>7. PICK g : Flattens(seqs, m - 1, g)
  BY <1>6
<1> DEFINE h == [i \in 1 .. m |-> IF i = m THEN (IF i = 1 THEN seqs[i] ELSE g[i - 1] \o seqs[i])
                                  ELSE g[i]]
<1>8. ASSUME NEW i \in 1 .. m PROVE h[i] = IF i = 1 THEN seqs[i] ELSE h[i - 1] \o seqs[i]
  <2>1. CASE i = m
    <3>1. i # 1 => i - 1 \in 1 .. m /\ i - 1 # m
      BY <1>4
    <3> QED
      BY <2>1, <3>1
  <2>2. CASE i # m
    <3>1. i \in 1 .. m - 1 /\ (i # 1 => i - 1 \in 1 .. m /\ i - 1 # m)
      BY <1>4, <2>2
    <3>2. g[i] = IF i = 1 THEN seqs[i] ELSE g[i - 1] \o seqs[i]
      BY <1>7, <3>1 DEF Flattens
    <3> QED
      BY <2>2, <3>1, <3>2
  <2> QED
    BY <2>1, <2>2
<1>9. h = [i \in 1 .. m |-> IF i = 1 THEN seqs[i] ELSE h[i - 1] \o seqs[i]]
  <2> DEFINE k == [i \in 1 .. m |-> IF i = 1 THEN seqs[i] ELSE h[i - 1] \o seqs[i]]
  <2>1. \A i \in 1 .. m : h[i] = k[i]
    BY <1>8
  <2>2. h = [i \in 1 .. m |-> h[i]] /\ k = [i \in 1 .. m |-> k[i]]
    OBVIOUS
  <2> HIDE DEF h, k
  <2>3. h = k
    BY <2>1, <2>2
  <2> QED
    BY <2>3 DEF k
<1>10. Flattens(seqs, m, h)
  <2> HIDE DEF h
  <2> QED
    BY <1>9 DEF Flattens
<1> QED
  BY <1>4, <1>10

\* A sequence of sequences, joined, is a sequence.
LEMMA FlattenedSequence ==
  ASSUME NEW seqs, IsSequence(seqs), \A i \in DOMAIN seqs : IsSequence(seqs[i])
  PROVE  IsSequence(FlattenSeq(seqs))
<1> DEFINE n == Len(seqs)
           g == CHOOSE h : Flattens(seqs, n, h)
           Bad == {m \in 1 .. n : ~IsSequence(g[m])}
<1>1. n \in Nat /\ DOMAIN seqs = 1 .. n
  BY SeqDomain
<1>2. Flattens(seqs, n, g)
  <2>1. \E h : Flattens(seqs, n, h)
    BY <1>1, FlattensExist
  <2> QED
    BY <2>1
<1>3. CASE n = 0
  <2>1. FlattenSeq(seqs) = seqs
    BY <1>3 DEF FlattenSeq
  <2> QED
    BY <2>1
<1>4. CASE n # 0
  <2>1. FlattenSeq(seqs) = g[n]
    BY <1>4, FlattenDefinition
  <2> HIDE DEF g, n
  <2>2. ASSUME Bad # {} PROVE FALSE
    <3>1. Bad \in SUBSET Nat
      BY <1>1
    <3>2. PICK m \in Bad : \A l \in Bad : m <= l
      <4> HIDE DEF Bad
      <4> QED
        BY <2>2, <3>1, Least
    <3>3. m \in 1 .. n /\ ~IsSequence(g[m])
      OBVIOUS
    <3>4. g[m] = IF m = 1 THEN seqs[m] ELSE g[m - 1] \o seqs[m]
      BY <1>2, <3>3 DEF Flattens
    <3>5. IsSequence(seqs[m])
      BY <1>1, <3>3
    <3>6. m # 1
      BY <3>3, <3>4, <3>5
    <3>7. IsSequence(g[m - 1])
      <4>1. m - 1 \in 1 .. n /\ ~(m <= m - 1)
        BY <1>1, <3>3, <3>6
      <4>2. m - 1 \notin Bad
        <5> HIDE DEF Bad
        <5> QED
          BY <3>2, <4>1
      <4> QED
        BY <4>1, <4>2
    <3> QED
      BY <3>3, <3>4, <3>5, <3>6, <3>7, Joined
  <2>3. n \in 1 .. n
    BY <1>1, <1>4
  <2> QED
    BY <2>1, <2>2, <2>3
<1> QED
  BY <1>3, <1>4

\* Lower case keeps the length; a file name has its extension at the end.
LEMMA FoldedSequence == ASSUME NEW s, IsSequence(s) PROVE IsSequence(Folded(s))
<1>1. Len(s) \in Nat /\ DOMAIN s = 1 .. Len(s)
  BY SeqDomain
<1>2. Folded(s) = [i \in 1 .. Len(s) |-> Folded(s)[i]]
  BY <1>1 DEF Folded
<1> QED
  BY <1>1, <1>2, SeqMade

\* A name with its extension is not empty.
LEMMA EndsInWord ==
  ASSUME NEW s, IsSequence(s), NEW e PROVE IsSequence(s \o <<e>>) /\ s \o <<e>> # <<>>
<1>1. IsSequence(<<e>>) /\ Len(<<e>>) = 1 /\ Len(s) \in Nat
  BY OneWord, SeqDomain
<1>2. IsSequence(s \o <<e>>) /\ Len(s \o <<e>>) = Len(s) + 1
  BY <1>1, SeqConcat
<1>3. Len(s \o <<e>>) # 0 /\ Len(<<>>) = 0
  BY <1>1, <1>2
<1> QED
  BY <1>2, <1>3

LEMMA FileNames ==
  ASSUME NEW n, IsSequence(n.stem) PROVE IsSequence(FileName(n)) /\ FileName(n) # <<>>
<1>1. IsSequence(SafePathName(Texts(n.stem)))
  BY TextsAreSequences, SafeNames
<1> QED
  BY <1>1, EndsInWord DEF FileName

LEMMA ExtraFileNames ==
  ASSUME NEW f, Named(f) PROVE IsSequence(ExtraFileName(f)) /\ ExtraFileName(f) # <<>>
<1> DEFINE stem == f.short.stem
           kept == IF stem # <<>> /\ stem[1].kind = "season" THEN Tail(stem) ELSE stem
           said == {i \in DOMAIN kept : kept[i].kind # "dash"}
           text == IF said = {} THEN NoText ELSE Texts(SubSeq(kept, Min(said), Max(said)))
<1>1. ExtraFileName(f) = SafePathName(text) \o <<Extension(f.short)>>
  BY DEF ExtraFileName
<1>2. IsSequence(kept)
  <2>1. IsSequence(stem) /\ (stem # <<>> => IsSequence(Tail(stem)))
    BY SeqTail DEF Named
  <2> QED
    BY <2>1
<1> HIDE DEF kept
<1>3. Len(kept) \in Nat /\ DOMAIN kept = 1 .. Len(kept)
  BY <1>2, SeqDomain
<1>4. ASSUME said = {} PROVE IsSequence(text)
  BY <1>4, EmptySequence DEF NoText
<1>5. ASSUME said # {} PROVE IsSequence(text)
  <2>1. said \in SUBSET (1 .. Len(kept)) /\ said \in SUBSET Nat
    BY <1>3
  <2> HIDE DEF said
  <2>2. Min(said) \in 1 .. Len(kept)
    <3>1. Min(said) \in said
      BY <1>5, <2>1, MinIn
    <3> QED
      BY <2>1, <3>1
  <2>3. Max(said) \in 1 .. Len(kept)
    <3>1. Max(said) \in said
      BY <1>3, <1>5, <2>1, MaxIn
    <3> QED
      BY <2>1, <3>1
  <2>4. Min(said) \in Nat \ {0} /\ Max(said) \in Int /\ Max(said) <= Len(kept)
    BY <1>3, <2>2, <2>3
  <2>5. IsSequence(SubSeq(kept, Min(said), Max(said)))
    BY <1>2, <2>4, Part
  <2> QED
    BY <1>5, <2>5, TextsAreSequences
<1>6. IsSequence(text)
  BY <1>4, <1>5
<1> HIDE DEF text
<1>7. IsSequence(SafePathName(text))
  BY <1>6, SafeNames
<1> QED
  BY <1>1, <1>7, EndsInWord

\* So is the name of a file in its folder.
LEMMA ShownNamesAreSequences ==
  ASSUME NEW f, Named(f) PROVE IsSequence(Classify(f).name) /\ Classify(f).name # <<>>
<1> DEFINE year == YearOf(f)
           edition == MovieEdition(Combined(f))
           ext == <<Extension(f.short)>>
<1>1. \E i \in {1, 2} : \E season, episode : Classify(f).name \in
        {FileName(f.short), ExtraFileName(f), MovieBase(Titles(f)[i], year, edition) \o ext,
         RootFolder(Titles(f)[i], year) \o SeriesSuffix(season, episode) \o ext}
  BY DEF Classify, Placed
<1>2. PICK i \in {1, 2} : \E season, episode : Classify(f).name \in
        {FileName(f.short), ExtraFileName(f), MovieBase(Titles(f)[i], year, edition) \o ext,
         RootFolder(Titles(f)[i], year) \o SeriesSuffix(season, episode) \o ext}
  BY <1>1
<1>3. PICK season, episode : Classify(f).name \in
        {FileName(f.short), ExtraFileName(f), MovieBase(Titles(f)[i], year, edition) \o ext,
         RootFolder(Titles(f)[i], year) \o SeriesSuffix(season, episode) \o ext}
  BY <1>2
<1>4. IsSequence(Titles(f)[i])
  BY TitlesAreSequences
<1>5. /\ IsSequence(RootFolder(Titles(f)[i], year))
      /\ IsSequence(MovieBase(Titles(f)[i], year, edition))
  BY <1>4, Folders
<1>6. IsSequence(SeriesSuffix(season, episode))
  <2>1. \E a, b : SeriesSuffix(season, episode) = <<a, b>>
    BY DEF SeriesSuffix
  <2>2. PICK a, b : SeriesSuffix(season, episode) = <<a, b>>
    BY <2>1
  <2>3. <<a, b>> \in Seq({a, b})
    OBVIOUS
  <2> QED
    BY <2>2, <2>3, SeqTyped
<1>7. /\ IsSequence(MovieBase(Titles(f)[i], year, edition) \o ext)
      /\ MovieBase(Titles(f)[i], year, edition) \o ext # <<>>
  BY <1>5, EndsInWord
<1>8. /\ IsSequence(RootFolder(Titles(f)[i], year) \o SeriesSuffix(season, episode) \o ext)
      /\ RootFolder(Titles(f)[i], year) \o SeriesSuffix(season, episode) \o ext # <<>>
  <2>1. IsSequence(RootFolder(Titles(f)[i], year) \o SeriesSuffix(season, episode))
    BY <1>5, <1>6, Joined
  <2> QED
    BY <2>1, EndsInWord
<1>9. /\ IsSequence(FileName(f.short)) /\ IsSequence(ExtraFileName(f))
       /\ FileName(f.short) # <<>> /\ ExtraFileName(f) # <<>>
  BY FileNames, ExtraFileNames DEF Named
<1> QED
  BY <1>3, <1>7, <1>8, <1>9

\* The label of the resolution, the source and so on (technicalLabel).
LEMMA TechnicalLabels == ASSUME NEW f, Named(f) PROVE IsSequence(TechnicalLabel(Combined(f)))
<1> DEFINE text == Combined(f)
           ranked == {i \in DOMAIN text : text[i].kind \in {"quality", "tag"} /\ text[i].n[1] > 0}
           first == {i \in ranked : \A j \in ranked : j < i => text[j].n[1] # text[i].n[1]}
           order == InOrder(first, [i \in first |-> text[i].n[1]])
           label == TechnicalLabel(text)
<1>1. IsSequence(text)
  <2>1. IsSequence(Whole(f.name)) /\ IsSequence(Whole(f.short)) /\ IsSequence(FlattenSeq(f.dirs))
    BY Joined, FlattenedSequence DEF Whole, Named
  <2>2. IsSequence(Whole(f.name) \o Whole(f.short))
    BY <2>1, Joined
  <2> QED
    BY <2>1, <2>2, Joined DEF Combined
<1> HIDE DEF text
<1>2. IsFiniteSet(first)
  <2>1. first \in SUBSET DOMAIN text
    OBVIOUS
  <2> HIDE DEF first
  <2> QED
    BY <1>1, <2>1, SeqFinite, FS_Subset
<1>3. label = [k \in DOMAIN order |-> text[order[k]].canon]
  BY DEF TechnicalLabel
<1>4. DOMAIN order = 1 .. Cardinality(first)
  BY DEF InOrder
<1>5. Cardinality(first) \in Nat
  BY <1>2, FS_CardinalityType
<1> HIDE DEF first, order, label
<1>6. label = [k \in 1 .. Cardinality(first) |-> label[k]]
  BY <1>3, <1>4
<1>7. IsSequence(label)
  BY <1>5, <1>6, SeqMade
<1> QED
  BY <1>7 DEF label, text

-----------------------------------------------------------------------------
(* Labels *)

\* The texts of a record from which its label is made.
Worded(r) ==
  /\ IsSequence(r.name) /\ r.name # <<>> /\ IsSequence(r.tech)
  /\ IsSequence(r.stems) /\ \A i \in DOMAIN r.stems : IsSequence(r.stems[i])

\* buildVideoRecord makes the names of a record of texts (process.go:75-118).
LEMMA RecordsAreWorded ==
  ASSUME NEW f, Named(f), NEW typ PROVE Worded(BuildVideoRecord(typ, f))
<1> DEFINE r == BuildVideoRecord(typ, f)
<1>1. /\ r.name = Classify(f).name /\ r.tech = TechnicalLabel(Combined(f))
      /\ r.stems = <<Texts(f.name.stem), Texts(f.short.stem)>>
  BY DEF BuildVideoRecord, VideoRecord
<1>2. IsSequence(r.name) /\ r.name # <<>> /\ IsSequence(r.tech)
  BY <1>1, ShownNamesAreSequences, TechnicalLabels
<1>3. IsSequence(Texts(f.name.stem)) /\ IsSequence(Texts(f.short.stem))
  BY TextsAreSequences DEF Named
<1> HIDE DEF r
<1>4. PICK a, b : r.stems = <<a, b>>
  BY <1>1
<1>5. IsSequence(r.stems) /\ DOMAIN r.stems = {1, 2}
  <2>1. <<a, b>> \in Seq({a, b}) /\ DOMAIN <<a, b>> = {1, 2}
    OBVIOUS
  <2> QED
    BY <1>4, <2>1, SeqTyped
<1> QED
  BY <1>1, <1>2, <1>3, <1>5 DEF Worded, r

\* The parts of a label (plex_naming.go).
LEMMA DashedTexts ==
  ASSUME NEW s, IsSequence(s), NEW t, IsSequence(t) PROVE IsSequence(Dashed(s, t))
<1>1. IsSequence(s \o <<"-">>)
  BY OneWord, Joined
<1> QED
  BY <1>1, Joined DEF Dashed

\* The words that a name and its labels are made of.
Words(r) ==
  ToSet(r.name) \cup ToSet(r.tech) \cup {"-"} \cup ToSet(ShortStableID(r))
    \cup (UNION {ToSet(r.stems[i]) : i \in DOMAIN r.stems})

LEMMA DashedWords ==
  ASSUME NEW W, "-" \in W, NEW s \in Seq(W), NEW t \in Seq(W) PROVE Dashed(s, t) \in Seq(W)
  BY DEF Dashed

\* A label is made of the words of its record.
LEMMA LabelWords ==
  ASSUME NEW g, NEW r, Worded(r)
  PROVE  FreshLabel(g, r) \in Seq(Words(r)) /\ ShortStableID(r) \in Seq(Words(r))
<1> DEFINE W == Words(r)
           first == PlexVersionLabel(r)
           stem == CleanedReleaseStem(r)
           labels == IF stem # NoText /\ Folded(stem) # Folded(first)
                     THEN <<first, stem>> ELSE <<first>>
           unused(l) == Folded(l) \notin g.labels
           free == SelectInSeq(labels, unused)
           I == {k \in 1 .. Len(labels) : unused(labels[k])}
<1>0. "-" \in W
  BY DEF Words
<1>1. ShortStableID(r) \in Seq(W)
  <2>1. IsSequence(ShortStableID(r)) /\ ToSet(ShortStableID(r)) \subseteq W
    BY OneWord DEF ShortStableID, Words
  <2> HIDE DEF W
  <2> QED
    BY <2>1, TextOf
<1>2. stem \in Seq(W)
  <2> DEFINE says(c) == /\ SafePathName(c) # <<"Unknown">>
                        /\ Folded(c) \notin {Folded(Front(r.name)), Folded(r.root)}
             J == {k \in 1 .. Len(r.stems) : says(r.stems[k])}
             i == SelectInSeq(r.stems, says)
  <2>1. stem = IF i = 0 THEN <<>> ELSE r.stems[i]
    BY DEF CleanedReleaseStem, NoText
  <2>2. i = IF J # {} THEN Min(J) ELSE 0
    BY DEF SelectInSeq
  <2>3. J \in SUBSET (1 .. Len(r.stems))
    OBVIOUS
  <2>4. Len(r.stems) \in Nat /\ DOMAIN r.stems = 1 .. Len(r.stems)
    BY SeqDomain DEF Worded
  <2>5. ASSUME NEW k \in DOMAIN r.stems PROVE r.stems[k] \in Seq(W)
    <3>1. IsSequence(r.stems[k]) /\ ToSet(r.stems[k]) \subseteq W
      BY DEF Worded, Words
    <3> HIDE DEF W
    <3> QED
      BY <3>1, TextOf
  <2> HIDE DEF i, J, says, W, stem
  <2>6. i = 0 \/ i \in 1 .. Len(r.stems)
    BY <2>2, <2>3, <2>4, Chosen
  <2>7. CASE i = 0
    <3>1. stem = <<>>
      BY <2>1, <2>7
    <3> QED
      BY <3>1
  <2>8. CASE i # 0
    BY <2>1, <2>4, <2>5, <2>6, <2>8
  <2> QED
    BY <2>7, <2>8
<1>3. r.tech \in Seq(W)
  <2>1. IsSequence(r.tech) /\ ToSet(r.tech) \subseteq W
    BY DEF Worded, Words
  <2> HIDE DEF W
  <2> QED
    BY <2>1, TextOf
<1>4. first \in Seq(W)
  BY <1>1, <1>2, <1>3 DEF PlexVersionLabel, FirstNonEmpty
<1>5. FreshLabel(g, r) = IF free = 0 THEN Dashed(Last(labels), ShortStableID(r)) ELSE labels[free]
  BY DEF FreshLabel
<1>6. free = IF I # {} THEN Min(I) ELSE 0
  BY DEF SelectInSeq
<1>7. I \in SUBSET (1 .. Len(labels))
  OBVIOUS
<1> HIDE DEF first, stem, free, I, W
<1>8. /\ Len(labels) \in Nat \ {0} /\ \A k \in 1 .. Len(labels) : labels[k] \in Seq(W)
  <2>1. CASE labels = <<first, stem>>
    <3>1. Len(labels) = 2 /\ labels[1] = first /\ labels[2] = stem
      BY <2>1
    <3>2. \A k \in 1 .. 2 : k = 1 \/ k = 2
      OBVIOUS
    <3> HIDE DEF labels
    <3> QED
      BY <1>2, <1>4, <3>1, <3>2
  <2>2. CASE labels = <<first>>
    <3>1. Len(labels) = 1 /\ labels[1] = first
      BY <2>2
    <3>2. \A k \in 1 .. 1 : k = 1
      OBVIOUS
    <3> HIDE DEF labels
    <3> QED
      BY <1>4, <3>1, <3>2
  <2> QED
    BY <2>1, <2>2
<1> HIDE DEF labels, unused
<1>9. free = 0 \/ free \in 1 .. Len(labels)
  BY <1>6, <1>7, <1>8, Chosen
<1>10. Dashed(Last(labels), ShortStableID(r)) \in Seq(W)
  <2>1. Last(labels) = labels[Len(labels)] /\ Len(labels) \in 1 .. Len(labels)
    BY <1>8 DEF Last
  <2>2. Last(labels) \in Seq(W)
    BY <1>8, <2>1
  <2> QED
    BY <1>0, <1>1, <2>2, DashedWords
<1>11. FreshLabel(g, r) \in Seq(W)
  <2>1. CASE free = 0
    BY <1>5, <1>10, <2>1
  <2>2. CASE free # 0
    BY <1>5, <1>8, <1>9, <2>2
  <2> QED
    BY <2>1, <2>2
<1> QED
  BY <1>1, <1>11 DEF W

LEMMA Labels ==
  ASSUME NEW g, NEW r, Worded(r)
  PROVE  IsSequence(FreshLabel(g, r)) /\ IsSequence(ShortStableID(r))
  BY LabelWords, SeqTyped

\* A name without its extension.
LEMMA FrontOfName == ASSUME NEW s, IsSequence(s) PROVE IsSequence(Front(s))
<1>1. Len(s) \in Nat
  BY SeqDomain
<1>2. Len(s) - 1 \in Int /\ Len(s) - 1 <= Len(s) /\ 1 \in Nat \ {0}
  BY <1>1
<1> QED
  BY <1>2, Part DEF Front

\* Labelling leaves a record with a name.
LEMMA LabelledNames ==
  ASSUME NEW r, Worded(r), NEW label, IsSequence(label)
  PROVE  IsSequence(Labelled(r, label)) /\ Labelled(r, label) # <<>>
<1>1. IsSequence(Front(r.name))
  BY FrontOfName DEF Worded
<1>2. IsSequence(Dashed(Front(r.name), label))
  BY <1>1, DashedTexts
<1> QED
  BY <1>2, EndsInWord DEF Labelled

-----------------------------------------------------------------------------
(***************************************************************************)
(* The inductive invariant.  While the videos of a source are collected,   *)
(* each is in one place: with the feeder, with a worker, or in one record. *)
(* Labelling changes only names.  Of the sources done there is a record of *)
(* every video and at most one of every subtitle, and the root folder in   *)
(* the record of a video is what the library alone determines (Spelled),   *)
(* not the order of delivery.                                              *)
(***************************************************************************)
Wanted(c, s, kind) == {f \in ToSet(c[s]) : f.cached /\ f.kind = kind}

\* What the spelling of a root folder depends on.
Bare(f) == [key |-> f.key, media |-> Classify(f).media, root |-> Classify(f).root]
Delivery(c, s) ==
  LET videos == ListedIn(c, s, "video") IN [i \in DOMAIN videos |-> Bare(videos[i])]
Spelled(c, s, f) == CanonicalRoot(Delivery(c, s), Bare(f))

Distinct(recs) == \A i, j \in DOMAIN recs : recs[i].key = recs[j].key => i = j

\* A record of the video f of source s, as it is before and after casing.
Others == {"key", "item", "type", "kind", "file", "stems", "tech", "media", "season",
           "episode", "root", "folder", "extra"}
RecordOf(r, s, f) ==
  r.kind = "video" /\ r.type = s /\ r.key = f.key /\ r.item = f.item
CasedRecordOf(r, c, s, f) ==
  RecordOf(r, s, f) /\ r.media = Classify(f).media /\ r.root = Spelled(c, s, f)

State ==
  /\ catalog \in Catalogs /\ src \in Sources
  /\ phase \in {"collect", "label", "build", "built"}
  /\ phase \in {"build", "built"} => src = 1 /\ records = <<>>
  /\ phase # "collect" => jobs = <<>> /\ \A w \in Workers : held[w] = Idle
  /\ phase # "label" => pending = {} /\ used = {}
  /\ \A group \in pending : group \subseteq DOMAIN records
  /\ held = [w \in Workers |-> held[w]]
  /\ IsSequence(jobs) /\ IsSequence(records) /\ IsSequence(all) /\ Distinct(records) /\ Distinct(all)

Videos == Wanted(catalog, src, "video")

Queued ==
  /\ \A i \in DOMAIN jobs : jobs[i] \in Videos
  /\ \A i, j \in DOMAIN jobs : jobs[i] = jobs[j] => i = j

InHand ==
  \A w \in Workers : held[w] # Idle =>
    /\ held[w] \in Videos \ ToSet(jobs)
    /\ \A v \in Workers : held[v] = held[w] => v = w

Delivered ==
  \A i \in DOMAIN records : \E f \in Videos :
    /\ f \notin ToSet(jobs) /\ \A w \in Workers : held[w] # f
    /\ RecordOf(records[i], src, f)
    /\ DOMAIN records[i] = Others \cup {"name"} /\ Worded(records[i])
    /\ phase = "collect" => records[i] = BuildVideoRecord(src, f)
    /\ phase = "label" => CasedRecordOf(records[i], catalog, src, f)

NoneLost ==
  phase \in {"collect", "label"} =>
    \A f \in Videos :
      \/ f \in ToSet(jobs) \/ \E w \in Workers : held[w] = f
      \/ \E i \in DOMAIN records : records[i].key = f.key

DoneSources == IF phase \in {"build", "built"} THEN Sources ELSE 1 .. src - 1

\* The record of the subtitle f: of an item that has a video.
SubtitleOf(r, c, s, f) ==
  /\ r.kind = "subtitle" /\ r.type = s /\ r.key = f.key /\ r.item = f.item
  /\ \E g \in Wanted(c, s, "video") : g.item = f.item

\* A record of the library, as a refresh leaves it.
Final(r, c, s) ==
  \/ \E f \in Wanted(c, s, "video") : CasedRecordOf(r, c, s, f)
  \/ \E f \in Wanted(c, s, "subtitle") : SubtitleOf(r, c, s, f)

\* The subtitle r lies beside the video v and is called like it.
LiesBeside(r, v) ==
  /\ v.kind = "video" /\ v.item = r.item
  /\ Front(RecordPath(v)) = Front(RecordPath(r)) /\ IsPrefix(Front(v.name), r.name)

AllBeside(recs) ==
  \A i \in DOMAIN recs : recs[i].kind = "subtitle" => \E j \in DOMAIN recs : LiesBeside(recs[i], recs[j])

\* The records of each source are in the order of their keys.
Ascending(recs) ==
  \A i, j \in DOMAIN recs : i < j /\ recs[i].type = recs[j].type => recs[i].key <= recs[j].key

DoneRecords ==
  /\ AllBeside(all) /\ Ascending(all)
  /\ \A i \in DOMAIN all : \E s \in DoneSources : Final(all[i], catalog, s)
  /\ \A s \in DoneSources : \A f \in Wanted(catalog, s, "video") :
       \E i \in DOMAIN all : all[i].key = f.key

Before == \A i \in DOMAIN earlier : \E s \in Sources : Final(earlier[i], catalog, s)

IInv ==
  State /\ Queued /\ InHand /\ Delivered /\ NoneLost /\ DoneRecords /\ Before

-----------------------------------------------------------------------------
(* The listing *)

\* A key names one file of one source.
LEMMA Keys ==
  ASSUME NEW c \in Catalogs
  PROVE  /\ \A s \in Sources : IsSequence(c[s]) /\ \A f \in ToSet(c[s]) : f.key \in Nat /\ f # Idle
         /\ \A s, t \in Sources : \A f \in ToSet(c[s]), g \in ToSet(c[t]) :
              f.key = g.key => s = t /\ f = g
<1>1. \A s \in Sources : IsSequence(c[s])
  BY KeysAssumption DEF IsSequence
<1>2. ASSUME NEW s \in Sources, NEW f \in ToSet(c[s]) PROVE f.key \in Nat /\ f # Idle
  <2>1. PICK i \in DOMAIN c[s] : f = c[s][i]
    BY DEF ToSet
  <2>2. f.key \in Nat
    BY <2>1, KeysAssumption
  <2>3. f # Idle
    BY KeysAssumption
  <2> QED
    BY <2>2, <2>3
<1>3. ASSUME NEW s \in Sources, NEW t \in Sources, NEW f \in ToSet(c[s]), NEW g \in ToSet(c[t]),
             f.key = g.key
      PROVE  s = t /\ f = g
  <2>1. PICK i \in DOMAIN c[s] : f = c[s][i]
    BY DEF ToSet
  <2>2. PICK j \in DOMAIN c[t] : g = c[t][j]
    BY DEF ToSet
  <2>3. s = t /\ i = j
    BY <1>3, <2>1, <2>2, KeysAssumption
  <2> QED
    BY <2>1, <2>2, <2>3
<1> QED
  BY <1>1, <1>2, <1>3

\* ProcessItems takes what is wanted from the listing, each file once.
LEMMA Listing ==
  ASSUME NEW c \in Catalogs, NEW s \in Sources, NEW kind
  PROVE  LET l == ListedIn(c, s, kind) IN
         /\ IsSequence(l) /\ ToSet(l) = Wanted(c, s, kind)
         /\ \A m, n \in DOMAIN l : l[m] = l[n] => m = n
<1> DEFINE I == {i \in DOMAIN c[s] : c[s][i].cached /\ c[s][i].kind = kind}
           l == ListedIn(c, s, kind)
<1>1. IsSequence(c[s]) /\ I \in SUBSET DOMAIN c[s]
  BY Keys
<1>2. \A i, j \in I : c[s][i] = c[s][j] => i = j
  BY KeysAssumption
<1>3. l = Selected(c[s], I)
  BY DEF ListedIn
<1>4. Wanted(c, s, kind) = {c[s][i] : i \in I}
  BY DEF Wanted, ToSet
<1> HIDE DEF I
<1>5. /\ IsSequence(l)
      /\ \A n \in DOMAIN l : \E i \in I : l[n] = c[s][i]
      /\ \A i \in I : \E n \in DOMAIN l : l[n] = c[s][i]
      /\ \A m, n \in DOMAIN l : l[m] = l[n] => m = n
  <2>1. LET r == Selected(c[s], I) IN
          /\ IsSequence(r)
          /\ \A n \in DOMAIN r : \E i \in I : r[n] = c[s][i]
          /\ \A i \in I : \E n \in DOMAIN r : r[n] = c[s][i]
          /\ \A m, n \in DOMAIN r : r[m] = r[n] => m = n
    BY <1>1, <1>2, Selection
  <2> QED
    BY <1>3, <2>1
<1> HIDE DEF l
<1>6. ToSet(l) = Wanted(c, s, kind)
  BY <1>4, <1>5 DEF ToSet
<1> QED
  BY <1>5, <1>6 DEF l

\* What NamesAssumption says of a listed video.
LEMMA FilesAreNamed ==
  ASSUME NEW c \in Catalogs, NEW s \in Sources, NEW kind, NEW f \in Wanted(c, s, kind)
  PROVE  Named(f)
  BY NamesAssumption DEF Wanted, Named

\* Delivery has each video of the source, once.
LEMMA DeliveryIs ==
  ASSUME NEW c \in Catalogs, NEW s \in Sources
  PROVE  /\ IsSequence(Delivery(c, s)) /\ Distinct(Delivery(c, s))
         /\ \A i \in DOMAIN Delivery(c, s) : \E f \in Wanted(c, s, "video") :
              Delivery(c, s)[i] = Bare(f)
         /\ \A f \in Wanted(c, s, "video") : \E i \in DOMAIN Delivery(c, s) :
              Delivery(c, s)[i] = Bare(f)
<1> DEFINE l == ListedIn(c, s, "video")
           d == Delivery(c, s)
<1>1. IsSequence(l) /\ ToSet(l) = Wanted(c, s, "video") /\ \A m, n \in DOMAIN l : l[m] = l[n] => m = n
  BY Listing
<1>2. d = [i \in DOMAIN l |-> Bare(l[i])]
  BY DEF Delivery
<1> HIDE DEF d, l
<1>3. Len(l) \in Nat /\ DOMAIN l = 1 .. Len(l)
  BY <1>1, SeqDomain
<1>4. IsSequence(d)
  BY <1>2, <1>3, SeqMade
<1>5. \A m, n \in DOMAIN d : d[m].key = d[n].key => m = n
  <2> SUFFICES ASSUME NEW m \in DOMAIN d, NEW n \in DOMAIN d, d[m].key = d[n].key PROVE m = n
    OBVIOUS
  <2>1. l[m].key = l[n].key
    BY <1>2 DEF Bare
  <2>2. l[m] \in ToSet(c[s]) /\ l[n] \in ToSet(c[s])
    BY <1>1, <1>2 DEF ToSet, Wanted
  <2> QED
    BY <1>1, <1>2, <2>1, <2>2, Keys
<1>6. /\ \A i \in DOMAIN d : \E f \in Wanted(c, s, "video") : d[i] = Bare(f)
      /\ \A f \in Wanted(c, s, "video") : \E i \in DOMAIN d : d[i] = Bare(f)
  BY <1>1, <1>2 DEF ToSet
<1> QED
  BY <1>4, <1>5, <1>6 DEF d, Distinct

-----------------------------------------------------------------------------
(* ApplyCanonicalRootCasing *)

Alike(r, q) == r.key = q.key /\ r.media = q.media /\ r.root = q.root

\* The spelling of a folder depends on the keys, media types and roots of the
\* records, and not on their order.
LEMMA SpellingUnordered ==
  ASSUME NEW a, IsSequence(a), Distinct(a), NEW b, IsSequence(b), Distinct(b),
         \A i \in DOMAIN a : \E j \in DOMAIN b : Alike(a[i], b[j]),
         \A j \in DOMAIN b : \E i \in DOMAIN a : Alike(b[j], a[i]),
         NEW r, NEW q, Alike(r, q)
  PROVE  CanonicalRoot(a, r) = CanonicalRoot(b, q)
<1>1. Variants(a, r) = Variants(b, q)
  <2>1. Variants(a, r) = {a[i].root : i \in {k \in DOMAIN a :
                            a[k].media = r.media /\ Folded(a[k].root) = Folded(r.root)}}
    BY DEF Variants, ToSet
  <2>2. Variants(b, q) = {b[i].root : i \in {k \in DOMAIN b :
                            b[k].media = q.media /\ Folded(b[k].root) = Folded(q.root)}}
    BY DEF Variants, ToSet
  <2> QED
    BY <2>1, <2>2 DEF Alike
<1>2. ASSUME NEW m, NEW v PROVE Merit(a, m, v) = Merit(b, m, v)
  <2> DEFINE A == Uses(a, m, v)
             B == Uses(b, m, v)
             of(i) == CHOOSE j \in DOMAIN b : Alike(a[i], b[j])
             f == [i \in A |-> of(i)]
  <2>1. \A i \in DOMAIN a : of(i) \in DOMAIN b /\ Alike(a[i], b[of(i)])
    OBVIOUS
  <2> HIDE DEF of
  <2>2. A \in SUBSET DOMAIN a /\ B \in SUBSET DOMAIN b
    BY DEF Uses
  <2>3. \A i \in A : f[i] \in B /\ Alike(a[i], b[f[i]])
    BY <2>1, <2>2 DEF Uses, Alike
  <2>4. \A i, j \in A : f[i] = f[j] => i = j
    BY <2>2, <2>3 DEF Alike, Distinct
  <2>5. \A j \in B : \E i \in A : f[i] = j
    <3> SUFFICES ASSUME NEW j \in B PROVE \E i \in A : f[i] = j
      OBVIOUS
    <3>1. PICK i \in DOMAIN a : Alike(b[j], a[i])
      BY <2>2
    <3>2. i \in A
      BY <2>2, <3>1 DEF Uses, Alike
    <3>3. b[f[i]].key = b[j].key
      BY <2>3, <3>1, <3>2 DEF Alike
    <3> QED
      BY <2>2, <2>3, <3>2, <3>3 DEF Distinct
  <2>6. IsFiniteSet(A)
    BY <2>2, SeqFinite, FS_Subset
  <2>7. Cardinality(A) = Cardinality(B)
    <3>1. f \in Surjection(A, B) /\ f \in Injection(A, B)
      BY <2>3, <2>4, <2>5 DEF Surjection, Injection, IsInjective
    <3> HIDE DEF f, A, B
    <3> QED
      BY <2>6, <3>1, FS_Surjection
  <2>8. {a[i].key : i \in A} = {b[i].key : i \in B}
    BY <2>3, <2>5 DEF Alike
  <2>9. \A k : (\A i \in A : k <= a[i].key) <=> (\A i \in B : k <= b[i].key)
    BY <2>3, <2>5 DEF Alike
  <2>10. FirstKey(a, m, v) = FirstKey(b, m, v)
    <3> HIDE DEF A, B
    <3> DEFINE K == {a[i].key : i \in A}
    <3>1. /\ FirstKey(a, m, v) = CHOOSE k \in K : \A i \in A : k <= a[i].key
          /\ FirstKey(b, m, v) = CHOOSE k \in K : \A i \in B : k <= b[i].key
      BY <2>8 DEF FirstKey, A, B
    <3> HIDE DEF K
    <3> QED
      BY <2>9, <3>1
  <2> HIDE DEF A, B
  <2> QED
    BY <2>7, <2>10 DEF Merit, A, B
<1>3. r.media = q.media
  BY DEF Alike
<1> QED
  BY <1>1, <1>2, <1>3 DEF CanonicalRoot

-----------------------------------------------------------------------------
(* The roots after casing *)

\* The videos delivered get the spelling that the library determines.
LEMMA CasingIs ==
  ASSUME NEW c \in Catalogs, NEW s \in Sources, NEW recs, IsSequence(recs), Distinct(recs),
         \A i \in DOMAIN recs : \E f \in Wanted(c, s, "video") : Alike(recs[i], Bare(f)),
         \A f \in Wanted(c, s, "video") : \E i \in DOMAIN recs : recs[i].key = f.key,
         NEW f \in Wanted(c, s, "video"), NEW r, Alike(r, Bare(f))
  PROVE  CanonicalRoot(recs, r) = Spelled(c, s, f)
<1> DEFINE d == Delivery(c, s)
           W == Wanted(c, s, "video")
<1>1. /\ IsSequence(d) /\ Distinct(d)
      /\ \A i \in DOMAIN d : \E g \in W : d[i] = Bare(g)
      /\ \A g \in W : \E i \in DOMAIN d : d[i] = Bare(g)
  BY DeliveryIs
<1>2. \A g, h \in W : g.key = h.key => g = h
  <2>1. \A g \in W : g \in ToSet(c[s])
    BY DEF Wanted
  <2> HIDE DEF W
  <2> QED
    BY <2>1, Keys
<1>3. /\ \A i \in DOMAIN recs : \E g \in W : Alike(recs[i], Bare(g))
      /\ \A g \in W : \E i \in DOMAIN recs : recs[i].key = g.key
      /\ \A g : Bare(g).key = g.key
      /\ f \in W
  BY DEF Bare
<1> HIDE DEF W, d
<1>4. \A i \in DOMAIN recs : \E j \in DOMAIN d : Alike(recs[i], d[j])
  BY <1>1, <1>3
<1>5. \A j \in DOMAIN d : \E i \in DOMAIN recs : Alike(d[j], recs[i])
  <2> SUFFICES ASSUME NEW j \in DOMAIN d PROVE \E i \in DOMAIN recs : Alike(d[j], recs[i])
    OBVIOUS
  <2>1. PICK g \in W : d[j] = Bare(g)
    BY <1>1
  <2>2. PICK i \in DOMAIN recs : recs[i].key = g.key
    BY <1>3
  <2>3. PICK h \in W : Alike(recs[i], Bare(h))
    BY <1>3
  <2>4. h = g
    <3>1. recs[i].key = Bare(h).key
      BY <2>3 DEF Alike
    <3>2. h.key = g.key
      BY <1>3, <2>2, <3>1
    <3> QED
      BY <1>2, <3>2
  <2> QED
    BY <2>1, <2>3, <2>4 DEF Alike
<1>6. CanonicalRoot(recs, r) = CanonicalRoot(d, Bare(f))
  BY <1>1, <1>4, <1>5, SpellingUnordered
<1> QED
  BY <1>6 DEF d, Spelled


-----------------------------------------------------------------------------
(* The best spelling exists *)

\* Of some integers in a row, one is the greatest.
LEMMA GreatestInRow ==
  ASSUME NEW n \in Nat \ {0}, NEW f, \A i \in 1 .. n : f[i] \in Int
  PROVE  \E k \in 1 .. n : \A i \in 1 .. n : f[i] <= f[k]
<1> DEFINE Bad == {m \in 1 .. n : ~ \E k \in 1 .. m : \A i \in 1 .. m : f[i] <= f[k]}
<1>1. SUFFICES ASSUME Bad # {} PROVE FALSE
  <2>1. n \in 1 .. n
    OBVIOUS
  <2> QED
    BY <2>1
<1>2. Bad \in SUBSET Nat /\ Bad \in SUBSET (1 .. n)
  OBVIOUS
<1>3. PICK m \in Bad : \A l \in Bad : m <= l
  <2> HIDE DEF Bad
  <2> QED
    BY <1>1, <1>2, Least
<1>4. m \in 1 .. n /\ ~ \E k \in 1 .. m : \A i \in 1 .. m : f[i] <= f[k]
  OBVIOUS
<1>5. m # 1
  <2>1. ASSUME m = 1 PROVE FALSE
    <3>1. f[1] \in Int /\ 1 \in 1 .. 1 /\ \A i \in 1 .. 1 : i = 1
      OBVIOUS
    <3>2. \A i \in 1 .. 1 : f[i] <= f[1]
      BY <3>1
    <3> QED
      BY <1>4, <2>1, <3>1, <3>2
  <2> QED
    BY <2>1
<1>6. m - 1 \in 1 .. n /\ m - 1 \notin Bad
  <2>1. m - 1 \in 1 .. n /\ ~(m <= m - 1)
    BY <1>4, <1>5
  <2> HIDE DEF Bad
  <2> QED
    BY <1>3, <2>1
<1>7. PICK k \in 1 .. m - 1 : \A i \in 1 .. m - 1 : f[i] <= f[k]
  BY <1>6
<1> HIDE DEF Bad
<1>8. k \in 1 .. m /\ m \in 1 .. m /\ f[k] \in Int /\ f[m] \in Int
  BY <1>4, <1>7
<1>9. \A i \in 1 .. m : i = m \/ i \in 1 .. m - 1
  BY <1>4
<1>10. \A i \in 1 .. m - 1 : f[i] \in Int
  BY <1>4
<1>11. CASE f[m] <= f[k]
  <2>1. \A i \in 1 .. m : f[i] <= f[k]
    BY <1>7, <1>9, <1>11
  <2> QED
    BY <1>4, <1>8, <2>1
<1>12. CASE f[k] <= f[m]
  <2>1. \A i \in 1 .. m - 1 : f[i] <= f[m]
    BY <1>7, <1>8, <1>10, <1>12
  <2>2. \A i \in 1 .. m : f[i] <= f[m]
    BY <1>8, <1>9, <2>1
  <2> QED
    BY <1>4, <1>8, <2>2
<1> QED
  BY <1>8, <1>11, <1>12

\* In a finite set with a row of distinct ranks one is above all others.
LEMMA Greatest ==
  ASSUME NEW V, IsFiniteSet(V), V # {}, NEW f, \A v \in V : f[v] \in Int
  PROVE  \E v \in V : \A w \in V : f[w] <= f[v]
<1>1. PICK n \in Nat : \E g : g \in Bijection(1 .. n, V)
  BY FS_NatBijection DEF ExistsBijection
<1>2. PICK g : g \in Bijection(1 .. n, V)
  BY <1>1
<1>3. g \in [1 .. n -> V] /\ \A v \in V : \E i \in 1 .. n : g[i] = v
  BY <1>2 DEF Bijection, Surjection
<1>4. n # 0
  BY <1>3
<1> DEFINE h == [i \in 1 .. n |-> f[g[i]]]
<1>5. \A i \in 1 .. n : h[i] \in Int
  BY <1>3
<1>6. PICK k \in 1 .. n : \A i \in 1 .. n : h[i] <= h[k]
  <2> HIDE DEF h
  <2> QED
    BY <1>4, <1>5, GreatestInRow
<1>7. \A w \in V : f[w] <= f[g[k]]
  BY <1>3, <1>6
<1> QED
  BY <1>3, <1>7

\* Among finitely many merits that differ, one is better than all others.
LEMMA OneIsBest ==
  ASSUME NEW V, IsFiniteSet(V), V # {}, NEW m,
         \A v \in V : \A i \in 1 .. 4 : m[v][i] \in Int,
         \A v, w \in V : m[v][4] = m[w][4] => v = w
  PROVE  \E v \in V : \A w \in V \ {v} : BetterRootCasing(m[v], m[w])
<1> DEFINE f1 == [v \in V |-> m[v][1]]
           f2 == [v \in V |-> m[v][2]]
           f3 == [v \in V |-> m[v][3]]
           f4 == [v \in V |-> m[v][4]]
<1>1. /\ \A v \in V : f1[v] \in Int /\ f2[v] \in Int /\ f3[v] \in Int /\ f4[v] \in Int
  OBVIOUS
<1>2. PICK v1 \in V : \A w \in V : f1[w] <= f1[v1]
  <2> HIDE DEF f1
  <2> QED
    BY <1>1, Greatest
<1> DEFINE V2 == {v \in V : f1[v] = f1[v1]}
<1>3. IsFiniteSet(V2) /\ V2 # {} /\ V2 \in SUBSET V
  BY FS_Subset
<1>4. PICK v2 \in V2 : \A w \in V2 : f2[w] <= f2[v2]
  <2> HIDE DEF f1, f2, V2
  <2> QED
    BY <1>1, <1>3, Greatest
<1> DEFINE V3 == {v \in V2 : f2[v] = f2[v2]}
<1>5. IsFiniteSet(V3) /\ V3 # {} /\ V3 \in SUBSET V
  <2>1. V3 \in SUBSET V2 /\ v2 \in V3
    OBVIOUS
  <2> HIDE DEF V2, V3
  <2> QED
    BY <1>3, <2>1, FS_Subset
<1>6. PICK v3 \in V3 : \A w \in V3 : f3[w] <= f3[v3]
  <2> HIDE DEF f1, f2, f3, V2, V3
  <2> QED
    BY <1>1, <1>5, Greatest
<1> DEFINE V4 == {v \in V3 : f3[v] = f3[v3]}
<1>7. IsFiniteSet(V4) /\ V4 # {} /\ V4 \in SUBSET V
  <2>1. V4 \in SUBSET V3 /\ v3 \in V4
    OBVIOUS
  <2> HIDE DEF V2, V3, V4
  <2> QED
    BY <1>5, <2>1, FS_Subset
<1>8. PICK v \in V4 : \A w \in V4 : f4[w] <= f4[v]
  <2> HIDE DEF f1, f2, f3, f4, V2, V3, V4
  <2> QED
    BY <1>1, <1>7, Greatest
<1>9. /\ v \in V /\ f1[v] = f1[v1] /\ f2[v] = f2[v2] /\ f3[v] = f3[v3]
  BY <1>8
<1>10. ASSUME NEW w \in V \ {v} PROVE BetterRootCasing(m[v], m[w])
  <2>1. f4[v] # f4[w]
    BY <1>9, <1>10
  <2>2. f1[w] <= f1[v]
    BY <1>2, <1>9
  <2>3. f1[w] = f1[v] => f2[w] <= f2[v]
    <3>1. ASSUME f1[w] = f1[v] PROVE w \in V2
      BY <1>9, <3>1
    <3> HIDE DEF V2, f1
    <3> QED
      BY <1>4, <1>9, <3>1
  <2>4. f1[w] = f1[v] /\ f2[w] = f2[v] => f3[w] <= f3[v]
    <3>1. ASSUME f1[w] = f1[v] /\ f2[w] = f2[v] PROVE w \in V3
      BY <1>9, <3>1
    <3> HIDE DEF V2, V3, f1, f2
    <3> QED
      BY <1>6, <1>9, <3>1
  <2>5. f1[w] = f1[v] /\ f2[w] = f2[v] /\ f3[w] = f3[v] => f4[w] <= f4[v]
    <3>1. ASSUME f1[w] = f1[v] /\ f2[w] = f2[v] /\ f3[w] = f3[v] PROVE w \in V4
      BY <1>9, <3>1
    <3> HIDE DEF V2, V3, V4, f1, f2, f3
    <3> QED
      BY <1>8, <1>9, <3>1
  <2>6. /\ f1[w] \in Int /\ f2[w] \in Int /\ f3[w] \in Int /\ f4[w] \in Int
        /\ f1[v] \in Int /\ f2[v] \in Int /\ f3[v] \in Int /\ f4[v] \in Int
    BY <1>1, <1>9
  <2>7. /\ f1[w] = m[w][1] /\ f2[w] = m[w][2] /\ f3[w] = m[w][3] /\ f4[w] = m[w][4]
        /\ f1[v] = m[v][1] /\ f2[v] = m[v][2] /\ f3[v] = m[v][3] /\ f4[v] = m[v][4]
    BY <1>9
  <2> HIDE DEF f1, f2, f3, f4
  <2>8. \/ f1[v] > f1[w]
        \/ f1[v] = f1[w] /\ f2[v] > f2[w]
        \/ f1[v] = f1[w] /\ f2[v] = f2[w] /\ f3[v] > f3[w]
        \/ f1[v] = f1[w] /\ f2[v] = f2[w] /\ f3[v] = f3[w] /\ f4[v] > f4[w]
    BY <2>1, <2>2, <2>3, <2>4, <2>5, <2>6
  <2>9. \/ m[v][1] > m[w][1]
        \/ m[v][1] = m[w][1] /\ m[v][2] > m[w][2]
        \/ m[v][1] = m[w][1] /\ m[v][2] = m[w][2] /\ m[v][3] > m[w][3]
        \/ m[v][1] = m[w][1] /\ m[v][2] = m[w][2] /\ m[v][3] = m[w][3] /\ m[v][4] > m[w][4]
    BY <2>7, <2>8
  <2>10. 1 .. 1 - 1 = {} /\ 1 .. 2 - 1 = {1} /\ 1 .. 3 - 1 = {1, 2} /\ 1 .. 4 - 1 = {1, 2, 3}
    OBVIOUS
  <2> QED
    BY <2>9, <2>10 DEF BetterRootCasing
<1> QED
  BY <1>9, <1>10

\* Two roots are first used by different keys, so no two merits are equal.
LEMMA FirstOfKeys ==
  ASSUME NEW recs, IsSequence(recs), \A i \in DOMAIN recs : recs[i].key \in Int,
         NEW media, NEW v, Uses(recs, media, v) # {}
  PROVE  \E i \in Uses(recs, media, v) : FirstKey(recs, media, v) = recs[i].key
<1> DEFINE U == Uses(recs, media, v)
           f == [i \in U |-> 0 - recs[i].key]
<1>1. IsFiniteSet(U) /\ U \in SUBSET DOMAIN recs
  BY SeqFinite, FS_Subset DEF Uses
<1>2. \A i \in U : f[i] \in Int
  BY <1>1
<1>3. PICK i \in U : \A j \in U : f[j] <= f[i]
  <2>1. U # {}
    OBVIOUS
  <2> HIDE DEF f, U
  <2> QED
    BY <1>1, <1>2, <2>1, Greatest
<1>4. \A j \in U : recs[i].key <= recs[j].key
  <2> SUFFICES ASSUME NEW j \in U PROVE recs[i].key <= recs[j].key
    OBVIOUS
  <2>1. f[j] <= f[i] /\ f[j] = 0 - recs[j].key /\ f[i] = 0 - recs[i].key
    BY <1>3
  <2>2. recs[i].key \in Int /\ recs[j].key \in Int
    BY <1>1
  <2> HIDE DEF f, U
  <2> QED
    BY <2>1, <2>2
<1> DEFINE K == {recs[j].key : j \in U}
<1>5. recs[i].key \in K
  OBVIOUS
<1>6. FirstKey(recs, media, v) = CHOOSE k \in K : \A j \in U : k <= recs[j].key
  BY DEF FirstKey
<1>7. FirstKey(recs, media, v) \in K
  <2> HIDE DEF K
  <2> QED
    BY <1>4, <1>5, <1>6
<1> QED
  BY <1>7

\* The sum over the letters of a text.
LEMMA ScoreIsInteger == ASSUME NEW v, IsSequence(v) PROVE TitleLikeScore(v) \in Int
<1> DEFINE S == Lettered(v)
           f == [i \in S |-> Letters[v[i]].score]
<1>1. IsFiniteSet(S)
  <2>1. S \in SUBSET DOMAIN v
    BY DEF Lettered
  <2> QED
    BY <2>1, SeqFinite, FS_Subset
<1>2. \A i \in S : f[i] \in Int
  BY NamesAssumption DEF Lettered
<1>3. TitleLikeScore(v) = SumFunctionOnSet(f, S)
  BY DEF TitleLikeScore
<1> HIDE DEF f, S
<1> QED
  BY <1>1, <1>2, <1>3, SumInteger

\* What is chosen for a folder is one of its spellings: no two are equally good.
LEMMA BestSpelling ==
  ASSUME NEW recs, IsSequence(recs), Distinct(recs),
         \A i \in DOMAIN recs : recs[i].key \in Int /\ IsSequence(recs[i].root),
         NEW r, Variants(recs, r) # {}
  PROVE  CanonicalRoot(recs, r) \in Variants(recs, r)
<1> DEFINE V == Variants(recs, r)
           m == [v \in V |-> Merit(recs, r.media, v)]
<1>1. \A v \in V : IsSequence(v) /\ Uses(recs, r.media, v) # {}
  BY DEF Variants, Uses, ToSet
<1>2. IsFiniteSet(V)
  <2> DEFINE I == {i \in DOMAIN recs :
                     recs[i].media = r.media /\ Folded(recs[i].root) = Folded(r.root)}
             f == [i \in I |-> recs[i].root]
  <2>1. f \in Surjection(I, V)
    BY DEF Variants, ToSet, Surjection
  <2>2. I \in SUBSET DOMAIN recs
    OBVIOUS
  <2> HIDE DEF I, f, V
  <2>3. IsFiniteSet(I)
    BY <2>2, SeqFinite, FS_Subset
  <2> QED
    BY <2>1, <2>3, FS_Surjection
<1>3. ASSUME NEW v \in V
      PROVE  /\ \E i \in Uses(recs, r.media, v) : FirstKey(recs, r.media, v) = recs[i].key
             /\ FirstKey(recs, r.media, v) \in Int
             /\ Cardinality(Uses(recs, r.media, v)) \in Nat
  <2> DEFINE U == Uses(recs, r.media, v)
  <2>1. U # {} /\ U \in SUBSET DOMAIN recs
    BY <1>1 DEF Uses
  <2>2. \A i \in DOMAIN recs : recs[i].key \in Int
    OBVIOUS
  <2>3. \E i \in U : FirstKey(recs, r.media, v) = recs[i].key
    BY <2>1, <2>2, FirstOfKeys
  <2>4. IsFiniteSet(U)
    BY <2>1, SeqFinite, FS_Subset
  <2> HIDE DEF U
  <2>5. Cardinality(U) \in Nat
    BY <2>4, FS_CardinalityType
  <2> QED
    BY <2>1, <2>2, <2>3, <2>5 DEF U
<1>4. ASSUME NEW v \in V, NEW i \in 1 .. 4 PROVE m[v][i] \in Int
  <2>1. CasingClass(v) \in Int
    BY DEF CasingClass
  <2>2. TitleLikeScore(v) \in Int
    BY <1>1, ScoreIsInteger
  <2>3. /\ Cardinality(Uses(recs, r.media, v)) \in Int
        /\ 0 - FirstKey(recs, r.media, v) \in Int
    BY <1>3
  <2>4. m[v] = <<CasingClass(v), TitleLikeScore(v), Cardinality(Uses(recs, r.media, v)),
                 0 - FirstKey(recs, r.media, v)>>
    BY DEF Merit
  <2>5. i = 1 \/ i = 2 \/ i = 3 \/ i = 4
    OBVIOUS
  <2> HIDE DEF m, V
  <2> QED
    BY <2>1, <2>2, <2>3, <2>4, <2>5
<1>5. ASSUME NEW v \in V, NEW w \in V, m[v][4] = m[w][4] PROVE v = w
  <2>1. m[v][4] = 0 - FirstKey(recs, r.media, v) /\ m[w][4] = 0 - FirstKey(recs, r.media, w)
    BY DEF Merit
  <2> HIDE DEF V, m
  <2>2. FirstKey(recs, r.media, v) \in Int /\ FirstKey(recs, r.media, w) \in Int
    BY <1>3
  <2>3. FirstKey(recs, r.media, v) = FirstKey(recs, r.media, w)
    <3> DEFINE a == FirstKey(recs, r.media, v)
               b == FirstKey(recs, r.media, w)
    <3>1. 0 - a = 0 - b /\ a \in Int /\ b \in Int
      BY <1>5, <2>1, <2>2
    <3> HIDE DEF a, b
    <3>2. a = b
      BY <3>1
    <3> QED
      BY <3>2 DEF a, b
  <2>4. PICK i \in Uses(recs, r.media, v) : FirstKey(recs, r.media, v) = recs[i].key
    BY <1>3
  <2>5. PICK j \in Uses(recs, r.media, w) : FirstKey(recs, r.media, w) = recs[j].key
    BY <1>3
  <2>6. i \in DOMAIN recs /\ j \in DOMAIN recs /\ recs[i].root = v /\ recs[j].root = w
    BY DEF Uses
  <2>7. i = j
    BY <2>3, <2>4, <2>5, <2>6 DEF Distinct
  <2> QED
    BY <2>6, <2>7
<1>6. V # {}
  OBVIOUS
<1>7. \E v \in V : \A w \in V \ {v} : BetterRootCasing(m[v], m[w])
  <2> HIDE DEF V, m
  <2> QED
    BY <1>2, <1>4, <1>5, <1>6, OneIsBest
<1>8. \E v \in V : \A w \in V \ {v} :
        BetterRootCasing(Merit(recs, r.media, v), Merit(recs, r.media, w))
  BY <1>7
<1> HIDE DEF m
<1> QED
  BY <1>8 DEF CanonicalRoot

\* The casing changes letters only.
LEMMA SpelledFolds ==
  ASSUME NEW c \in Catalogs, NEW s \in Sources, NEW h \in Wanted(c, s, "video")
  PROVE  Folded(Spelled(c, s, h)) = Folded(Classify(h).root)
<1> DEFINE d == Delivery(c, s)
           W == Wanted(c, s, "video")
<1>1. /\ IsSequence(d) /\ Distinct(d)
      /\ \A i \in DOMAIN d : \E f \in W : d[i] = Bare(f)
      /\ \A f \in W : \E i \in DOMAIN d : d[i] = Bare(f)
  BY DeliveryIs
<1>2. \A f \in W : f.key \in Int
  BY Keys DEF Wanted
<1>3. \A f \in W : IsSequence(Classify(f).root)
  BY FilesAreNamed, RootsAreSequences
<1>4. \A i \in DOMAIN d : d[i].key \in Int /\ IsSequence(d[i].root)
  <2> HIDE DEF d, W
  <2> QED
    BY <1>1, <1>2, <1>3 DEF Bare
<1> HIDE DEF d
<1>5. Variants(d, Bare(h)) # {}
  <2>1. PICK i \in DOMAIN d : d[i] = Bare(h)
    BY <1>1
  <2> QED
    BY <2>1 DEF Variants, ToSet
<1>6. CanonicalRoot(d, Bare(h)) \in Variants(d, Bare(h))
  BY <1>1, <1>4, <1>5, BestSpelling
<1>7. \A v \in Variants(d, Bare(h)) : Folded(v) = Folded(Bare(h).root)
  BY DEF Variants
<1> QED
  BY <1>6, <1>7 DEF Spelled, d, Bare

\* Folders that differ only by case get one spelling.
LEMMA SpelledAlike ==
  ASSUME NEW c \in Catalogs, NEW s \in Sources,
         NEW f \in Wanted(c, s, "video"), NEW g \in Wanted(c, s, "video"),
         Classify(f).media = Classify(g).media,
         Folded(Spelled(c, s, f)) = Folded(Spelled(c, s, g))
  PROVE  Spelled(c, s, f) = Spelled(c, s, g)
<1> DEFINE d == Delivery(c, s)
<1>1. Folded(Bare(f).root) = Folded(Bare(g).root) /\ Bare(f).media = Bare(g).media
  BY SpelledFolds DEF Bare
<1>2. Variants(d, Bare(f)) = Variants(d, Bare(g))
  BY <1>1 DEF Variants
<1>3. CanonicalRoot(d, Bare(f)) = CanonicalRoot(d, Bare(g))
  BY <1>1, <1>2 DEF CanonicalRoot
<1> QED
  BY <1>3 DEF Spelled

-----------------------------------------------------------------------------
(* Loops *)

\* A round of the loop over a group of duplicates, and of the loop of Build.
Step(kind, g, x) == IF kind = "label" THEN LabelOne(g, x) ELSE AddFile(g, x)
Fold(kind, base, seq) ==
  IF kind = "label" THEN FoldLeft(LabelOne, base, seq) ELSE FoldLeft(AddFile, base, seq)

\* The loop over the places of seq, up to each set of them.
Rounds(kind, base, seq, S, g) ==
  g = [s \in SUBSET S |->
         IF s = {} THEN base ELSE Step(kind, g[s \ {Max(s)}], seq[Max(s)])]

\* The library's definition is such a function.
LEMMA RoundsDefinition ==
  ASSUME NEW kind \in {"label", "file"}, NEW base, NEW seq
  PROVE  Fold(kind, base, seq) =
           (CHOOSE g : Rounds(kind, base, seq, DOMAIN seq, g))[DOMAIN seq]
<1>1. CASE kind = "label"
  BY <1>1 DEF FoldLeft, MapThenFoldSet, Rounds, Step, Fold
<1>2. CASE kind = "file"
  BY <1>2 DEF FoldLeft, MapThenFoldSet, Rounds, Step, Fold
<1> QED
  BY <1>1, <1>2

\* Two such functions agree wherever both are defined.
LEMMA RoundsAgree ==
  ASSUME NEW kind, NEW base, NEW seq, NEW S, IsFiniteSet(S), LastIn(S), NEW A \in SUBSET S,
         NEW g, Rounds(kind, base, seq, S, g), NEW h, Rounds(kind, base, seq, A, h)
  PROVE  \A s \in SUBSET A : g[s] = h[s]
<1> DEFINE B == {s \in SUBSET A : g[s] # h[s]}
<1>1. SUFFICES ASSUME B # {} PROVE FALSE
  OBVIOUS
<1>2. PICK T \in B : \A U \in B : U \subseteq T => U = T
  <2>1. B \in SUBSET SUBSET S
    OBVIOUS
  <2> HIDE DEF B
  <2> QED
    BY <1>1, <2>1, SmallestSubset
<1>3. T \in SUBSET A /\ T \in SUBSET S /\ g[T] # h[T]
  OBVIOUS
<1>4. T # {}
  BY <1>3 DEF Rounds
<1>5. Max(T) \in T
  BY <1>3, <1>4 DEF LastIn
<1>6. g[T \ {Max(T)}] = h[T \ {Max(T)}]
  <2>1. T \ {Max(T)} \notin B
    BY <1>2, <1>5
  <2> QED
    BY <1>3, <2>1
<1>7. /\ g[T] = Step(kind, g[T \ {Max(T)}], seq[Max(T)])
      /\ h[T] = Step(kind, h[T \ {Max(T)}], seq[Max(T)])
  BY <1>3, <1>4 DEF Rounds
<1> QED
  BY <1>3, <1>6, <1>7

\* There is such a function for every finite set of places.
LEMMA RoundsExist ==
  ASSUME NEW kind, NEW base, NEW seq, NEW S, IsFiniteSet(S), LastIn(S)
  PROVE  \E g : Rounds(kind, base, seq, S, g)
<1> DEFINE B == {A \in SUBSET S : ~ \E g : Rounds(kind, base, seq, A, g)}
<1>1. SUFFICES ASSUME B # {} PROVE FALSE
  OBVIOUS
<1>2. PICK T \in B : \A U \in B : U \subseteq T => U = T
  <2>1. B \in SUBSET SUBSET S
    OBVIOUS
  <2> HIDE DEF B
  <2> QED
    BY <1>1, <2>1, SmallestSubset
<1>3. T \in SUBSET S /\ ~ \E g : Rounds(kind, base, seq, T, g)
  OBVIOUS
<1> DEFINE G(s) == CHOOSE g : Rounds(kind, base, seq, s, g)
           less(s) == s \ {Max(s)}
           h == [s \in SUBSET T |-> IF s = {} THEN base
                                    ELSE Step(kind, G(less(s))[less(s)], seq[Max(s)])]
<1>4. \A s \in SUBSET T : s # T => Rounds(kind, base, seq, s, G(s))
  <2> SUFFICES ASSUME NEW s \in SUBSET T, s # T PROVE Rounds(kind, base, seq, s, G(s))
    OBVIOUS
  <2>1. s \notin B /\ s \in SUBSET S
    BY <1>2, <1>3
  <2>2. \E g : Rounds(kind, base, seq, s, g)
    BY <2>1
  <2> QED
    BY <2>2
<1> HIDE DEF B, G
<1>5. \A s \in SUBSET T : IsFiniteSet(s) /\ LastIn(s)
  BY <1>3, FS_Subset DEF LastIn
<1>6. \A s \in SUBSET T : s # {} => Max(s) \in s
  BY <1>3 DEF LastIn
<1>7. \A s \in SUBSET T : s # {} => less(s) \in SUBSET s /\ less(s) \in SUBSET T /\ less(s) # T
  BY <1>6
<1> HIDE DEF less
<1>8. \A s \in SUBSET T : s # T => G(s)[s] = h[s]
  <2> SUFFICES ASSUME NEW s \in SUBSET T, s # T PROVE G(s)[s] = h[s]
    OBVIOUS
  <2>1. CASE s = {}
    BY <1>4, <2>1 DEF Rounds
  <2>2. CASE s # {}
    <3>1. G(s)[s] = Step(kind, G(s)[less(s)], seq[Max(s)])
      BY <1>4, <2>2 DEF Rounds, less
    <3>2. G(s)[less(s)] = G(less(s))[less(s)]
      <4>1. Rounds(kind, base, seq, s, G(s)) /\ Rounds(kind, base, seq, less(s), G(less(s)))
        BY <1>4, <1>7, <2>2
      <4>2. IsFiniteSet(s) /\ LastIn(s) /\ less(s) \in SUBSET s
        BY <1>5, <1>7, <2>2
      <4> QED
        BY <4>1, <4>2, RoundsAgree
    <3> QED
      BY <2>2, <3>1, <3>2
  <2> QED
    BY <2>1, <2>2
<1>9. \A s \in SUBSET T : s # {} => G(less(s))[less(s)] = h[less(s)]
  <2> HIDE DEF h
  <2> QED
    BY <1>7, <1>8
<1>10. h = [s \in SUBSET T |-> IF s = {} THEN base ELSE Step(kind, h[less(s)], seq[Max(s)])]
  <2> DEFINE k == [s \in SUBSET T |-> IF s = {} THEN base
                                      ELSE Step(kind, h[less(s)], seq[Max(s)])]
  <2>1. \A s \in SUBSET T : h[s] = k[s]
    BY <1>9
  <2> QED
    BY <2>1
<1>11. Rounds(kind, base, seq, T, h)
  BY <1>10 DEF Rounds, less
<1> QED
  BY <1>3, <1>11

\* The loop goes over the sequence from its start, one round for each place.
LEMMA Running ==
  ASSUME NEW kind \in {"label", "file"}, NEW base, NEW seq, IsSequence(seq)
  PROVE  \E h : /\ h[0] = base /\ h[Len(seq)] = Fold(kind, base, seq)
                /\ \A n \in 1 .. Len(seq) : h[n] = Step(kind, h[n - 1], seq[n])
<1> DEFINE S == DOMAIN seq
           g == CHOOSE f : Rounds(kind, base, seq, S, f)
           h == [n \in 0 .. Len(seq) |-> g[1 .. n]]
<1>1. Len(seq) \in Nat /\ S = 1 .. Len(seq)
  BY SeqDomain
<1>2. IsFiniteSet(S) /\ LastIn(S)
  BY <1>1, SeqFinite, MaxIn DEF LastIn
<1>3. Rounds(kind, base, seq, S, g)
  <2> HIDE DEF S
  <2>1. \E f : Rounds(kind, base, seq, S, f)
    BY <1>2, RoundsExist
  <2> QED
    BY <2>1
<1>4. Fold(kind, base, seq) = g[S]
  BY RoundsDefinition
<1> HIDE DEF g, S
<1>5. h[0] = base
  <2>1. 1 .. 0 = {} /\ {} \in SUBSET S /\ 0 \in 0 .. Len(seq)
    BY <1>1
  <2> QED
    BY <1>3, <2>1 DEF Rounds
<1>6. h[Len(seq)] = Fold(kind, base, seq)
  <2>1. Len(seq) \in 0 .. Len(seq)
    BY <1>1
  <2> QED
    BY <1>1, <1>4, <2>1
<1>7. ASSUME NEW n \in 1 .. Len(seq) PROVE h[n] = Step(kind, h[n - 1], seq[n])
  <2>1. n \in Nat /\ n \in 0 .. Len(seq) /\ n - 1 \in 0 .. Len(seq)
    BY <1>1
  <2>2. 1 .. n # {} /\ 1 .. n \in SUBSET S /\ (1 .. n) \ {n} = 1 .. (n - 1)
    <3>1. 1 .. n # {} /\ 1 .. n \in SUBSET S
      BY <1>1, <2>1
    <3>2. \A m : m \in (1 .. n) \ {n} <=> m \in 1 .. (n - 1)
      BY <2>1
    <3> QED
      BY <3>1, <3>2
  <2>3. Max(1 .. n) = n
    <3>1. Max(1 .. n) = CHOOSE x \in 1 .. n : \A y \in 1 .. n : x >= y
      BY DEF Max
    <3>2. n \in 1 .. n /\ \A x \in 1 .. n : (\A y \in 1 .. n : x >= y) <=> x = n
      BY <1>1
    <3> QED
      BY <3>1, <3>2
  <2>4. g[1 .. n] = Step(kind, g[1 .. (n - 1)], seq[n])
    BY <1>3, <2>2, <2>3 DEF Rounds
  <2> QED
    BY <2>1, <2>4
<1> HIDE DEF h
<1> QED
  BY <1>5, <1>6, <1>7

-----------------------------------------------------------------------------
(* ApplyPlexVersionNaming *)

\* A round changes a name, and nothing else of a record.
SameButName(r, q) == DOMAIN r = Others \cup {"name"} /\ \A x \in Others : r[x] = q[x]

Renamed(recs, old) ==
  /\ IsSequence(recs) /\ DOMAIN recs = DOMAIN old
  /\ \A i \in DOMAIN old : SameButName(recs[i], old[i]) /\ Worded(recs[i])

\* One round of the loop changes the name of one record and nothing else.
LEMMA RoundRenames ==
  ASSUME NEW g, NEW i, NEW old, Renamed(g.recs, old) PROVE Renamed(LabelOne(g, i).recs, old)
<1> DEFINE t == LabelOne(g, i).recs
           r == g.recs[i]
           fresh == FreshLabel(g, r)
<1>1. PICK label \in {fresh, Dashed(fresh, ShortStableID(r))} :
        t = [g.recs EXCEPT ![i].name = Labelled(r, label)]
  BY DEF LabelOne, Relabel
<1> DEFINE n == Labelled(r, label)
<1>0. Worded(r) => IsSequence(n) /\ n # <<>>
  <2> SUFFICES ASSUME Worded(r) PROVE IsSequence(n) /\ n # <<>>
    OBVIOUS
  <2>1. IsSequence(fresh) /\ IsSequence(ShortStableID(r))
    BY Labels
  <2>2. IsSequence(label)
    BY <2>1, DashedTexts
  <2> QED
    BY <2>2, LabelledNames
<1> HIDE DEF n, fresh
<1> HIDE DEF t
<1>2. DOMAIN t = DOMAIN g.recs /\ t = [j \in DOMAIN g.recs |-> t[j]]
  BY <1>1
<1>3. IsSequence(t)
  <2>1. Len(g.recs) \in Nat /\ DOMAIN g.recs = 1 .. Len(g.recs)
    BY SeqDomain DEF Renamed
  <2> QED
    BY <1>2, <2>1, SeqMade
<1>4. \A j \in DOMAIN old : SameButName(t[j], old[j])
  <2> SUFFICES ASSUME NEW j \in DOMAIN old PROVE SameButName(t[j], old[j])
    OBVIOUS
  <2>1. DOMAIN g.recs[j] = Others \cup {"name"} /\ \A x \in Others : g.recs[j][x] = old[j][x]
    BY DEF Renamed, SameButName
  <2>2. t[j] = g.recs[j] \/ t[j] = [g.recs[j] EXCEPT !.name = n]
    BY <1>1 DEF Renamed, n
  <2>3. "name" \notin Others
    BY DEF Others
  <2> QED
    BY <2>1, <2>2, <2>3 DEF SameButName
<1>5. \A j \in DOMAIN old : Worded(t[j])
  <2> SUFFICES ASSUME NEW j \in DOMAIN old PROVE Worded(t[j])
    OBVIOUS
  <2>1. /\ DOMAIN g.recs[j] = Others \cup {"name"} /\ Worded(g.recs[j])
        /\ j \in DOMAIN g.recs
    BY DEF Renamed, SameButName
  <2>2. t[j] = g.recs[j] \/ (j = i /\ t[j] = [g.recs[j] EXCEPT !.name = n])
    BY <1>1, <2>1 DEF n
  <2>3. CASE j = i /\ t[j] = [g.recs[j] EXCEPT !.name = n]
    <3>1. t[j].name = n /\ t[j].tech = g.recs[j].tech /\ t[j].stems = g.recs[j].stems
      BY <2>1, <2>3 DEF Others
    <3>2. IsSequence(n) /\ n # <<>>
      BY <1>0, <2>1, <2>3
    <3> QED
      BY <2>1, <3>1, <3>2 DEF Worded
  <2> QED
    BY <2>1, <2>2, <2>3
<1> QED
  BY <1>2, <1>3, <1>4, <1>5 DEF Renamed, t

\* So do all rounds over a group.
LEMMA RoundsRename ==
  ASSUME NEW base, NEW seq, IsSequence(seq), NEW old, Renamed(base.recs, old)
  PROVE  Renamed(FoldLeft(LabelOne, base, seq).recs, old)
<1>1. PICK h : /\ h[0] = base /\ h[Len(seq)] = Fold("label", base, seq)
               /\ \A n \in 1 .. Len(seq) : h[n] = Step("label", h[n - 1], seq[n])
  BY Running
<1>2. Len(seq) \in Nat
  BY SeqDomain
<1> DEFINE B == {n \in 0 .. Len(seq) : ~Renamed(h[n].recs, old)}
<1>3. ASSUME B # {} PROVE FALSE
  <2>1. PICK n \in B : \A m \in B : n <= m
    <3>1. B \in SUBSET Nat
      BY <1>2
    <3> HIDE DEF B
    <3> QED
      BY <1>3, <3>1, Least
  <2>2. n \in 1 .. Len(seq)
    BY <1>1, <1>2
  <2>3. n - 1 \in 0 .. Len(seq) /\ n - 1 \notin B
    BY <1>2, <2>1, <2>2
  <2>4. h[n] = LabelOne(h[n - 1], seq[n]) /\ Renamed(h[n - 1].recs, old)
    BY <1>1, <2>2, <2>3 DEF Step
  <2>5. Renamed(h[n].recs, old)
    BY <2>4, RoundRenames
  <2> QED
    BY <2>1, <2>5
<1> QED
  BY <1>1, <1>2, <1>3 DEF Fold

-----------------------------------------------------------------------------
(* The steps *)

\* One lemma for each action.
LEMMA InitIInv == Init => IInv
<1> SUFFICES ASSUME Init PROVE IInv
  OBVIOUS
<1>1. catalog \in Catalogs /\ src = 1 /\ 1 \in Sources /\ phase = "collect"
  BY MediaAssumption DEF Init, Sources
<1>2. IsSequence(<<>>) /\ DOMAIN <<>> = {}
  <2>1. <<>> \in Seq({}) /\ DOMAIN <<>> = {}
    OBVIOUS
  <2> QED
    BY <2>1, SeqTyped
<1>3. jobs = ListedIn(catalog, 1, "video")
  BY DEF Init, Listed
<1>4. /\ IsSequence(jobs) /\ ToSet(jobs) = Videos
      /\ \A m, n \in DOMAIN jobs : jobs[m] = jobs[n] => m = n
  BY <1>1, <1>3, Listing DEF Videos
<1>5. State
  BY <1>1, <1>2, <1>4 DEF State, Init, Distinct
<1>6. Queued
  BY <1>4 DEF Queued, ToSet
<1>7. InHand
  BY DEF Init, InHand
<1>8. Delivered
  BY <1>2 DEF Init, Delivered
<1>9. NoneLost
  BY <1>4 DEF NoneLost
<1>10. DoneRecords
  <2>1. DoneSources = {}
    BY <1>1 DEF DoneSources
  <2> QED
    BY <1>2, <2>1 DEF DoneRecords, AllBeside, Ascending, Init
<1>11. Before
  BY <1>2 DEF Before, Init
<1> QED
  BY <1>5, <1>6, <1>7, <1>8, <1>9, <1>10, <1>11 DEF IInv

\* What is said of the sources done and of the refresh before.
LEMMA PastKept ==
  ASSUME DoneRecords, Before, UNCHANGED <<catalog, all, earlier>>, DoneSources' = DoneSources
  PROVE  DoneRecords' /\ Before'
  BY DEF DoneRecords, Before

\* A job goes from the feeder to a worker (process.go:41-46).
LEMMA TakeStep == ASSUME IInv, NEW w \in Workers, Take(w) PROVE IInv'
<1>1. /\ phase = "collect" /\ jobs # <<>> /\ held[w] = Idle /\ w \in Workers
      /\ held' = [held EXCEPT ![w] = Head(jobs)] /\ jobs' = Tail(jobs)
      /\ UNCHANGED <<catalog, phase, src, records, pending, used, all, tree, earlier>>
  BY DEF Take
<1>2. State /\ Queued /\ InHand /\ Delivered /\ NoneLost /\ DoneRecords /\ Before
  BY DEF IInv
<1>3. /\ IsSequence(jobs') /\ Len(jobs) \in Nat \ {0} /\ Head(jobs) = jobs[1]
      /\ DOMAIN jobs' = 1 .. Len(jobs) - 1
      /\ \A i \in 1 .. Len(jobs) - 1 : jobs'[i] = jobs[i + 1]
      /\ DOMAIN jobs = 1 .. Len(jobs)
  BY <1>1, <1>2, SeqTail, SeqDomain DEF State
<1>4. \A f : f \in ToSet(jobs') <=> f \in ToSet(jobs) /\ f # jobs[1]
  <2>1. ASSUME NEW f, f \in ToSet(jobs') PROVE f \in ToSet(jobs) /\ f # jobs[1]
    <3>1. PICK i \in 1 .. Len(jobs) - 1 : f = jobs[i + 1]
      BY <1>3, <2>1 DEF ToSet
    <3>2. i + 1 \in 1 .. Len(jobs) /\ i + 1 # 1 /\ 1 \in 1 .. Len(jobs)
      BY <1>3
    <3> QED
      BY <1>2, <1>3, <3>1, <3>2 DEF Queued, ToSet
  <2>2. ASSUME NEW f, f \in ToSet(jobs), f # jobs[1] PROVE f \in ToSet(jobs')
    <3>1. PICK i \in 1 .. Len(jobs) : f = jobs[i]
      BY <1>3, <2>2 DEF ToSet
    <3>2. i - 1 \in 1 .. Len(jobs) - 1 /\ (i - 1) + 1 = i
      BY <1>3, <2>2, <3>1
    <3>3. jobs'[i - 1] = jobs[i]
      BY <1>3, <3>2
    <3> QED
      BY <1>3, <3>1, <3>2, <3>3 DEF ToSet
  <2> QED
    BY <2>1, <2>2
<1>5. 1 \in DOMAIN jobs /\ jobs[1] \in ToSet(jobs) /\ jobs[1] \in Videos /\ Videos' = Videos
  BY <1>1, <1>2, <1>3 DEF Queued, ToSet, Videos
<1>6. jobs[1] # Idle
  <2>1. jobs[1] \in ToSet(catalog[src])
    BY <1>5 DEF Videos, Wanted
  <2> QED
    BY <1>2, <2>1, Keys DEF State
<1>7. \A v \in Workers : held'[v] = IF v = w THEN jobs[1] ELSE held[v]
  BY <1>1, <1>2, <1>3 DEF State
<1>8. State'
  <2>1. held' = [v \in Workers |-> held'[v]]
    BY <1>1, <1>2 DEF State
  <2> QED
    BY <1>1, <1>2, <1>3, <2>1 DEF State
<1>9. Queued'
  <2>1. \A i \in DOMAIN jobs' : i + 1 \in DOMAIN jobs
    BY <1>3
  <2>2. \A i, k \in DOMAIN jobs' : jobs[i + 1] = jobs[k + 1] => i = k
    <3> SUFFICES ASSUME NEW i \in DOMAIN jobs', NEW k \in DOMAIN jobs', jobs[i + 1] = jobs[k + 1]
                 PROVE  i = k
      OBVIOUS
    <3>1. i + 1 = k + 1
      BY <1>2, <2>1 DEF Queued
    <3> QED
      BY <1>3, <3>1
  <2> QED
    BY <1>2, <1>3, <1>5, <2>1, <2>2 DEF Queued
<1>10. InHand'
  BY <1>2, <1>4, <1>5, <1>6, <1>7 DEF InHand
<1>11. Delivered'
  <2> SUFFICES ASSUME NEW i \in DOMAIN records
               PROVE  \E f \in Videos :
                        /\ f \notin ToSet(jobs') /\ \A v \in Workers : held'[v] # f
                        /\ RecordOf(records[i], src, f)
                        /\ DOMAIN records[i] = Others \cup {"name"} /\ Worded(records[i])
                        /\ phase = "collect" => records[i] = BuildVideoRecord(src, f)
                        /\ phase = "label" => CasedRecordOf(records[i], catalog, src, f)
    BY <1>1, <1>5 DEF Delivered
  <2> QED
    BY <1>2, <1>4, <1>5, <1>7 DEF Delivered
<1>12. NoneLost'
  <2> SUFFICES ASSUME NEW f \in Videos
               PROVE  \/ f \in ToSet(jobs') \/ \E v \in Workers : held'[v] = f
                      \/ \E i \in DOMAIN records : records[i].key = f.key
    BY <1>1, <1>5 DEF NoneLost
  <2>1. CASE f \in ToSet(jobs)
    BY <1>1, <1>4, <1>7, <2>1
  <2>2. ASSUME NEW v \in Workers, held[v] = f PROVE held'[v] = f
    <3>1. f # Idle
      BY <1>2, Keys DEF Videos, Wanted, State
    <3> QED
      BY <1>1, <1>7, <2>2, <3>1
  <2> QED
    BY <1>1, <1>2, <2>1, <2>2 DEF NoneLost
<1>13. DoneRecords' /\ Before'
  BY <1>1, <1>2, PastKept DEF DoneSources
<1> QED
  BY <1>8, <1>9, <1>10, <1>11, <1>12, <1>13 DEF IInv

\* A worker delivers the record of the video it holds.
LEMMA DeliverStep == ASSUME IInv, NEW w \in Workers, Deliver(w) PROVE IInv'
<1> DEFINE f == held[w]
           n == Len(records) + 1
<1>1. /\ phase = "collect" /\ f # Idle
      /\ records' = Append(records, BuildVideoRecord(src, f))
      /\ held' = [held EXCEPT ![w] = Idle]
      /\ UNCHANGED <<catalog, phase, src, jobs, pending, used, all, tree, earlier>>
  BY DEF Deliver
<1>2. State /\ Queued /\ InHand /\ Delivered /\ NoneLost /\ DoneRecords /\ Before
  BY DEF IInv
<1>3. /\ IsSequence(records') /\ DOMAIN records' = 1 .. n
      /\ \A i \in 1 .. Len(records) : records'[i] = records[i]
      /\ records'[n] = BuildVideoRecord(src, f)
      /\ DOMAIN records = 1 .. Len(records) /\ Len(records) \in Nat
  BY <1>1, <1>2, SeqAppend, SeqDomain DEF State
<1>4. \A i \in DOMAIN records' : i = n \/ i \in DOMAIN records
  BY <1>3
<1>5. n \in DOMAIN records' /\ DOMAIN records \subseteq DOMAIN records' /\ n \notin DOMAIN records
  BY <1>3
<1>6. f \in Videos /\ f \notin ToSet(jobs) /\ Videos' = Videos
  BY <1>1, <1>2 DEF InHand, Videos
<1>7. \A v \in Workers : held'[v] = IF v = w THEN Idle ELSE held[v]
  BY <1>1, <1>2 DEF State
<1>8. /\ RecordOf(records'[n], src, f) /\ records'[n].key = f.key
      /\ DOMAIN records'[n] = Others \cup {"name"} /\ Worded(records'[n])
  <2>1. Named(f)
    BY <1>2, <1>6, FilesAreNamed DEF State, Videos
  <2>2. Worded(records'[n])
    BY <1>3, <2>1, RecordsAreWorded
  <2> QED
    BY <1>3, <2>2 DEF RecordOf, BuildVideoRecord, VideoRecord, Others
<1>9. \A i \in DOMAIN records : records[i].key # f.key
  <2> SUFFICES ASSUME NEW i \in DOMAIN records, records[i].key = f.key PROVE FALSE
    OBVIOUS
  <2>1. PICK g \in Videos : RecordOf(records[i], src, g) /\ \A v \in Workers : held[v] # g
    BY <1>2 DEF Delivered
  <2>2. g.key = f.key /\ g # f
    BY <2>1 DEF RecordOf
  <2>3. f \in ToSet(catalog[src]) /\ g \in ToSet(catalog[src])
    BY <1>6 DEF Videos, Wanted
  <2> QED
    BY <1>2, <2>2, <2>3, Keys DEF State
<1> HIDE DEF n, f
<1>10. Distinct(records')
  BY <1>2, <1>3, <1>4, <1>8, <1>9 DEF Distinct, State
<1>11. State'
  <2>1. held' = [v \in Workers |-> held'[v]]
    BY <1>1, <1>2 DEF State
  <2> QED
    BY <1>1, <1>2, <1>3, <1>10, <2>1 DEF State
<1>12. Queued'
  BY <1>1, <1>2, <1>6 DEF Queued
<1>13. InHand'
  BY <1>1, <1>2, <1>6, <1>7 DEF InHand
<1>14. Delivered'
  <2> SUFFICES ASSUME NEW i \in DOMAIN records'
               PROVE  \E g \in Videos :
                        /\ g \notin ToSet(jobs) /\ \A v \in Workers : held'[v] # g
                        /\ RecordOf(records'[i], src, g)
                        /\ DOMAIN records'[i] = Others \cup {"name"} /\ Worded(records'[i])
                        /\ records'[i] = BuildVideoRecord(src, g)
    BY <1>1, <1>6 DEF Delivered
  <2>1. \A g \in Videos : g # Idle
    BY <1>2, Keys DEF Videos, Wanted, State
  <2>2. CASE i = n
    <3>1. \A v \in Workers : held'[v] # f
      BY <1>2, <1>6, <1>7, <2>1 DEF InHand, f
    <3> QED
      BY <1>3, <1>6, <1>8, <2>2, <3>1
  <2>3. CASE i \in DOMAIN records
    <3>1. records'[i] = records[i]
      BY <1>3, <2>3
    <3>2. PICK g \in Videos :
            /\ g \notin ToSet(jobs) /\ \A v \in Workers : held[v] # g
            /\ RecordOf(records[i], src, g)
            /\ DOMAIN records[i] = Others \cup {"name"} /\ Worded(records[i])
            /\ records[i] = BuildVideoRecord(src, g)
      BY <1>1, <1>2, <2>3 DEF Delivered
    <3>3. \A v \in Workers : held'[v] # g
      BY <1>7, <2>1, <3>2
    <3> QED
      BY <3>1, <3>2, <3>3
  <2> QED
    BY <1>4, <2>2, <2>3
<1>15. NoneLost'
  <2> SUFFICES ASSUME NEW g \in Videos
               PROVE  \/ g \in ToSet(jobs) \/ \E v \in Workers : held'[v] = g
                      \/ \E i \in DOMAIN records' : records'[i].key = g.key
    BY <1>1, <1>6 DEF NoneLost
  <2>1. CASE g = f
    BY <1>5, <1>8, <2>1
  <2>2. CASE g \in ToSet(jobs)
    BY <2>2
  <2>3. ASSUME NEW v \in Workers, held[v] = g, g # f PROVE held'[v] = g
    BY <1>7, <2>3 DEF f
  <2>4. ASSUME NEW i \in DOMAIN records, records[i].key = g.key
        PROVE  \E k \in DOMAIN records' : records'[k].key = g.key
    BY <1>3, <1>5, <2>4
  <2> QED
    BY <1>1, <1>2, <2>1, <2>2, <2>3, <2>4 DEF NoneLost
<1>16. DoneRecords' /\ Before'
  BY <1>1, <1>2, PastKept DEF DoneSources
<1> QED
  BY <1>11, <1>12, <1>13, <1>14, <1>15, <1>16 DEF IInv

\* At the end of the collection there is a record of every video.
LEMMA AllCollected ==
  ASSUME State, NoneLost, phase \in {"collect", "label"}, AllDelivered
  PROVE  \A f \in Videos : \E i \in DOMAIN records : records[i].key = f.key
<1>1. jobs = <<>> /\ \A w \in Workers : held[w] = Idle
  BY DEF AllDelivered
<1>2. ToSet(jobs) = {}
  BY <1>1 DEF ToSet
<1>3. \A f \in Videos : f # Idle
  BY Keys DEF Videos, Wanted, State
<1> QED
  BY <1>1, <1>2, <1>3 DEF NoneLost

\* The record of the video f as it is before labels are given.
CasedRecord(c, s, f) == [BuildVideoRecord(s, f) EXCEPT !.root = Spelled(c, s, f)]

\* It has the fields and texts that a record has.
LEMMA CasedRecordIs ==
  ASSUME NEW c \in Catalogs, NEW s \in Sources, NEW f \in Wanted(c, s, "video")
  PROVE  LET r == CasedRecord(c, s, f) IN
         /\ DOMAIN r = Others \cup {"name"} /\ Worded(r)
         /\ CasedRecordOf(r, c, s, f) /\ r.key \in Int /\ r.name = Classify(f).name
<1> DEFINE q == BuildVideoRecord(s, f)
           r == CasedRecord(c, s, f)
<1>1. /\ DOMAIN q = Others \cup {"name"} /\ q.key = f.key /\ q.name = Classify(f).name
      /\ q.media = Classify(f).media /\ RecordOf(q, s, f)
  BY DEF RecordOf, BuildVideoRecord, VideoRecord, Others
<1>2. Worded(q)
  BY FilesAreNamed, RecordsAreWorded
<1>3. r = [q EXCEPT !.root = Spelled(c, s, f)]
  BY DEF CasedRecord
<1> HIDE DEF q, r
<1>4. /\ DOMAIN r = DOMAIN q /\ r.root = Spelled(c, s, f)
      /\ r.key = q.key /\ r.name = q.name /\ r.media = q.media /\ r.tech = q.tech
      /\ r.stems = q.stems /\ r.kind = q.kind /\ r.type = q.type /\ r.item = q.item
  BY <1>1, <1>3 DEF Others
<1>5. f.key \in Int
  BY Keys DEF Wanted
<1>6. Worded(r)
  BY <1>2, <1>4 DEF Worded
<1>7. CasedRecordOf(r, c, s, f)
  BY <1>1, <1>4 DEF CasedRecordOf, RecordOf
<1> QED
  BY <1>1, <1>4, <1>5, <1>6, <1>7 DEF r

\* Casing gives each record the spelling that the library determines.
LEMMA CollectedCases ==
  ASSUME IInv, Collected, NEW i \in DOMAIN records
  PROVE  \E f \in Videos :
           /\ f \notin ToSet(jobs) /\ \A w \in Workers : held[w] # f
           /\ RecordOf(records[i], src, f)
           /\ records'[i] = CasedRecord(catalog, src, f)
<1>1. /\ phase = "collect" /\ AllDelivered
      /\ records' = [k \in DOMAIN records |->
                       [records[k] EXCEPT !.root = CanonicalRoot(records, records[k])]]
  BY DEF Collected, ApplyCanonicalRootCasing
<1>2. State /\ Delivered /\ NoneLost
  BY DEF IInv
<1>3. catalog \in Catalogs /\ src \in Sources /\ IsSequence(records) /\ Distinct(records)
  BY <1>2 DEF State
<1>4. \A f \in Videos : \E k \in DOMAIN records : records[k].key = f.key
  BY <1>1, <1>2, AllCollected
<1>5. \A k \in DOMAIN records : \E f \in Videos : Alike(records[k], Bare(f))
  BY <1>1, <1>2 DEF Delivered, Alike, Bare, BuildVideoRecord, VideoRecord
<1>6. PICK f \in Videos :
        /\ f \notin ToSet(jobs) /\ \A w \in Workers : held[w] # f
        /\ RecordOf(records[i], src, f) /\ records[i] = BuildVideoRecord(src, f)
  BY <1>1, <1>2 DEF Delivered
<1>7. Alike(records[i], Bare(f))
  BY <1>6 DEF Alike, Bare, BuildVideoRecord, VideoRecord
<1>8. CanonicalRoot(records, records[i]) = Spelled(catalog, src, f)
  <2>1. /\ \A j \in DOMAIN records : \E g \in Wanted(catalog, src, "video") : Alike(records[j], Bare(g))
        /\ \A g \in Wanted(catalog, src, "video") : \E j \in DOMAIN records : records[j].key = g.key
        /\ f \in Wanted(catalog, src, "video")
    BY <1>4, <1>5 DEF Videos
  <2> QED
    BY <1>3, <1>7, <2>1, CasingIs
<1>9. records'[i] = CasedRecord(catalog, src, f)
  BY <1>1, <1>6, <1>8 DEF CasedRecord
<1> QED
  BY <1>6, <1>9

\* All videos are delivered: their roots are cased (process.go:60).
LEMMA CollectedStep == ASSUME IInv, Collected PROVE IInv'
<1>1. /\ phase = "collect" /\ AllDelivered /\ phase' = "label"
      /\ records' = ApplyCanonicalRootCasing(records) /\ pending' = Duplicates(records')
      /\ UNCHANGED <<catalog, src, jobs, held, all, tree, earlier>>
  BY DEF Collected
<1>2. State /\ Queued /\ InHand /\ Delivered /\ NoneLost /\ DoneRecords /\ Before
  BY DEF IInv
<1>3. /\ catalog \in Catalogs /\ src \in Sources /\ IsSequence(records) /\ Distinct(records)
      /\ DOMAIN records = 1 .. Len(records) /\ Len(records) \in Nat
  BY <1>2, SeqDomain DEF State
<1>4. /\ records' = [i \in DOMAIN records |->
                       [records[i] EXCEPT !.root = CanonicalRoot(records, records[i])]]
  BY <1>1 DEF ApplyCanonicalRootCasing
<1>5. IsSequence(records') /\ DOMAIN records' = DOMAIN records
  BY <1>3, <1>4, SeqMade
<1>6. \A f \in Videos : \E i \in DOMAIN records : records[i].key = f.key
  BY <1>1, <1>2, AllCollected
<1>7. ASSUME NEW i \in DOMAIN records
      PROVE  \E f \in Videos :
               /\ f \notin ToSet(jobs) /\ \A w \in Workers : held[w] # f
               /\ DOMAIN records'[i] = Others \cup {"name"} /\ Worded(records'[i])
               /\ CasedRecordOf(records'[i], catalog, src, f)
               /\ records'[i].key = records[i].key
  <2>1. PICK f \in Videos :
          /\ f \notin ToSet(jobs) /\ \A w \in Workers : held[w] # f
          /\ RecordOf(records[i], src, f) /\ records'[i] = CasedRecord(catalog, src, f)
    BY CollectedCases
  <2>2. /\ DOMAIN records'[i] = Others \cup {"name"} /\ Worded(records'[i])
        /\ CasedRecordOf(records'[i], catalog, src, f)
    BY <1>3, <2>1, CasedRecordIs DEF Videos
  <2>3. records'[i].key = records[i].key
    BY <2>1, <2>2 DEF CasedRecordOf, RecordOf
  <2> QED
    BY <2>1, <2>2, <2>3
<1>8. \A i \in DOMAIN records : records'[i].key = records[i].key
  BY <1>7
<1>9. State'
  <2>1. Distinct(records')
    BY <1>3, <1>5, <1>8 DEF Distinct
  <2>2. \A group \in pending' : group \subseteq DOMAIN records'
    BY <1>1 DEF Duplicates, GroupOf, Grouped
  <2> QED
    BY <1>1, <1>2, <1>5, <2>1, <2>2 DEF State, AllDelivered
<1>10. Videos' = Videos
  BY <1>1 DEF Videos
<1>11. Queued' /\ InHand'
  BY <1>1, <1>2, <1>10 DEF Queued, InHand
<1>12. Delivered'
  <2> SUFFICES ASSUME NEW i \in DOMAIN records'
               PROVE  \E f \in Videos :
                        /\ f \notin ToSet(jobs) /\ \A v \in Workers : held[v] # f
                        /\ RecordOf(records'[i], src, f)
                        /\ DOMAIN records'[i] = Others \cup {"name"} /\ Worded(records'[i])
                        /\ CasedRecordOf(records'[i], catalog, src, f)
    BY <1>1, <1>10 DEF Delivered
  <2> QED
    BY <1>5, <1>7 DEF CasedRecordOf
<1>13. NoneLost'
  BY <1>5, <1>6, <1>8, <1>10 DEF NoneLost
<1>14. DoneRecords' /\ Before'
  BY <1>1, <1>2, PastKept DEF DoneSources
<1> QED
  BY <1>9, <1>11, <1>12, <1>13, <1>14 DEF IInv

\* A group of duplicates is labelled: names change, and nothing else.
LEMMA LabelGroupStep == ASSUME IInv, NEW group \in pending, LabelGroup(group) PROVE IInv'
<1>1. /\ phase = "label"
      /\ pending' = pending \ {group}
      /\ UNCHANGED <<catalog, phase, src, jobs, held, all, tree, earlier>>
  BY DEF LabelGroup
<1>2. State /\ Queued /\ InHand /\ Delivered /\ NoneLost /\ DoneRecords /\ Before
  BY DEF IInv
<1> DEFINE start == [recs |-> records, used |-> used, names |-> {}, labels |-> {}]
           seq == ByKey(records, group)
<1>3. records' = FoldLeft(LabelOne, start, seq).recs
  BY DEF LabelGroup
<1>4. \A i \in DOMAIN records : records[i].key \in Int
  <2> SUFFICES ASSUME NEW i \in DOMAIN records PROVE records[i].key \in Int
    OBVIOUS
  <2>1. PICK f \in Videos : records[i].key = f.key
    BY <1>2 DEF Delivered, RecordOf
  <2> QED
    BY <1>2, <2>1, Keys DEF State, Videos, Wanted
<1>5. IsSequence(seq)
  <2> DEFINE place == [i \in group |-> records[i].key]
  <2>1. IsFiniteSet(group) /\ group \subseteq Int /\ group \subseteq DOMAIN records
    <3>1. group \in SUBSET DOMAIN records
      BY <1>2 DEF State
    <3> QED
      BY <1>2, <3>1, SeqFinite, FS_Subset DEF State
  <2>2. \A i \in group : place[i] \in Int
    BY <1>4, <2>1
  <2>3. seq = InOrder(group, place)
    BY DEF ByKey
  <2> HIDE DEF place, seq
  <2> QED
    BY <2>1, <2>2, <2>3, Ordering
<1>6. Renamed(start.recs, records)
  BY <1>2 DEF Renamed, SameButName, State, Delivered
<1> HIDE DEF start, seq
<1>7. Renamed(records', records)
  BY <1>3, <1>5, <1>6, RoundsRename
<1>8. /\ IsSequence(records') /\ DOMAIN records' = DOMAIN records
      /\ \A i \in DOMAIN records :
           /\ DOMAIN records'[i] = Others \cup {"name"} /\ Worded(records'[i])
           /\ records'[i].key = records[i].key /\ records'[i].kind = records[i].kind
           /\ records'[i].type = records[i].type /\ records'[i].item = records[i].item
           /\ records'[i].root = records[i].root /\ records'[i].media = records[i].media
  BY <1>7 DEF Renamed, SameButName, Others
<1>9. State'
  <2>1. Distinct(records')
    BY <1>2, <1>8 DEF Distinct, State
  <2> QED
    BY <1>1, <1>2, <1>8, <2>1 DEF State
<1>10. Videos' = Videos
  BY <1>1 DEF Videos
<1>11. Queued' /\ InHand'
  BY <1>1, <1>2, <1>10 DEF Queued, InHand
<1>12. Delivered'
  <2> SUFFICES ASSUME NEW i \in DOMAIN records'
               PROVE  \E f \in Videos :
                        /\ f \notin ToSet(jobs) /\ \A v \in Workers : held[v] # f
                        /\ RecordOf(records'[i], src, f)
                        /\ DOMAIN records'[i] = Others \cup {"name"} /\ Worded(records'[i])
                        /\ CasedRecordOf(records'[i], catalog, src, f)
    BY <1>1, <1>10 DEF Delivered
  <2>1. PICK f \in Videos :
          /\ f \notin ToSet(jobs) /\ \A v \in Workers : held[v] # f
          /\ RecordOf(records[i], src, f)
          /\ CasedRecordOf(records[i], catalog, src, f)
    BY <1>1, <1>2, <1>8 DEF Delivered
  <2> QED
    BY <1>8, <2>1 DEF CasedRecordOf, RecordOf
<1>13. NoneLost'
  BY <1>1, <1>2, <1>8, <1>10 DEF NoneLost
<1>14. DoneRecords' /\ Before'
  BY <1>1, <1>2, PastKept DEF DoneSources
<1> QED
  BY <1>9, <1>11, <1>12, <1>13, <1>14 DEF IInv

\* The tree is built of the records.
LEMMA BuildTreeStep == ASSUME IInv, BuildTree PROVE IInv'
<1>1. /\ phase = "build" /\ phase' = "built"
      /\ UNCHANGED <<catalog, src, jobs, held, records, pending, used, all, earlier>>
  BY DEF BuildTree
<1>2. State /\ Queued /\ InHand /\ Delivered /\ NoneLost /\ DoneRecords /\ Before
  BY DEF IInv
<1>3. State' /\ Queued' /\ InHand' /\ Delivered' /\ NoneLost'
  BY <1>1, <1>2 DEF State, Queued, InHand, Delivered, NoneLost, Videos
<1>4. DoneRecords' /\ Before'
  BY <1>1, <1>2, PastKept DEF DoneSources
<1> QED
  BY <1>3, <1>4 DEF IInv

\* The next refresh begins, and remembers the records if the library stays.
LEMMA RefreshStep == ASSUME IInv, Refresh PROVE IInv'
<1>1. /\ phase = "built" /\ catalog' \in Follows[catalog] /\ phase' = "collect"
      /\ earlier' = (IF catalog' = catalog THEN all ELSE <<>>) /\ all' = <<>>
      /\ jobs' = ListedIn(catalog', 1, "video")
      /\ UNCHANGED <<src, held, records, pending, used, tree>>
  BY DEF Refresh
<1>2. State /\ Queued /\ InHand /\ Delivered /\ NoneLost /\ DoneRecords /\ Before
  BY DEF IInv
<1>3. IsSequence(<<>>) /\ DOMAIN <<>> = {}
  <2>1. <<>> \in Seq({}) /\ DOMAIN <<>> = {}
    OBVIOUS
  <2> QED
    BY <2>1, SeqTyped
<1>4. catalog' \in Catalogs /\ src = 1 /\ 1 \in Sources /\ records = <<>>
  BY <1>1, <1>2, MediaAssumption DEF State
<1>5. /\ IsSequence(jobs') /\ ToSet(jobs') = Videos'
      /\ \A m, n \in DOMAIN jobs' : jobs'[m] = jobs'[n] => m = n
  BY <1>1, <1>4, Listing DEF Videos
<1>6. State'
  BY <1>1, <1>2, <1>3, <1>4, <1>5 DEF State, Distinct
<1>7. Queued'
  BY <1>5 DEF Queued, ToSet
<1>8. InHand'
  BY <1>1, <1>2 DEF InHand, State
<1>9. Delivered'
  BY <1>1, <1>3, <1>4 DEF Delivered
<1>10. NoneLost'
  BY <1>5 DEF NoneLost
<1>11. DoneRecords'
  <2>1. DoneSources' = {}
    BY <1>1, <1>4 DEF DoneSources
  <2> QED
    BY <1>1, <1>3, <2>1 DEF DoneRecords, AllBeside, Ascending
<1>12. Before'
  <2>1. CASE catalog' = catalog
    BY <1>1, <1>2, <2>1 DEF Before, DoneRecords, DoneSources
  <2>2. CASE catalog' # catalog
    BY <1>1, <1>3, <2>2 DEF Before
  <2> QED
    BY <2>1, <2>2
<1> QED
  BY <1>6, <1>7, <1>8, <1>9, <1>10, <1>11, <1>12 DEF IInv

-----------------------------------------------------------------------------
(* Subtitles *)

\* findMatchingVideo gives the place of a video, or 0.
LEMMA Matching ==
  ASSUME NEW sub, NEW videos, IsSequence(videos)
  PROVE  FindMatchingVideo(sub, videos) = 0 \/ FindMatchingVideo(sub, videos) \in DOMAIN videos
<1> DEFINE path == FlattenSeq(sub.dirs) \o sub.short.stem
           numbers == <<Number(path, {"both"}, 1), Number(path, {"both"}, 2)>>
           numbered(v) == NoNumber \notin ToSet(numbers) /\ numbers = <<v.season, v.episode>>
           named(v) == /\ Front(v.file) # NoText
                       /\ ContainsText(Folded(Texts(path)), Folded(Front(v.file)))
           movie(v) == v.media = "movie"
           only(n) == IF n = 1 THEN 1 ELSE 0
           m1 == only(Len(videos))
           m2 == SelectInSeq(videos, numbered)
           m3 == SelectInSeq(videos, named)
           m4 == SelectInSeq(videos, movie) * only(Len(SelectSeq(videos, movie)))
           matches == <<m1, m2, m3, m4>>
           found == SelectInSeq(matches, LAMBDA i : i # 0)
<1>1. Len(videos) \in Nat /\ DOMAIN videos = 1 .. Len(videos)
  BY SeqDomain
<1>2. FindMatchingVideo(sub, videos) = IF found = 0 THEN 0 ELSE matches[found]
  BY DEF FindMatchingVideo
<1>3. m1 = 0 \/ m1 \in DOMAIN videos
  BY <1>1
<1>4. m2 = 0 \/ m2 \in DOMAIN videos
  <2> DEFINE I == {i \in 1 .. Len(videos) : numbered(videos[i])}
  <2>1. m2 = IF I # {} THEN Min(I) ELSE 0
    BY DEF SelectInSeq
  <2>2. I \in SUBSET (1 .. Len(videos))
    OBVIOUS
  <2> HIDE DEF I, m2
  <2> QED
    BY <1>1, <2>1, <2>2, Chosen
<1>5. m3 = 0 \/ m3 \in DOMAIN videos
  <2> DEFINE I == {i \in 1 .. Len(videos) : named(videos[i])}
  <2>1. m3 = IF I # {} THEN Min(I) ELSE 0
    BY DEF SelectInSeq
  <2>2. I \in SUBSET (1 .. Len(videos))
    OBVIOUS
  <2> HIDE DEF I, m3
  <2> QED
    BY <1>1, <2>1, <2>2, Chosen
<1>6. m4 = 0 \/ m4 \in DOMAIN videos
  <2> DEFINE I == {i \in 1 .. Len(videos) : movie(videos[i])}
             k == SelectInSeq(videos, movie)
             o == only(Len(SelectSeq(videos, movie)))
  <2>1. k = IF I # {} THEN Min(I) ELSE 0
    BY DEF SelectInSeq
  <2>2. I \in SUBSET (1 .. Len(videos))
    OBVIOUS
  <2>3. k = 0 \/ k \in 1 .. Len(videos)
    <3> HIDE DEF I, k
    <3> QED
      BY <1>1, <2>1, <2>2, Chosen
  <2>4. o = 0 \/ o = 1
    OBVIOUS
  <2>5. m4 = k * o
    OBVIOUS
  <2> HIDE DEF I, k, o, m4
  <2>6. k \in Int
    BY <1>1, <2>3
  <2>7. k * 0 = 0 /\ k * 1 = k
    BY <2>6
  <2> QED
    BY <1>1, <2>3, <2>4, <2>5, <2>7
<1>7. found = 0 \/ found \in 1 .. 4
  <2> DEFINE I == {i \in 1 .. Len(matches) : matches[i] # 0}
  <2>1. found = IF I # {} THEN Min(I) ELSE 0
    BY DEF SelectInSeq
  <2>2. Len(matches) = 4
    OBVIOUS
  <2>3. I \in SUBSET (1 .. 4)
    BY <2>2
  <2> HIDE DEF I, found, matches
  <2> QED
    BY <2>1, <2>3, Chosen
<1>8. /\ matches[1] = m1 /\ matches[2] = m2 /\ matches[3] = m3 /\ matches[4] = m4
  OBVIOUS
<1> HIDE DEF m1, m2, m3, m4, matches, found
<1>9. CASE found \in 1 .. 4
  <2>1. found = 1 \/ found = 2 \/ found = 3 \/ found = 4
    BY <1>9
  <2> QED
    BY <1>2, <1>3, <1>4, <1>5, <1>6, <1>8, <2>1
<1>10. CASE found = 0
  BY <1>2, <1>10
<1> QED
  BY <1>7, <1>9, <1>10

\* The folders of a path come before the file.
LEMMA FrontJoined == ASSUME NEW s, IsSequence(s), NEW e PROVE Front(s \o <<e>>) = s
<1> DEFINE S == ToSet(s) \cup {e}
<1>1. Len(s) \in Nat /\ s = [i \in 1 .. Len(s) |-> s[i]]
  BY SeqDomain
<1>2. \A i \in 1 .. Len(s) : s[i] \in S
  BY SeqDomain DEF ToSet
<1> HIDE DEF S
<1>3. s \in Seq(S)
  <2>1. s \in [1 .. Len(s) -> S]
    BY <1>1, <1>2
  <2> QED
    BY <1>1, <2>1
<1>4. <<e>> \in Seq(S) /\ Len(<<e>>) = 1
  BY DEF S
<1>5. Len(s \o <<e>>) = Len(s) + 1 /\ s \o <<e>> \in Seq(S)
  BY <1>3, <1>4
<1>6. Front(s \o <<e>>) = SubSeq(s \o <<e>>, 1, Len(s))
  BY <1>1, <1>5 DEF Front
<1>7. \A i \in 1 .. Len(s) : (s \o <<e>>)[i] = s[i]
  BY <1>3, <1>4
<1> QED
  BY <1>1, <1>3, <1>5, <1>6, <1>7

\* The name of a subtitle begins with that of its video (process.go).
LEMMA PrefixOfThree ==
  ASSUME NEW s, IsSequence(s), NEW t, IsSequence(t), NEW e
  PROVE  IsPrefix(s, s \o t \o <<e>>)
<1> DEFINE u == s \o t
           w == u \o <<e>>
<1>1. /\ IsSequence(u) /\ Len(u) = Len(s) + Len(t) /\ \A i \in 1 .. Len(s) : u[i] = s[i]
      /\ Len(s) \in Nat /\ Len(t) \in Nat
  BY SeqConcat, SeqDomain
<1>2. IsSequence(<<e>>) /\ Len(<<e>>) = 1
  BY OneWord
<1> HIDE DEF u
<1>3. /\ IsSequence(w) /\ Len(w) = Len(u) + 1 /\ \A i \in 1 .. Len(u) : w[i] = u[i]
  <2>1. /\ IsSequence(u \o <<e>>) /\ Len(u \o <<e>>) = Len(u) + Len(<<e>>)
        /\ \A i \in 1 .. Len(u) : (u \o <<e>>)[i] = u[i]
    BY <1>1, <1>2, SeqConcat
  <2> QED
    BY <1>2, <2>1
<1> HIDE DEF w
<1>4. Len(s) <= Len(w) /\ \A i \in 1 .. Len(s) : w[i] = s[i]
  BY <1>1, <1>3
<1>5. SubSeq(s, 1, Len(s)) = [i \in 1 .. Len(s) |-> s[i]]
  BY <1>1 DEF IsSequence
<1>6. SubSeq(w, 1, Len(s)) = [i \in 1 .. Len(s) |-> w[i]]
  BY <1>1, <1>3, <1>4 DEF IsSequence
<1> QED
  BY <1>4, <1>5, <1>6 DEF IsPrefix, u, w

\* The record of a subtitle lies beside the video it was matched with.
LEMMA SubtitleBeside ==
  ASSUME NEW sub, Named(sub), NEW v, Worded(v), v.kind = "video", v.item = sub.item, NEW typ
  PROVE  LiesBeside(BuildSubtitleRecord(typ, sub, v), v)
<1> DEFINE r == BuildSubtitleRecord(typ, sub, v)
           suffix == SubtitleTrackSuffix(sub, v)
<1>1. /\ r.item = v.item /\ r.media = v.media /\ r.root = v.root /\ r.folder = v.folder
      /\ r.extra = v.extra /\ r.name = Front(v.name) \o suffix \o <<Extension(sub.short)>>
  BY DEF BuildSubtitleRecord
<1>2. \E path : IsSequence(path) /\ RecordPath(v) = path \o <<v.name>>
                               /\ RecordPath(r) = path \o <<r.name>>
  <2>1. \A text : IsSequence(Optional(text))
    BY EmptySequence, OneWord DEF Optional
  <2>2. \A a, b : IsSequence(<<a, b>>)
    <3> SUFFICES ASSUME NEW a, NEW b PROVE IsSequence(<<a, b>>)
      OBVIOUS
    <3>1. <<a, b>> \in Seq({a, b})
      OBVIOUS
    <3> QED
      BY <3>1, SeqTyped
  <2>3. CASE v.media = "movie"
    <3> DEFINE path == <<<<"movies">>, v.root>> \o Optional(v.folder)
    <3>1. IsSequence(path)
      BY <2>1, <2>2, Joined
    <3>2. RecordPath(v) = path \o <<v.name>> /\ RecordPath(r) = path \o <<r.name>>
      BY <1>1, <2>3 DEF RecordPath
    <3> QED
      BY <3>1, <3>2
  <2>4. CASE v.media = "series"
    <3> DEFINE path == <<<<"series">>, v.root>> \o Optional(v.folder) \o Optional(v.extra)
    <3>1. IsSequence(<<<<"series">>, v.root>> \o Optional(v.folder))
      BY <2>1, <2>2, Joined
    <3>2. IsSequence(path)
      BY <2>1, <3>1, Joined
    <3>3. RecordPath(v) = path \o <<v.name>> /\ RecordPath(r) = path \o <<r.name>>
      BY <1>1, <2>4 DEF RecordPath
    <3> QED
      BY <3>2, <3>3
  <2>5. CASE v.media \notin {"movie", "series"}
    <3> DEFINE path == <<<<"unknown">>, v.root>>
    <3>1. IsSequence(path)
      BY <2>2
    <3>2. RecordPath(v) = <<<<"unknown">>, v.root, v.name>>
          /\ RecordPath(r) = <<<<"unknown">>, v.root, r.name>>
      BY <1>1, <2>5 DEF RecordPath
    <3>3. /\ <<<<"unknown">>, v.root, v.name>> = path \o <<v.name>>
          /\ <<<<"unknown">>, v.root, r.name>> = path \o <<r.name>>
      OBVIOUS
    <3> HIDE DEF path, r
    <3>4. RecordPath(v) = path \o <<v.name>> /\ RecordPath(r) = path \o <<r.name>>
      BY <3>2, <3>3
    <3> QED
      BY <3>1, <3>4
  <2> QED
    BY <2>3, <2>4, <2>5
<1>3. Front(RecordPath(v)) = Front(RecordPath(r))
  <2>1. PICK path : IsSequence(path) /\ RecordPath(v) = path \o <<v.name>>
                                   /\ RecordPath(r) = path \o <<r.name>>
    BY <1>2
  <2>2. Front(path \o <<v.name>>) = path /\ Front(path \o <<r.name>>) = path
    BY <2>1, FrontJoined
  <2> QED
    BY <2>1, <2>2
<1>4. IsSequence(suffix)
  <2> DEFINE stem == Texts(sub.short.stem)
             kept == {i \in DOMAIN stem : sub.short.stem[i].kind \notin Years \cup {"dash"}}
  <2>1. IsSequence(stem)
    BY TextsAreSequences DEF Named
  <2>2. kept \in SUBSET DOMAIN stem
    OBVIOUS
  <2>3. suffix = <<>> \/ suffix = Folded(Selected(stem, kept))
    BY DEF SubtitleTrackSuffix, NoText
  <2> HIDE DEF stem, kept, suffix
  <2>4. LET q == Selected(stem, kept) IN IsSequence(q)
    BY <2>1, <2>2, Selection
  <2>5. IsSequence(Folded(Selected(stem, kept)))
    BY <2>4, FoldedSequence
  <2> QED
    BY <2>3, <2>5, EmptySequence
<1>5. IsSequence(Front(v.name))
  BY FrontOfName DEF Worded
<1> HIDE DEF suffix, r
<1>6. IsPrefix(Front(v.name), r.name)
  <2>1. IsPrefix(Front(v.name), Front(v.name) \o suffix \o <<Extension(sub.short)>>)
    BY <1>4, <1>5, PrefixOfThree
  <2> QED
    BY <1>1, <2>1
<1> QED
  BY <1>1, <1>3, <1>6 DEF LiesBeside, r

\* What the loop over the subtitles adds: one record for each that is matched.
LEMMA SubtitlesAdded ==
  ASSUME NEW c \in Catalogs, NEW s \in Sources, NEW recs, IsSequence(recs), Distinct(recs),
         \A i \in DOMAIN recs : \E f \in Wanted(c, s, "video") : RecordOf(recs[i], s, f),
         \A i \in DOMAIN recs : Worded(recs[i])
  PROVE  LET r == AddSubtitles(s, recs, ListedIn(c, s, "subtitle")) IN
         /\ IsSequence(r) /\ Distinct(r)
         /\ \A i \in DOMAIN recs : \E j \in DOMAIN r : r[j] = recs[i]
         /\ \A j \in DOMAIN r :
              \/ \E i \in DOMAIN recs : r[j] = recs[i]
              \/ /\ \E f \in Wanted(c, s, "subtitle") : SubtitleOf(r[j], c, s, f)
                 /\ \E k \in DOMAIN recs : LiesBeside(r[j], recs[k])
<1> DEFINE subs == ListedIn(c, s, "subtitle")
           match(sub) == FindMatchingVideo(sub, VideosOf(recs, sub.item))
           I == {i \in DOMAIN subs : match(subs[i]) # 0}
           matched == Selected(subs, I)
           record(sub) == BuildSubtitleRecord(s, sub, VideosOf(recs, sub.item)[match(sub)])
           added == [n \in DOMAIN matched |-> record(matched[n])]
           r == AddSubtitles(s, recs, subs)
<1>1. r = recs \o added
  BY DEF AddSubtitles
<1>2. /\ IsSequence(subs) /\ ToSet(subs) = Wanted(c, s, "subtitle")
      /\ \A m, n \in DOMAIN subs : subs[m] = subs[n] => m = n
  BY Listing
<1>3. /\ IsSequence(matched)
      /\ \A n \in DOMAIN matched : matched[n] \in Wanted(c, s, "subtitle") /\ match(matched[n]) # 0
      /\ \A m, n \in DOMAIN matched : matched[m] = matched[n] => m = n
  <2>1. I \in SUBSET DOMAIN subs /\ \A i, j \in I : subs[i] = subs[j] => i = j
    BY <1>2
  <2>2. \A i \in I : subs[i] \in Wanted(c, s, "subtitle") /\ match(subs[i]) # 0
    BY <1>2 DEF ToSet
  <2> HIDE DEF I, match, subs
  <2>3. LET q == Selected(subs, I) IN
          /\ IsSequence(q)
          /\ \A n \in DOMAIN q : \E i \in I : q[n] = subs[i]
          /\ \A m, n \in DOMAIN q : q[m] = q[n] => m = n
    BY <1>2, <2>1, Selection
  <2> QED
    BY <2>2, <2>3
<1> HIDE DEF subs, I, matched
<1>4. ASSUME NEW n \in DOMAIN matched
      PROVE  /\ SubtitleOf(added[n], c, s, matched[n])
             /\ \E k \in DOMAIN recs : LiesBeside(added[n], recs[k])
  <2> DEFINE sub == matched[n]
             J == {i \in DOMAIN recs : recs[i].item = sub.item}
             videos == VideosOf(recs, sub.item)
  <2>1. videos = Selected(recs, J)
    BY DEF VideosOf
  <2>2. J \in SUBSET DOMAIN recs
    OBVIOUS
  <2>3. \A i \in J : recs[i].item = sub.item
    OBVIOUS
  <2> HIDE DEF J
  <2>4. IsSequence(videos) /\ \A k \in DOMAIN videos : \E i \in J : videos[k] = recs[i]
    <3>1. LET q == Selected(recs, J) IN
            IsSequence(q) /\ \A k \in DOMAIN q : \E i \in J : q[k] = recs[i]
      BY <2>2, Selection
    <3> QED
      BY <2>1, <3>1
  <2>5. match(sub) \in DOMAIN videos
    <3>1. match(sub) # 0
      BY <1>3
    <3>2. FindMatchingVideo(sub, videos) = 0 \/ FindMatchingVideo(sub, videos) \in DOMAIN videos
      BY <2>4, Matching
    <3> QED
      BY <3>1, <3>2
  <2>6. \E g \in Wanted(c, s, "video") : g.item = sub.item
    <3>1. PICK i \in J : TRUE
      BY <2>4, <2>5
    <3>2. PICK g \in Wanted(c, s, "video") : RecordOf(recs[i], s, g)
      BY <2>2, <3>1
    <3> QED
      BY <2>3, <3>1, <3>2 DEF RecordOf
  <2>7. /\ added[n].kind = "subtitle" /\ added[n].type = s
        /\ added[n].key = sub.key /\ added[n].item = sub.item
    BY DEF BuildSubtitleRecord
  <2>8. \E k \in DOMAIN recs : LiesBeside(added[n], recs[k])
    <3>1. PICK i \in J : videos[match(sub)] = recs[i]
      BY <2>4, <2>5
    <3>2. added[n] = BuildSubtitleRecord(s, sub, recs[i])
      BY <3>1
    <3>3. i \in DOMAIN recs /\ recs[i].item = sub.item
      BY <2>2, <2>3
    <3>4. recs[i].kind = "video" /\ Worded(recs[i])
      BY <3>3 DEF RecordOf
    <3>5. Named(sub)
      BY <1>3, FilesAreNamed
    <3>6. LiesBeside(BuildSubtitleRecord(s, sub, recs[i]), recs[i])
      BY <3>3, <3>4, <3>5, SubtitleBeside
    <3> QED
      BY <3>2, <3>3, <3>6
  <2> QED
    BY <2>6, <2>7, <2>8 DEF SubtitleOf
<1>5. IsSequence(added) /\ DOMAIN added = DOMAIN matched
  <2>1. DOMAIN matched = 1 .. Len(matched) /\ Len(matched) \in Nat
    BY <1>3, SeqDomain
  <2>2. added = [n \in 1 .. Len(matched) |-> added[n]] /\ DOMAIN added = DOMAIN matched
    BY <2>1
  <2> HIDE DEF added
  <2> QED
    BY <2>1, <2>2, SeqMade
<1> HIDE DEF added, r
<1>6. /\ IsSequence(r) /\ DOMAIN r = 1 .. Len(recs) + Len(added)
      /\ \A i \in 1 .. Len(recs) : r[i] = recs[i]
      /\ \A i \in 1 .. Len(added) : r[Len(recs) + i] = added[i]
      /\ DOMAIN recs = 1 .. Len(recs) /\ DOMAIN added = 1 .. Len(added)
      /\ Len(recs) \in Nat /\ Len(added) \in Nat
  <2>1. /\ IsSequence(recs \o added) /\ DOMAIN (recs \o added) = 1 .. Len(recs) + Len(added)
        /\ \A i \in 1 .. Len(recs) : (recs \o added)[i] = recs[i]
        /\ \A i \in 1 .. Len(added) : (recs \o added)[Len(recs) + i] = added[i]
    BY <1>5, SeqConcat
  <2>2. /\ DOMAIN recs = 1 .. Len(recs) /\ DOMAIN added = 1 .. Len(added)
        /\ Len(recs) \in Nat /\ Len(added) \in Nat
    BY <1>5, SeqDomain
  <2> QED
    BY <1>1, <2>1, <2>2
<1>7. \A j \in DOMAIN r :
        \/ j \in DOMAIN recs /\ r[j] = recs[j]
        \/ j - Len(recs) \in DOMAIN added /\ r[j] = added[j - Len(recs)]
  <2> SUFFICES ASSUME NEW j \in DOMAIN r, j \notin DOMAIN recs
               PROVE  j - Len(recs) \in DOMAIN added /\ r[j] = added[j - Len(recs)]
    BY <1>6
  <2>1. j - Len(recs) \in 1 .. Len(added) /\ Len(recs) + (j - Len(recs)) = j
    BY <1>6
  <2> QED
    BY <1>6, <2>1
<1>8. \A j \in DOMAIN r :
        \/ \E i \in DOMAIN recs : r[j] = recs[i]
        \/ /\ \E f \in Wanted(c, s, "subtitle") : SubtitleOf(r[j], c, s, f)
           /\ \E k \in DOMAIN recs : LiesBeside(r[j], recs[k])
  BY <1>3, <1>4, <1>5, <1>7
<1>9. \A i \in DOMAIN recs : i \in DOMAIN r /\ r[i] = recs[i]
  BY <1>6
<1>10. Distinct(r)
  <2> SUFFICES ASSUME NEW i \in DOMAIN r, NEW j \in DOMAIN r, r[i].key = r[j].key PROVE i = j
    BY DEF Distinct
  <2>0. i \in Int /\ j \in Int
    BY <1>6
  <2>1. \A k \in DOMAIN recs : \E f \in ToSet(c[s]) : f.kind = "video" /\ recs[k].key = f.key
    BY DEF RecordOf, Wanted
  <2>2. \A n \in DOMAIN added :
          matched[n] \in ToSet(c[s]) /\ matched[n].kind = "subtitle" /\ added[n].key = matched[n].key
    BY <1>3, <1>4, <1>5 DEF SubtitleOf, Wanted
  <2>3. \A f, g \in ToSet(c[s]) : f.key = g.key => f = g
    BY Keys
  <2>4. \A k \in DOMAIN recs, n \in DOMAIN added : recs[k].key # added[n].key
    BY <2>1, <2>2, <2>3
  <2>5. CASE r[i] = recs[i] /\ r[j] = recs[j] /\ i \in DOMAIN recs /\ j \in DOMAIN recs
    BY <2>5 DEF Distinct
  <2>6. ASSUME i - Len(recs) \in DOMAIN added, r[i] = added[i - Len(recs)],
               j - Len(recs) \in DOMAIN added, r[j] = added[j - Len(recs)]
        PROVE  i = j
    <3>1. matched[i - Len(recs)] = matched[j - Len(recs)]
      BY <2>2, <2>3, <2>6
    <3>2. i - Len(recs) = j - Len(recs)
      BY <1>3, <1>5, <2>6, <3>1
    <3> QED
      BY <1>6, <2>0, <3>2
  <2> QED
    BY <1>7, <2>4, <2>5, <2>6
<1> QED
  BY <1>6, <1>8, <1>9, <1>10 DEF r, subs

-----------------------------------------------------------------------------
(* The end of a source *)

\* What a source leaves behind: its records and subtitles, sorted.
HasEvery(recs, c, s) == \A f \in Wanted(c, s, "video") : \E i \in DOMAIN recs : recs[i].key = f.key
AllCased(recs, c, s) ==
  \A i \in DOMAIN recs : \E f \in Wanted(c, s, "video") : CasedRecordOf(recs[i], c, s, f)
AllFinal(recs, c, s) == \A i \in DOMAIN recs : Final(recs[i], c, s)

\* The records of a source, sorted, with its subtitles.
LEMMA SourceDone ==
  ASSUME NEW c \in Catalogs, NEW s \in Sources, NEW recs, IsSequence(recs), Distinct(recs),
         AllCased(recs, c, s), HasEvery(recs, c, s), \A i \in DOMAIN recs : Worded(recs[i])
  PROVE  LET r == Sorted(AddSubtitles(s, recs, ListedIn(c, s, "subtitle"))) IN
         /\ IsSequence(r) /\ Distinct(r) /\ AllFinal(r, c, s) /\ HasEvery(r, c, s)
         /\ AllBeside(r) /\ Ascending(r)
<1> DEFINE a == AddSubtitles(s, recs, ListedIn(c, s, "subtitle"))
           r == Sorted(a)
<1>1. \A i \in DOMAIN recs : \E f \in Wanted(c, s, "video") : RecordOf(recs[i], s, f)
  BY DEF AllCased, CasedRecordOf
<1>2. /\ IsSequence(a) /\ Distinct(a)
      /\ \A i \in DOMAIN recs : \E j \in DOMAIN a : a[j] = recs[i]
      /\ \A j \in DOMAIN a :
           \/ \E i \in DOMAIN recs : a[j] = recs[i]
           \/ /\ \E f \in Wanted(c, s, "subtitle") : SubtitleOf(a[j], c, s, f)
              /\ \E k \in DOMAIN recs : LiesBeside(a[j], recs[k])
  BY <1>1, SubtitlesAdded
<1> HIDE DEF a
<1>3. \A j \in DOMAIN a : Final(a[j], c, s)
  <2> SUFFICES ASSUME NEW j \in DOMAIN a PROVE Final(a[j], c, s)
    OBVIOUS
  <2>1. CASE \E i \in DOMAIN recs : a[j] = recs[i]
    BY <2>1 DEF AllCased, Final
  <2>2. CASE \E f \in Wanted(c, s, "subtitle") : SubtitleOf(a[j], c, s, f)
    BY <2>2 DEF Final, SubtitleOf
  <2> QED
    BY <1>2, <2>1, <2>2
<1>4. \A j \in DOMAIN a : a[j].key \in Int
  <2>1. \A f \in ToSet(c[s]) : f.key \in Int
    BY Keys
  <2> QED
    BY <1>3, <2>1 DEF Final, SubtitleOf, CasedRecordOf, RecordOf, Wanted
<1>5. /\ IsSequence(r) /\ ToSet(r) = ToSet(a)
      /\ \A m, n \in DOMAIN r : r[m].key = r[n].key => m = n
      /\ \A m, n \in DOMAIN r : m < n => r[m].key <= r[n].key
  <2>1. \A i, j \in DOMAIN a : a[i].key = a[j].key => i = j
    BY <1>2 DEF Distinct
  <2>2. IsSequence(a)
    BY <1>2
  <2> QED
    BY <1>4, <2>1, <2>2, Sorting
<1> HIDE DEF r
<1>6. /\ \A i \in DOMAIN r : \E j \in DOMAIN a : r[i] = a[j]
      /\ \A j \in DOMAIN a : \E i \in DOMAIN r : r[i] = a[j]
  <2>1. /\ ToSet(r) = {r[i] : i \in DOMAIN r} /\ ToSet(a) = {a[j] : j \in DOMAIN a}
    BY DEF ToSet
  <2>2. {r[i] : i \in DOMAIN r} = {a[j] : j \in DOMAIN a}
    BY <1>5, <2>1
  <2> QED
    BY <2>2
<1>7. \A i \in DOMAIN r : Final(r[i], c, s)
  BY <1>3, <1>6
<1>8. \A f \in Wanted(c, s, "video") : \E i \in DOMAIN r : r[i].key = f.key
  <2> SUFFICES ASSUME NEW f \in Wanted(c, s, "video") PROVE \E i \in DOMAIN r : r[i].key = f.key
    OBVIOUS
  <2>1. PICK i \in DOMAIN recs : recs[i].key = f.key
    BY DEF HasEvery
  <2>2. PICK j \in DOMAIN a : a[j] = recs[i]
    BY <1>2
  <2> QED
    BY <1>6, <2>1, <2>2
<1>9. AllBeside(r)
  <2> SUFFICES ASSUME NEW i \in DOMAIN r, r[i].kind = "subtitle"
               PROVE  \E j \in DOMAIN r : LiesBeside(r[i], r[j])
    BY DEF AllBeside
  <2>1. PICK j \in DOMAIN a : r[i] = a[j]
    BY <1>6
  <2>2. \A k \in DOMAIN recs : recs[k].kind = "video"
    BY <1>1 DEF RecordOf
  <2>3. PICK k \in DOMAIN recs : LiesBeside(a[j], recs[k])
    BY <1>2, <2>1, <2>2
  <2>4. PICK l \in DOMAIN a : a[l] = recs[k]
    BY <1>2
  <2>5. PICK n \in DOMAIN r : r[n] = a[l]
    BY <1>6
  <2> QED
    BY <2>1, <2>3, <2>4, <2>5
<1> QED
  BY <1>5, <1>7, <1>8, <1>9 DEF Distinct, AllFinal, HasEvery, Ascending, r, a

\* The records of a source go to those of the sources before.
LEMMA FinishStep == ASSUME IInv, Finish PROVE IInv'
<1> DEFINE done == Sorted(AddSubtitles(src, records, ListedIn(catalog, src, "subtitle")))
<1>1. /\ phase = "label" /\ pending = {}
      /\ all' = all \o done /\ records' = <<>> /\ used' = {}
      /\ src' = IF src < NumSources THEN src + 1 ELSE 1
      /\ phase' = IF src < NumSources THEN "collect" ELSE "build"
      /\ jobs' = IF src < NumSources THEN ListedIn(catalog, src + 1, "video") ELSE <<>>
      /\ UNCHANGED <<catalog, held, pending, tree, earlier>>
  BY DEF Finish, Listed
<1>2. State /\ Queued /\ InHand /\ Delivered /\ NoneLost /\ DoneRecords /\ Before
  BY DEF IInv
<1>3. /\ catalog \in Catalogs /\ src \in Sources /\ src \in Nat /\ NumSources \in Nat
      /\ IsSequence(records) /\ Distinct(records) /\ IsSequence(all) /\ Distinct(all)
      /\ jobs = <<>> /\ \A w \in Workers : held[w] = Idle
  BY <1>1, <1>2, MediaAssumption DEF State, Sources
<1>4. IsSequence(<<>>) /\ DOMAIN <<>> = {} /\ ToSet(<<>>) = {}
  <2>1. <<>> \in Seq({}) /\ DOMAIN <<>> = {}
    OBVIOUS
  <2> QED
    BY <2>1, SeqTyped DEF ToSet
<1>5. /\ \A i \in DOMAIN records : \E f \in Wanted(catalog, src, "video") :
           CasedRecordOf(records[i], catalog, src, f)
      /\ \A f \in Wanted(catalog, src, "video") : \E i \in DOMAIN records : records[i].key = f.key
  <2>1. \A i \in DOMAIN records : \E f \in Wanted(catalog, src, "video") :
          CasedRecordOf(records[i], catalog, src, f)
    BY <1>1, <1>2 DEF Delivered, Videos
  <2>2. AllDelivered
    BY <1>3 DEF AllDelivered
  <2>3. \A f \in Videos : \E i \in DOMAIN records : records[i].key = f.key
    BY <1>1, <1>2, <2>2, AllCollected
  <2> QED
    BY <2>1, <2>3 DEF Videos
<1>6. /\ IsSequence(done) /\ Distinct(done)
      /\ \A i \in DOMAIN done : Final(done[i], catalog, src)
      /\ \A f \in Wanted(catalog, src, "video") : \E i \in DOMAIN done : done[i].key = f.key
      /\ AllBeside(done) /\ Ascending(done)
  <2>1. /\ catalog \in Catalogs /\ src \in Sources /\ IsSequence(records) /\ Distinct(records)
    BY <1>3
  <2> QED
    <3>1. /\ AllCased(records, catalog, src) /\ HasEvery(records, catalog, src)
          /\ \A i \in DOMAIN records : Worded(records[i])
      BY <1>2, <1>5 DEF AllCased, HasEvery, Delivered
    <3>2. /\ IsSequence(done) /\ Distinct(done) /\ AllFinal(done, catalog, src)
          /\ HasEvery(done, catalog, src) /\ AllBeside(done) /\ Ascending(done)
      BY <2>1, <3>1, SourceDone
    <3> HIDE DEF done
    <3> QED
      BY <3>2 DEF AllFinal, HasEvery
<1> HIDE DEF done
<1>7. /\ DoneSources = 1 .. src - 1 /\ DoneSources' = DoneSources \cup {src}
      /\ DoneSources \subseteq Sources /\ src \notin DoneSources
  <2>1. DoneSources = 1 .. src - 1
    BY <1>1 DEF DoneSources
  <2>2. CASE src < NumSources
    <3>1. src' = src + 1 /\ phase' = "collect"
      BY <1>1, <2>2
    <3>2. DoneSources' = 1 .. (src + 1) - 1
      BY <3>1 DEF DoneSources
    <3> QED
      BY <1>3, <2>1, <3>2 DEF Sources
  <2>3. CASE ~(src < NumSources)
    <3>1. DoneSources' = Sources
      BY <1>1, <2>3 DEF DoneSources, Sources
    <3>2. src = NumSources
      BY <1>3, <2>3 DEF Sources
    <3> QED
      BY <1>3, <2>1, <3>1, <3>2 DEF Sources
  <2> QED
    BY <2>2, <2>3
<1>8. /\ IsSequence(all') /\ DOMAIN all' = 1 .. Len(all) + Len(done)
      /\ \A i \in 1 .. Len(all) : all'[i] = all[i]
      /\ \A i \in 1 .. Len(done) : all'[Len(all) + i] = done[i]
      /\ DOMAIN all = 1 .. Len(all) /\ DOMAIN done = 1 .. Len(done)
      /\ Len(all) \in Nat /\ Len(done) \in Nat
  <2>1. /\ IsSequence(all \o done) /\ DOMAIN (all \o done) = 1 .. Len(all) + Len(done)
        /\ \A i \in 1 .. Len(all) : (all \o done)[i] = all[i]
        /\ \A i \in 1 .. Len(done) : (all \o done)[Len(all) + i] = done[i]
    BY <1>3, <1>6, SeqConcat
  <2>2. /\ DOMAIN all = 1 .. Len(all) /\ DOMAIN done = 1 .. Len(done)
        /\ Len(all) \in Nat /\ Len(done) \in Nat
    BY <1>3, <1>6, SeqDomain
  <2> QED
    BY <1>1, <2>1, <2>2
<1>9. \A j \in DOMAIN all' :
        \/ j \in DOMAIN all /\ all'[j] = all[j]
        \/ j - Len(all) \in DOMAIN done /\ all'[j] = done[j - Len(all)]
  <2> SUFFICES ASSUME NEW j \in DOMAIN all', j \notin DOMAIN all
               PROVE  j - Len(all) \in DOMAIN done /\ all'[j] = done[j - Len(all)]
    BY <1>8
  <2>1. j - Len(all) \in 1 .. Len(done) /\ Len(all) + (j - Len(all)) = j
    BY <1>8
  <2> QED
    BY <1>8, <2>1
<1>10. /\ \A i \in DOMAIN all : i \in DOMAIN all' /\ all'[i] = all[i]
       /\ \A i \in DOMAIN done : Len(all) + i \in DOMAIN all' /\ all'[Len(all) + i] = done[i]
  BY <1>8
<1>11. Distinct(all')
  <2> SUFFICES ASSUME NEW i \in DOMAIN all', NEW j \in DOMAIN all', all'[i].key = all'[j].key
               PROVE  i = j
    BY DEF Distinct
  <2>0. i \in Int /\ j \in Int
    BY <1>8
  <2>1. \A k \in DOMAIN all : \E s \in DoneSources : \E f \in ToSet(catalog[s]) : all[k].key = f.key
    BY <1>2 DEF DoneRecords, Final, SubtitleOf, CasedRecordOf, RecordOf, Wanted
  <2>2. \A n \in DOMAIN done : \E f \in ToSet(catalog[src]) : done[n].key = f.key
    BY <1>6 DEF Final, SubtitleOf, CasedRecordOf, RecordOf, Wanted
  <2>3. \A s, t \in Sources : \A f \in ToSet(catalog[s]), g \in ToSet(catalog[t]) :
          f.key = g.key => s = t /\ f = g
    BY <1>3, Keys
  <2>4. \A k \in DOMAIN all, n \in DOMAIN done : all[k].key # done[n].key
    BY <1>3, <1>7, <2>1, <2>2, <2>3
  <2>5. CASE all'[i] = all[i] /\ all'[j] = all[j] /\ i \in DOMAIN all /\ j \in DOMAIN all
    BY <1>3, <2>5 DEF Distinct
  <2>6. ASSUME i - Len(all) \in DOMAIN done, all'[i] = done[i - Len(all)],
               j - Len(all) \in DOMAIN done, all'[j] = done[j - Len(all)]
        PROVE  i = j
    <3>1. i - Len(all) = j - Len(all)
      BY <1>6, <2>6 DEF Distinct
    <3> QED
      BY <1>8, <2>0, <3>1
  <2> QED
    BY <1>9, <2>4, <2>5, <2>6
<1>12. DoneRecords'
  <2>1. \A i \in DOMAIN all' : \E s \in DoneSources' : Final(all'[i], catalog, s)
    <3>1. \A i \in DOMAIN all : \E s \in DoneSources' : Final(all[i], catalog, s)
      BY <1>2, <1>7 DEF DoneRecords
    <3>2. \A i \in DOMAIN done : \E s \in DoneSources' : Final(done[i], catalog, s)
      BY <1>6, <1>7
    <3> QED
      BY <1>9, <3>1, <3>2
  <2>2. ASSUME NEW s \in DoneSources', NEW f \in Wanted(catalog, s, "video")
        PROVE  \E i \in DOMAIN all' : all'[i].key = f.key
    <3>1. CASE s \in DoneSources
      <4>1. PICK i \in DOMAIN all : all[i].key = f.key
        BY <1>2, <3>1 DEF DoneRecords
      <4> QED
        BY <1>10, <4>1
    <3>2. CASE s = src
      <4>1. PICK i \in DOMAIN done : done[i].key = f.key
        BY <1>6, <3>2
      <4> QED
        BY <1>10, <4>1
    <3> QED
      BY <1>7, <3>1, <3>2
  <2>3. AllBeside(all')
    <3> SUFFICES ASSUME NEW i \in DOMAIN all', all'[i].kind = "subtitle"
                 PROVE  \E j \in DOMAIN all' : LiesBeside(all'[i], all'[j])
      BY DEF AllBeside
    <3>1. ASSUME i \in DOMAIN all, all'[i] = all[i]
          PROVE  \E j \in DOMAIN all' : LiesBeside(all'[i], all'[j])
      <4>1. PICK j \in DOMAIN all : LiesBeside(all[i], all[j])
        BY <1>2, <3>1 DEF DoneRecords, AllBeside
      <4> QED
        BY <1>10, <3>1, <4>1
    <3>2. ASSUME i - Len(all) \in DOMAIN done, all'[i] = done[i - Len(all)]
          PROVE  \E j \in DOMAIN all' : LiesBeside(all'[i], all'[j])
      <4>1. PICK j \in DOMAIN done : LiesBeside(done[i - Len(all)], done[j])
        BY <1>6, <3>2 DEF AllBeside
      <4> QED
        BY <1>10, <3>2, <4>1
    <3> QED
      BY <1>9, <3>1, <3>2
  <2>4. Ascending(all')
    <3> SUFFICES ASSUME NEW i \in DOMAIN all', NEW j \in DOMAIN all', i < j,
                        all'[i].type = all'[j].type
                 PROVE  all'[i].key <= all'[j].key
      BY DEF Ascending
    <3>1. /\ \A k \in DOMAIN all : all[k].type \in DoneSources
          /\ \A k \in DOMAIN done : done[k].type = src
      BY <1>2, <1>6 DEF DoneRecords, Final, SubtitleOf, CasedRecordOf, RecordOf
    <3>2. CASE i \in DOMAIN all /\ all'[i] = all[i] /\ j \in DOMAIN all /\ all'[j] = all[j]
      BY <1>2, <3>2 DEF DoneRecords, Ascending
    <3>3. ASSUME i - Len(all) \in DOMAIN done, all'[i] = done[i - Len(all)],
                 j - Len(all) \in DOMAIN done, all'[j] = done[j - Len(all)]
          PROVE  all'[i].key <= all'[j].key
      <4>1. i - Len(all) < j - Len(all)
        BY <1>8
      <4> QED
        BY <1>6, <3>3, <4>1 DEF Ascending
    <3> QED
      BY <1>7, <1>9, <3>1, <3>2, <3>3
  <2> QED
    BY <1>1, <2>1, <2>2, <2>3, <2>4 DEF DoneRecords
<1>13. Before'
  BY <1>1, <1>2 DEF Before
<1>14. /\ src' \in Sources /\ phase' \in {"collect", "build"}
       /\ phase' = "build" => src' = 1 /\ jobs' = <<>>
  BY <1>1, <1>3, MediaAssumption DEF Sources
<1>15. /\ IsSequence(jobs')
       /\ phase' = "collect" => ToSet(jobs') = Videos'
       /\ \A i \in DOMAIN jobs' : jobs'[i] \in Videos'
       /\ \A m, n \in DOMAIN jobs' : jobs'[m] = jobs'[n] => m = n
  <2>1. CASE src < NumSources
    <3>1. src + 1 \in Sources /\ src' = src + 1 /\ jobs' = ListedIn(catalog, src + 1, "video")
      BY <1>1, <1>3, <2>1 DEF Sources
    <3>2. Videos' = Wanted(catalog, src + 1, "video")
      BY <1>1, <3>1 DEF Videos
    <3>3. /\ IsSequence(jobs') /\ ToSet(jobs') = Videos'
          /\ \A m, n \in DOMAIN jobs' : jobs'[m] = jobs'[n] => m = n
      BY <1>3, <3>1, <3>2, Listing
    <3> QED
      BY <3>3 DEF ToSet
  <2>2. CASE ~(src < NumSources)
    BY <1>1, <1>4, <2>2
  <2> QED
    BY <2>1, <2>2
<1>16. State'
  BY <1>1, <1>2, <1>3, <1>4, <1>8, <1>11, <1>14, <1>15 DEF State, Distinct
<1>17. Queued' /\ InHand'
  BY <1>1, <1>3, <1>15 DEF Queued, InHand
<1>18. Delivered'
  BY <1>1, <1>4 DEF Delivered
<1>19. NoneLost'
  BY <1>14, <1>15 DEF NoneLost
<1> QED
  BY <1>12, <1>13, <1>16, <1>17, <1>18, <1>19 DEF IInv

-----------------------------------------------------------------------------
(* The theorems *)

\* Every step keeps the invariant.
LEMMA StepIInv == IInv /\ [Next]_vars => IInv'
<1> SUFFICES ASSUME IInv, [Next]_vars PROVE IInv'
  OBVIOUS
<1>1. ASSUME NEW w \in Workers, Take(w) PROVE IInv'
  BY <1>1, TakeStep
<1>2. ASSUME NEW w \in Workers, Deliver(w) PROVE IInv'
  BY <1>2, DeliverStep
<1>3. CASE Collected
  BY <1>3, CollectedStep
<1>4. ASSUME NEW group \in pending, LabelGroup(group) PROVE IInv'
  BY <1>4, LabelGroupStep
<1>5. CASE Finish
  BY <1>5, FinishStep
<1>6. CASE BuildTree
  BY <1>6, BuildTreeStep
<1>7. CASE Refresh
  BY <1>7, RefreshStep
<1>8. CASE UNCHANGED vars
  <2>1. /\ State' /\ Queued' /\ InHand' /\ Delivered' /\ NoneLost'
    BY <1>8 DEF IInv, State, Queued, InHand, Delivered, NoneLost, Videos, vars
  <2>2. DoneRecords' /\ Before'
    BY <1>8, PastKept DEF IInv, DoneSources, vars
  <2> QED
    BY <2>1, <2>2 DEF IInv
<1> QED
  BY <1>1, <1>2, <1>3, <1>4, <1>5, <1>6, <1>7, <1>8 DEF Next

\* The invariant holds in every state: what ProcessItems, the casing, the
\* labels and the subtitles keep of the records, in any order of delivery.
THEOREM Inductive == Spec => []IInv
<1> QED
  BY InitIInv, StepIInv, PTL DEF Spec

\* The variables of a refresh have their types: what is held is a video of the
\* source being processed, and only videos are labelled.
THEOREM TypeCorrect == Spec => []TypeOK
<1>1. IInv => TypeOK
  <2> SUFFICES ASSUME IInv PROVE TypeOK
    OBVIOUS
  <2>1. State /\ InHand /\ Delivered
    BY DEF IInv
  <2>2. \A w \in Workers : held[w] = Idle \/ held[w] \in ToSet(catalog[src])
    BY <2>1 DEF InHand, Videos, Wanted
  <2>3. \A i \in DOMAIN records : records[i].kind = "video"
    BY <2>1 DEF Delivered, RecordOf
  <2> QED
    BY <2>1, <2>2, <2>3 DEF State, TypeOK
<1> QED
  BY <1>1, Inductive, PTL

\* Whichever worker delivers when, the store and the tree are made of one record
\* for each cached video and at most one for each subtitle (process.go:14-73): the
\* pool drops none and doubles none, and neither do casing, labels and sorting.
THEOREM EveryVideoOnceHolds == Spec => []EveryVideoOnce
<1>1. IInv => EveryVideoOnce
  <2> SUFFICES ASSUME IInv, phase \in {"build", "built"}
               PROVE  /\ Distinct(all)
                      /\ {r.key : r \in {q \in ToSet(all) : q.kind = "video"}} =
                           UNION {{f.key : f \in ToSet(Listed(s, "video"))} : s \in Sources}
                      /\ {r.key : r \in {q \in ToSet(all) : q.kind = "subtitle"}} \subseteq
                           UNION {{f.key : f \in ToSet(Listed(s, "subtitle"))} : s \in Sources}
    BY DEF EveryVideoOnce, Distinct
  <2>1. /\ catalog \in Catalogs /\ Distinct(all)
        /\ \A i \in DOMAIN all : \E s \in Sources : Final(all[i], catalog, s)
        /\ \A s \in Sources : \A f \in Wanted(catalog, s, "video") :
             \E i \in DOMAIN all : all[i].key = f.key
    BY DEF IInv, State, DoneRecords, DoneSources
  <2>2. \A s \in Sources, kind \in {"video", "subtitle"} :
          ToSet(Listed(s, kind)) = Wanted(catalog, s, kind)
    BY <2>1, Listing DEF Listed
  <2>3. \A r \in ToSet(all) : \E s \in Sources :
          /\ r.kind \in {"video", "subtitle"}
          /\ \E f \in Wanted(catalog, s, r.kind) : f.key = r.key
    BY <2>1 DEF ToSet, Final, SubtitleOf, CasedRecordOf, RecordOf
  <2>4. \A s, t \in Sources : \A f \in ToSet(catalog[s]), g \in ToSet(catalog[t]) :
          f.key = g.key => s = t /\ f = g
    BY <2>1, Keys
  <2>5. ASSUME NEW s \in Sources, NEW f \in Wanted(catalog, s, "video")
        PROVE  \E r \in ToSet(all) : r.kind = "video" /\ r.key = f.key
    <3>1. PICK r \in ToSet(all) : r.key = f.key
      BY <2>1 DEF ToSet
    <3>2. PICK t \in Sources : \E g \in Wanted(catalog, t, r.kind) : g.key = r.key
      BY <2>3
    <3>3. PICK g \in Wanted(catalog, t, r.kind) : g.key = r.key
      BY <3>2
    <3>4. f.kind = "video" /\ g.kind = r.kind /\ f \in ToSet(catalog[s]) /\ g \in ToSet(catalog[t])
      BY DEF Wanted
    <3>5. f = g
      BY <2>4, <3>1, <3>3, <3>4
    <3> QED
      BY <3>1, <3>4, <3>5
  <2>6. {r.key : r \in {q \in ToSet(all) : q.kind = "video"}} =
          UNION {{f.key : f \in Wanted(catalog, s, "video")} : s \in Sources}
    BY <2>3, <2>5
  <2>7. {r.key : r \in {q \in ToSet(all) : q.kind = "subtitle"}} \subseteq
          UNION {{f.key : f \in Wanted(catalog, s, "subtitle")} : s \in Sources}
    BY <2>3
  <2>8. /\ {{f.key : f \in ToSet(Listed(s, "video"))} : s \in Sources} =
             {{f.key : f \in Wanted(catalog, s, "video")} : s \in Sources}
        /\ {{f.key : f \in ToSet(Listed(s, "subtitle"))} : s \in Sources} =
             {{f.key : f \in Wanted(catalog, s, "subtitle")} : s \in Sources}
    BY <2>2
  <2> QED
    BY <2>1, <2>6, <2>7, <2>8
<1> QED
  BY <1>1, Inductive, PTL

\* A second refresh of an unchanged library gives every video the root folder it
\* had (canonical_case.go:27-60): the choice among the spellings does not depend
\* on the order of delivery, since it is made on sorted records and ends in keys.
THEOREM SpellingIsStableHolds == Spec => []SpellingIsStable
<1>1. IInv => SpellingIsStable
  <2> SUFFICES ASSUME IInv, phase = "built", NEW p \in ToSet(earlier), NEW q \in ToSet(all),
                      p.key = q.key, p.kind = "video"
               PROVE  p.root = q.root
    BY DEF SpellingIsStable
  <2>1. catalog \in Catalogs
    BY DEF IInv, State
  <2>2. PICK s \in Sources : Final(p, catalog, s)
    BY DEF IInv, Before, ToSet
  <2>3. PICK t \in Sources : Final(q, catalog, t)
    BY DEF IInv, DoneRecords, DoneSources, ToSet
  <2>4. PICK f \in Wanted(catalog, s, "video") : CasedRecordOf(p, catalog, s, f)
    BY <2>2 DEF Final, SubtitleOf
  <2>5. p.key = f.key /\ p.root = Spelled(catalog, s, f) /\ f \in ToSet(catalog[s]) /\ f.kind = "video"
    BY <2>4 DEF CasedRecordOf, RecordOf, Wanted
  <2>6. \A g \in ToSet(catalog[t]) : g.key = f.key => s = t /\ g = f
    BY <2>1, <2>5, Keys
  <2>7. PICK g \in Wanted(catalog, t, "video") : CasedRecordOf(q, catalog, t, g)
    <3>1. ASSUME NEW g \in Wanted(catalog, t, "subtitle"), q.key = g.key PROVE FALSE
      BY <2>5, <2>6, <3>1 DEF Wanted
    <3> QED
      BY <2>3, <3>1 DEF Final, SubtitleOf
  <2>8. g \in ToSet(catalog[t]) /\ g.key = f.key /\ q.root = Spelled(catalog, t, g)
    BY <2>5, <2>7 DEF CasedRecordOf, RecordOf, Wanted
  <2> QED
    BY <2>5, <2>6, <2>8
<1> QED
  BY <1>1, Inductive, PTL

\* After the casing, roots of a media type that differ only in case are the same
\* (canonical_case.go:9-10, 27-60), for every library and every table of letters.
THEOREM OneSpellingPerTitleHolds == Spec => []OneSpellingPerTitle
<1>1. IInv => OneSpellingPerTitle
  <2> SUFFICES ASSUME IInv, phase = "label", NEW i \in DOMAIN records, NEW j \in DOMAIN records,
                      records[i].media = records[j].media,
                      Folded(records[i].root) = Folded(records[j].root)
               PROVE  records[i].root = records[j].root
    BY DEF OneSpellingPerTitle
  <2>1. catalog \in Catalogs /\ src \in Sources
    BY DEF IInv, State
  <2>2. \A k \in DOMAIN records : \E f \in Wanted(catalog, src, "video") :
          records[k].media = Classify(f).media /\ records[k].root = Spelled(catalog, src, f)
    BY DEF IInv, Delivered, Videos, CasedRecordOf
  <2>3. PICK f \in Wanted(catalog, src, "video") :
          records[i].media = Classify(f).media /\ records[i].root = Spelled(catalog, src, f)
    BY <2>2
  <2>4. PICK g \in Wanted(catalog, src, "video") :
          records[j].media = Classify(g).media /\ records[j].root = Spelled(catalog, src, g)
    BY <2>2
  <2>5. /\ Classify(f).media = Classify(g).media
        /\ Folded(Spelled(catalog, src, f)) = Folded(Spelled(catalog, src, g))
    BY <2>3, <2>4
  <2> QED
    BY <2>1, <2>3, <2>4, <2>5, SpelledAlike
<1> QED
  BY <1>1, Inductive, PTL

\* The names of the videos tell their works apart, up to the case of letters.
TitlesTellWorks ==
  \A f, g \in Videos : NoText \notin {f.work, g.work} =>
    (f.work = g.work <=> /\ Classify(f).media = Classify(g).media
                         /\ Folded(Classify(f).root) = Folded(Classify(g).root))

\* Whoever delivers first, the works of a source have a folder each exactly if
\* Classify reads them in the names (intelliseg.go:150-230): the casing
\* (canonical_case.go:27-60) joins the folders that differ only by case, and never
\* two others, and labels do not move a video.
THEOREM WorksKeepTheirFolderHolds ==
  Spec => [](phase = "label" => (WorksKeepTheirFolder <=> TitlesTellWorks))
<1>1. IInv /\ phase = "label" => (WorksKeepTheirFolder <=> TitlesTellWorks)
  <2> SUFFICES ASSUME IInv, phase = "label" PROVE WorksKeepTheirFolder <=> TitlesTellWorks
    OBVIOUS
  <2> DEFINE told(f, g) ==
               NoText \notin {f.work, g.work} =>
                 (f.work = g.work <=> /\ Classify(f).media = Classify(g).media
                                      /\ Folded(Classify(f).root) = Folded(Classify(g).root))
             kept(i, j) ==
               NoText \notin {FileOf(records[i]).work, FileOf(records[j]).work} =>
                 (FileOf(records[i]).work = FileOf(records[j]).work
                    <=> records[i].media = records[j].media /\ records[i].root = records[j].root)
             of(i, f) == /\ FileOf(records[i]) = f /\ records[i].media = Classify(f).media
                         /\ records[i].root = Spelled(catalog, src, f)
  <2>1. catalog \in Catalogs /\ src \in Sources
    BY DEF IInv, State
  <2>2. ASSUME NEW i \in DOMAIN records, NEW f \in Videos, CasedRecordOf(records[i], catalog, src, f)
        PROVE  of(i, f)
    <3>1. records[i].key = f.key /\ f \in ToSet(catalog[src])
      BY <2>2 DEF CasedRecordOf, RecordOf, Videos, Wanted
    <3>2. FileOf(records[i]) = f
      BY <2>1, <3>1, Keys DEF FileOf
    <3> QED
      BY <2>2, <3>2 DEF CasedRecordOf
  <2>3. \A i \in DOMAIN records : \E f \in Videos : CasedRecordOf(records[i], catalog, src, f)
    BY DEF IInv, Delivered
  <2>4. \A f \in Videos : \E i \in DOMAIN records : CasedRecordOf(records[i], catalog, src, f)
    <3> SUFFICES ASSUME NEW f \in Videos
                 PROVE  \E i \in DOMAIN records : CasedRecordOf(records[i], catalog, src, f)
      OBVIOUS
    <3>1. State /\ NoneLost /\ AllDelivered
      BY DEF IInv, State, AllDelivered
    <3>2. PICK i \in DOMAIN records : records[i].key = f.key
      BY <3>1, AllCollected
    <3>3. PICK g \in Videos : CasedRecordOf(records[i], catalog, src, g)
      BY <2>3
    <3>4. g.key = f.key /\ g \in ToSet(catalog[src]) /\ f \in ToSet(catalog[src])
      BY <3>2, <3>3 DEF CasedRecordOf, RecordOf, Videos, Wanted
    <3>5. g = f
      BY <2>1, <3>4, Keys
    <3> QED
      BY <3>3, <3>5
  <2>5. ASSUME NEW f \in Videos, NEW g \in Videos
        PROVE  Classify(f).media = Classify(g).media =>
                 (Folded(Classify(f).root) = Folded(Classify(g).root)
                    <=> Spelled(catalog, src, f) = Spelled(catalog, src, g))
    <3>1. /\ Folded(Spelled(catalog, src, f)) = Folded(Classify(f).root)
          /\ Folded(Spelled(catalog, src, g)) = Folded(Classify(g).root)
      BY <2>1, SpelledFolds DEF Videos
    <3> QED
      BY <2>1, <3>1, SpelledAlike DEF Videos
  <2>6. ASSUME NEW i \in DOMAIN records, NEW j \in DOMAIN records, NEW f \in Videos, NEW g \in Videos,
               of(i, f), of(j, g)
        PROVE  kept(i, j) <=> told(f, g)
    BY <2>5, <2>6
  <2>7. WorksKeepTheirFolder <=> \A i, j \in DOMAIN records : kept(i, j)
    <3>1. \A a, b : ToSet(<<a, b>>) = {a, b}
      BY DEF ToSet
    <3> QED
      BY <3>1 DEF WorksKeepTheirFolder
  <2>8. TitlesTellWorks <=> \A f, g \in Videos : told(f, g)
    BY DEF TitlesTellWorks
  <2> HIDE DEF of, kept, told
  <2> QED
    BY <2>2, <2>3, <2>4, <2>6, <2>7, <2>8
<1> QED
  BY <1>1, Inductive, PTL

\* A subtitle is in the folder of a video of its item and begins with its name, as
\* players want it (process.go:63-99), after all labels have been given.
THEOREM SubtitleBesideVideoHolds == Spec => []SubtitleBesideVideo
<1>1. IInv => SubtitleBesideVideo
  <2> SUFFICES ASSUME IInv, NEW r \in ToSet(all), r.kind = "subtitle"
               PROVE  \E v \in ToSet(all) :
                        /\ v.kind = "video" /\ v.item = r.item
                        /\ Front(RecordPath(v)) = Front(RecordPath(r))
                        /\ IsPrefix(Front(v.name), r.name)
    BY DEF SubtitleBesideVideo
  <2>1. PICK i \in DOMAIN all : r = all[i]
    BY DEF ToSet
  <2>2. PICK j \in DOMAIN all : LiesBeside(r, all[j])
    BY <2>1 DEF IInv, DoneRecords, AllBeside
  <2> QED
    BY <2>2 DEF ToSet, LiesBeside
<1> QED
  BY <1>1, Inductive, PTL

-----------------------------------------------------------------------------
(* Labels and paths *)

\* A labelled name is another one, of the words of its record.
LEMMA LabelledTexts ==
  ASSUME NEW r, Worded(r), NEW label \in Seq(Words(r))
  PROVE  LET name == Labelled(r, label) IN
         /\ name \in Seq(Words(r)) /\ name # r.name
         /\ IsPrefix(Front(r.name) \o <<"-">>, name)
         /\ ToSet(label) \subseteq ToSet(name)
<1> DEFINE W == Words(r)
           front == Front(r.name)
           last == Last(r.name)
           begin == front \o <<"-">>
           body == begin \o label
           name == Labelled(r, label)
<1>1. r.name \in Seq(W) /\ r.name # <<>> /\ label \in Seq(W) /\ "-" \in W
  <2>1. IsSequence(r.name) /\ ToSet(r.name) \subseteq W /\ label \in Seq(W)
    BY DEF Worded, Words
  <2>2. "-" \in W /\ r.name # <<>>
    BY DEF Worded, Words
  <2> HIDE DEF W
  <2> QED
    BY <2>1, <2>2, TextOf
<1> HIDE DEF W
<1>2. Len(r.name) \in Nat \ {0}
  BY <1>1
<1>3. front \in Seq(W) /\ Len(front) = Len(r.name) - 1 /\ last \in W
  BY <1>1, <1>2 DEF Front, Last
<1>4. name = body \o <<last>>
  BY DEF Labelled, Dashed
<1> HIDE DEF front, last, name
<1>5. begin \in Seq(W) /\ Len(begin) = Len(r.name)
  BY <1>1, <1>2, <1>3
<1> HIDE DEF begin
<1>6. /\ body \in Seq(W) /\ Len(body) = Len(r.name) + Len(label) /\ Len(label) \in Nat
      /\ \A i \in 1 .. Len(label) : body[Len(begin) + i] = label[i]
  <2>1. IsSequence(begin) /\ IsSequence(label) /\ Len(label) \in Nat
    BY <1>1, <1>5, SeqTyped
  <2>2. body \in Seq(W)
    BY <1>1, <1>5
  <2>3. Len(body) = Len(begin) + Len(label) /\ \A i \in 1 .. Len(label) : body[Len(begin) + i] = label[i]
    BY <2>1, SeqConcat
  <2> QED
    BY <1>5, <2>1, <2>2, <2>3
<1> HIDE DEF body
<1>7. /\ name \in Seq(W) /\ Len(name) = Len(body) + 1
      /\ \A i \in 1 .. Len(body) : name[i] = body[i]
  BY <1>3, <1>4, <1>6
<1>8. name # r.name
  BY <1>2, <1>6, <1>7
<1>9. IsPrefix(begin, name)
  <2>1. IsSequence(begin) /\ IsSequence(label)
    BY <1>1, <1>5, SeqTyped
  <2> QED
    BY <1>4, <2>1, PrefixOfThree DEF body
<1>10. ASSUME NEW w \in ToSet(label) PROVE w \in ToSet(name)
  <2>1. PICK i \in 1 .. Len(label) : w = label[i]
    BY <1>1 DEF ToSet
  <2>2. Len(begin) + i \in 1 .. Len(body)
    BY <1>2, <1>5, <1>6
  <2>3. name[Len(begin) + i] = w
    BY <1>6, <1>7, <2>1, <2>2
  <2>4. Len(begin) + i \in DOMAIN name
    BY <1>6, <1>7, <2>2
  <2> QED
    BY <2>3, <2>4 DEF ToSet
<1> QED
  BY <1>7, <1>8, <1>9, <1>10 DEF W, name, begin, front

\* One round of the loop gives a name whose path is not taken, or which has the id.
LEMMA RoundLabels ==
  ASSUME NEW g, NEW i, Worded(g.recs[i])
  PROVE  LET r == g.recs[i]
             h == LabelOne(g, i)
         IN  \E name \in Seq(Words(r)) :
               /\ h.recs = [g.recs EXCEPT ![i].name = name]
               /\ h.used = (g.used \ {OwnPath(r)}) \cup {PathKey(r, name)}
               /\ name # r.name /\ IsPrefix(Front(r.name) \o <<"-">>, name)
               /\ \/ PathKey(r, name) \notin g.used \ {OwnPath(r)}
                  \/ ToSet(ShortStableID(r)) \subseteq ToSet(name)
<1> DEFINE r == g.recs[i]
           fresh == FreshLabel(g, r)
           id == ShortStableID(r)
           long == Dashed(fresh, id)
           taken == \/ Labelled(r, fresh) \in g.names
                    \/ PathKey(r, Labelled(r, fresh)) \in g.used \ {OwnPath(r)}
           label == IF taken THEN long ELSE fresh
           h == LabelOne(g, i)
           name == Labelled(r, label)
<1>1. h = Relabel(g, i, label)
  BY DEF LabelOne
<1>2. /\ h.recs = [g.recs EXCEPT ![i].name = name]
      /\ h.used = (g.used \ {OwnPath(r)}) \cup {PathKey(r, name)}
  <2> HIDE DEF label, h
  <2> QED
    BY <1>1 DEF Relabel
<1>3. fresh \in Seq(Words(r)) /\ id \in Seq(Words(r)) /\ "-" \in Words(r) /\ Worded(r)
  <2>1. fresh \in Seq(Words(r)) /\ id \in Seq(Words(r))
    BY LabelWords
  <2>2. "-" \in Words(r)
    BY DEF Words
  <2> QED
    BY <2>1, <2>2
<1> HIDE DEF fresh, id, r
<1>4. long \in Seq(Words(r)) /\ ToSet(id) \subseteq ToSet(long)
  <2> DEFINE W == Words(r)
             begin == fresh \o <<"-">>
  <2>1. fresh \in Seq(W) /\ id \in Seq(W) /\ "-" \in W
    BY <1>3
  <2> HIDE DEF W
  <2>2. begin \in Seq(W) /\ Len(begin) \in Nat /\ long = begin \o id
    BY <2>1 DEF Dashed
  <2> HIDE DEF begin, long
  <2>3. /\ long \in Seq(W) /\ Len(long) = Len(begin) + Len(id) /\ Len(id) \in Nat
        /\ \A k \in 1 .. Len(id) : long[Len(begin) + k] = id[k]
    BY <2>1, <2>2
  <2>4. ASSUME NEW w \in ToSet(id) PROVE w \in ToSet(long)
    <3>1. PICK k \in 1 .. Len(id) : w = id[k]
      BY <2>1 DEF ToSet
    <3>2. Len(begin) + k \in 1 .. Len(long) /\ long[Len(begin) + k] = w
      BY <2>2, <2>3, <3>1
    <3>3. Len(begin) + k \in DOMAIN long
      BY <2>3, <3>2
    <3> QED
      BY <3>2, <3>3 DEF ToSet
  <2> QED
    BY <2>3, <2>4 DEF W
<1> HIDE DEF long
<1>5. label \in Seq(Words(r))
  BY <1>3, <1>4
<1>6. /\ name \in Seq(Words(r)) /\ name # r.name /\ IsPrefix(Front(r.name) \o <<"-">>, name)
      /\ ToSet(label) \subseteq ToSet(name)
  <2> HIDE DEF label
  <2> QED
    BY <1>3, <1>5, LabelledTexts
<1>7. \/ PathKey(r, name) \notin g.used \ {OwnPath(r)}
      \/ ToSet(id) \subseteq ToSet(name)
  <2>1. CASE taken
    BY <1>4, <1>6, <2>1
  <2>2. CASE ~taken
    BY <2>2
  <2> QED
    BY <2>1, <2>2
<1> HIDE DEF name, h
<1> QED
  BY <1>2, <1>6, <1>7 DEF r, h, id

\* What is asked of the names of a source, of which the loop checks nothing: the id
\* of a video (shortStableID) is not among the words of another; two that are given
\* one path are versions of one movie or episode; and no such path is that of a
\* third version followed by a dash.
Clear(recs) ==
  /\ \A i, j \in DOMAIN recs : i # j => ToSet(ShortStableID(recs[i])) \cap Words(recs[j]) = {}
  /\ \A i, j \in Grouped(recs) :
       OwnPath(recs[i]) = OwnPath(recs[j]) => GroupKey(recs[i]) = GroupKey(recs[j])
  /\ \A i, j, k \in Grouped(recs) :
       i # j /\ j # k /\ GroupKey(recs[i]) = GroupKey(recs[j]) /\ OwnPath(recs[j]) = OwnPath(recs[k])
         => ~IsPrefix(Front(recs[i].name) \o <<"-">>, recs[j].name)

Relabelled(recs, old, i) == recs[i].name # old[i].name
Apart(recs, old) ==
  \A i, j \in Grouped(old) :
    i # j /\ Relabelled(recs, old, i) => OwnPath(recs[i]) # OwnPath(recs[j])

\* seq is a group, and the records in it have their first names.
OneGroup(seq, recs, old) ==
  /\ IsSequence(seq)
  /\ \A n \in 1 .. Len(seq) : seq[n] \in Grouped(old) /\ recs[seq[n]] = old[seq[n]]
  /\ \A m, n \in 1 .. Len(seq) : seq[m] = seq[n] => m = n
  /\ \A n \in 1 .. Len(seq) : \A j \in Grouped(old) :
       GroupKey(old[seq[n]]) = GroupKey(old[j]) <=> \E m \in 1 .. Len(seq) : seq[m] = j

Reached(seq, n, i) == \E m \in 1 .. n : seq[m] = i

\* After n rounds of the loop over seq: every video's path is in usedPaths, except
\* where it awaits its label and another version, labelled before, has left it.
Labelling(g, n, seq, recs, old) ==
  /\ Renamed(g.recs, old) /\ Apart(g.recs, old)
  /\ \A i \in DOMAIN old : g.recs[i].name \in Seq(Words(old[i]))
  /\ \A i \in DOMAIN old : IF Reached(seq, n, i) THEN Relabelled(g.recs, old, i)
                            ELSE g.recs[i] = recs[i]
  /\ \A i \in Grouped(old) :
       \/ OwnPath(g.recs[i]) \in g.used
       \/ /\ ~Reached(seq, n, i)
          /\ \E j \in Grouped(old) : Reached(seq, n, j) /\ OwnPath(old[j]) = OwnPath(old[i])

\* One round of the loop keeps it.
LEMMA RoundKeepsApart ==
  ASSUME NEW old, Clear(old), \A i \in DOMAIN old : Worded(old[i]),
         NEW recs, NEW seq, OneGroup(seq, recs, old), NEW n \in 1 .. Len(seq),
         NEW g, Labelling(g, n - 1, seq, recs, old)
  PROVE  Labelling(LabelOne(g, seq[n]), n, seq, recs, old)
<1> DEFINE i == seq[n]
           r == old[i]
           h == LabelOne(g, i)
<1>1. /\ i \in Grouped(old) /\ i \in DOMAIN old /\ recs[i] = r /\ n \in Nat /\ Len(seq) \in Nat
      /\ 1 .. n = (1 .. (n - 1)) \cup {n} /\ 1 .. (n - 1) \subseteq 1 .. Len(seq)
  <2>1. Len(seq) \in Nat
    BY SeqDomain DEF OneGroup
  <2>2. 1 .. n = (1 .. (n - 1)) \cup {n} /\ 1 .. (n - 1) \subseteq 1 .. Len(seq) /\ n \in Nat
    BY <2>1
  <2> QED
    BY <2>1, <2>2 DEF OneGroup, Grouped
<1>2. ~Reached(seq, n - 1, i) /\ \A j : Reached(seq, n, j) <=> Reached(seq, n - 1, j) \/ j = i
  <2>1. \A m \in 1 .. (n - 1) : m # n
    BY <1>1
  <2> QED
    BY <1>1, <2>1 DEF Reached, OneGroup
<1>3. g.recs[i] = r /\ Worded(r) /\ Renamed(g.recs, old)
  BY <1>1, <1>2 DEF Labelling
<1>4. PICK name \in Seq(Words(r)) :
        /\ h.recs = [g.recs EXCEPT ![i].name = name]
        /\ h.used = (g.used \ {OwnPath(r)}) \cup {PathKey(r, name)}
        /\ name # r.name /\ IsPrefix(Front(r.name) \o <<"-">>, name)
        /\ \/ PathKey(r, name) \notin g.used \ {OwnPath(r)}
           \/ ToSet(ShortStableID(r)) \subseteq ToSet(name)
  <2>1. Worded(g.recs[i])
    BY <1>3
  <2> DEFINE q == g.recs[i]
  <2>2. \E name \in Seq(Words(q)) :
          /\ h.recs = [g.recs EXCEPT ![i].name = name]
          /\ h.used = (g.used \ {OwnPath(q)}) \cup {PathKey(q, name)}
          /\ name # q.name /\ IsPrefix(Front(q.name) \o <<"-">>, name)
          /\ \/ PathKey(q, name) \notin g.used \ {OwnPath(q)}
             \/ ToSet(ShortStableID(q)) \subseteq ToSet(name)
    <3> HIDE DEF i, r
    <3> QED
      BY <2>1, RoundLabels
  <2>3. q = r
    BY <1>3
  <2> HIDE DEF q, r, i, h
  <2> QED
    BY <2>2, <2>3
<1> DEFINE P == PathKey(r, name)
<1> HIDE DEF h, i, r
<1>5. Renamed(h.recs, old)
  BY <1>3, RoundRenames DEF h
<1>6. /\ DOMAIN g.recs = DOMAIN old
      /\ \A j \in DOMAIN old : j # i => h.recs[j] = g.recs[j]
      /\ h.recs[i] = [r EXCEPT !.name = name]
  BY <1>1, <1>3, <1>4 DEF Renamed
<1>7. /\ DOMAIN r = Others \cup {"name"} /\ h.recs[i].name = name
      /\ OwnPath(h.recs[i]) = P
  <2>1. DOMAIN r = Others \cup {"name"}
    BY <1>1, <1>3 DEF Renamed, SameButName
  <2>2. /\ h.recs[i].name = name /\ h.recs[i].media = r.media /\ h.recs[i].root = r.root
        /\ h.recs[i].folder = r.folder /\ h.recs[i].extra = r.extra
    BY <1>6, <2>1 DEF Others
  <2> QED
    BY <2>1, <2>2 DEF OwnPath, PathKey
<1>8. \A j \in DOMAIN old : OwnPath(g.recs[j]) = PathKey(old[j], g.recs[j].name)
  BY <1>3 DEF Renamed, SameButName, Others, OwnPath, PathKey
<1>9. P # OwnPath(r)
  BY <1>4 DEF OwnPath, PathKey
<1>10. ASSUME NEW j \in Grouped(old), OwnPath(old[j]) = OwnPath(r)
       PROVE  \E m \in 1 .. Len(seq) : seq[m] = j
  <2>1. GroupKey(old[j]) = GroupKey(r)
    BY <1>1, <1>10 DEF Clear, r
  <2> QED
    BY <2>1 DEF OneGroup, r, i
<1>11. ASSUME NEW j \in Grouped(old), j # i PROVE OwnPath(g.recs[j]) # P
  <2>1. j \in DOMAIN old /\ OwnPath(g.recs[j]) = PathKey(old[j], g.recs[j].name)
    BY <1>8 DEF Grouped
  <2>2. CASE ToSet(ShortStableID(r)) \subseteq ToSet(name)
    <3>1. ToSet(g.recs[j].name) \subseteq Words(old[j])
      <4>1. g.recs[j].name \in Seq(Words(old[j]))
        BY <2>1 DEF Labelling
      <4> QED
        BY <4>1, WordsOf
    <3>2. ToSet(ShortStableID(r)) \cap Words(old[j]) = {}
      BY <1>1, <1>11, <2>1 DEF Clear, r
    <3>3. ToSet(ShortStableID(r)) # {}
      <4>1. ShortStableID(r)[1] \in ToSet(ShortStableID(r))
        BY DEF ShortStableID, ToSet
      <4> QED
        BY <4>1
    <3>4. name # g.recs[j].name
      BY <2>2, <3>1, <3>2, <3>3
    <3> QED
      BY <2>1, <3>4 DEF PathKey
  <2>3. CASE P \notin g.used \ {OwnPath(r)} /\ OwnPath(g.recs[j]) \in g.used
    BY <1>9, <2>3
  <2>4. CASE OwnPath(g.recs[j]) \notin g.used
    <3>1. PICK k \in Grouped(old) : /\ ~Reached(seq, n - 1, j) /\ Reached(seq, n - 1, k)
                                    /\ OwnPath(old[k]) = OwnPath(old[j])
      BY <2>4 DEF Labelling
    <3>2. k # j
      BY <3>1
    <3>3. PICK m \in 1 .. Len(seq) : seq[m] = k
      BY <1>1, <3>1 DEF Reached
    <3>4. GroupKey(old[k]) = GroupKey(old[j]) /\ GroupKey(old[k]) = GroupKey(r)
      <4>1. GroupKey(old[k]) = GroupKey(old[j])
        BY <3>1 DEF Clear
      <4>2. \E l \in 1 .. Len(seq) : seq[l] = i
        BY DEF i
      <4>3. GroupKey(old[seq[m]]) = GroupKey(old[i])
        BY <1>1, <4>2 DEF OneGroup
      <4> QED
        BY <3>3, <4>1, <4>3 DEF r
    <3>5. ~IsPrefix(Front(r.name) \o <<"-">>, old[j].name)
      BY <1>1, <1>11, <3>1, <3>2, <3>4 DEF Clear, r
    <3>6. \E l \in 1 .. Len(seq) : seq[l] = j
      BY <3>3, <3>4 DEF OneGroup
    <3>7. g.recs[j] = old[j]
      BY <2>1, <3>1, <3>6 DEF Labelling, OneGroup
    <3>8. name # g.recs[j].name
      BY <1>4, <3>5, <3>7
    <3> QED
      BY <2>1, <3>8 DEF PathKey
  <2> QED
    BY <1>4, <2>2, <2>3, <2>4
<1>12. Apart(h.recs, old)
  <2> SUFFICES ASSUME NEW j \in Grouped(old), NEW k \in Grouped(old), j # k,
                      Relabelled(h.recs, old, j)
               PROVE  OwnPath(h.recs[j]) # OwnPath(h.recs[k])
    BY DEF Apart
  <2>1. j \in DOMAIN old /\ k \in DOMAIN old
    BY DEF Grouped
  <2>2. CASE j = i
    BY <1>6, <1>7, <1>11, <2>1, <2>2
  <2>3. CASE k = i
    BY <1>6, <1>7, <1>11, <2>1, <2>3
  <2>4. CASE j # i /\ k # i
    <3>1. Relabelled(g.recs, old, j) /\ h.recs[j] = g.recs[j] /\ h.recs[k] = g.recs[k]
      BY <1>6, <2>1, <2>4 DEF Relabelled
    <3> QED
      BY <3>1 DEF Labelling, Apart
  <2> QED
    BY <2>2, <2>3, <2>4
<1>13. \A j \in DOMAIN old : h.recs[j].name \in Seq(Words(old[j]))
  <2> SUFFICES ASSUME NEW j \in DOMAIN old PROVE h.recs[j].name \in Seq(Words(old[j]))
    OBVIOUS
  <2>1. CASE j = i
    <3>1. h.recs[j].name = name /\ old[j] = r
      BY <1>7, <2>1 DEF r
    <3> QED
      BY <3>1
  <2>2. CASE j # i
    <3>1. h.recs[j] = g.recs[j]
      BY <1>6, <2>2
    <3>2. g.recs[j].name \in Seq(Words(old[j]))
      BY DEF Labelling
    <3> QED
      BY <3>1, <3>2
  <2> QED
    BY <2>1, <2>2
<1>14. \A j \in DOMAIN old : IF Reached(seq, n, j) THEN Relabelled(h.recs, old, j)
                             ELSE h.recs[j] = recs[j]
  <2> SUFFICES ASSUME NEW j \in DOMAIN old
               PROVE  IF Reached(seq, n, j) THEN Relabelled(h.recs, old, j) ELSE h.recs[j] = recs[j]
    OBVIOUS
  <2>1. CASE j = i
    <3>1. Relabelled(h.recs, old, j)
      BY <1>4, <1>7, <2>1 DEF Relabelled, r
    <3> QED
      BY <1>2, <2>1, <3>1
  <2>2. CASE j # i
    <3>1. h.recs[j] = g.recs[j] /\ (Reached(seq, n, j) <=> Reached(seq, n - 1, j))
      BY <1>2, <1>6, <2>2
    <3>2. IF Reached(seq, n - 1, j) THEN Relabelled(g.recs, old, j) ELSE g.recs[j] = recs[j]
      BY DEF Labelling
    <3> QED
      BY <3>1, <3>2 DEF Relabelled
  <2> QED
    BY <2>1, <2>2
<1>15. ASSUME NEW j \in Grouped(old)
       PROVE  \/ OwnPath(h.recs[j]) \in h.used
              \/ /\ ~Reached(seq, n, j)
                 /\ \E k \in Grouped(old) : Reached(seq, n, k) /\ OwnPath(old[k]) = OwnPath(old[j])
  <2>1. j \in DOMAIN old /\ OwnPath(g.recs[j]) = PathKey(old[j], g.recs[j].name)
    BY <1>8 DEF Grouped
  <2>2. CASE j = i
    BY <1>4, <1>7, <2>2
  <2>3. CASE j # i /\ OwnPath(g.recs[j]) \in g.used /\ OwnPath(g.recs[j]) # OwnPath(r)
    BY <1>4, <1>6, <2>1, <2>3
  <2>4. CASE j # i /\ OwnPath(g.recs[j]) = OwnPath(r)
    <3>1. g.recs[i] = r
      BY <1>3
    <3>2. ~Relabelled(g.recs, old, j)
      BY <1>1, <2>4, <3>1 DEF Labelling, Apart
    <3>3. OwnPath(old[j]) = OwnPath(r)
      BY <2>1, <2>4, <3>2 DEF Relabelled, OwnPath
    <3>4. ~Reached(seq, n - 1, j)
      BY <2>1, <3>2 DEF Labelling
    <3>5. ~Reached(seq, n, j) /\ Reached(seq, n, i)
      BY <1>2, <2>4, <3>4
    <3> QED
      BY <1>1, <3>3, <3>5 DEF r
  <2>5. CASE j # i /\ OwnPath(g.recs[j]) \notin g.used
    <3>1. PICK k \in Grouped(old) : /\ ~Reached(seq, n - 1, j) /\ Reached(seq, n - 1, k)
                                    /\ OwnPath(old[k]) = OwnPath(old[j])
      BY <2>5 DEF Labelling
    <3> QED
      BY <1>2, <2>5, <3>1
  <2> QED
    BY <2>2, <2>3, <2>4, <2>5
<1> HIDE DEF P
<1>16. Labelling(h, n, seq, recs, old)
  BY <1>5, <1>12, <1>13, <1>14, <1>15 DEF Labelling
<1> QED
  BY <1>16 DEF h, i

\* So does the whole loop over a group.
LEMMA RoundsKeepApart ==
  ASSUME NEW old, Clear(old), \A i \in DOMAIN old : Worded(old[i]),
         NEW recs, NEW seq, OneGroup(seq, recs, old),
         NEW base, Labelling(base, 0, seq, recs, old)
  PROVE  Labelling(FoldLeft(LabelOne, base, seq), Len(seq), seq, recs, old)
<1>1. IsSequence(seq) /\ Len(seq) \in Nat
  BY SeqDomain DEF OneGroup
<1>2. PICK h : /\ h[0] = base /\ h[Len(seq)] = Fold("label", base, seq)
               /\ \A n \in 1 .. Len(seq) : h[n] = Step("label", h[n - 1], seq[n])
  BY <1>1, Running
<1> DEFINE B == {n \in 0 .. Len(seq) : ~Labelling(h[n], n, seq, recs, old)}
<1>3. ASSUME B # {} PROVE FALSE
  <2>1. PICK n \in B : \A m \in B : n <= m
    <3>1. B \in SUBSET Nat
      BY <1>1
    <3> HIDE DEF B
    <3> QED
      BY <1>3, <3>1, Least
  <2>2. n \in 1 .. Len(seq)
    BY <1>1, <1>2
  <2>3. n - 1 \in 0 .. Len(seq) /\ n - 1 \notin B
    BY <1>1, <2>1, <2>2
  <2>4. h[n] = LabelOne(h[n - 1], seq[n]) /\ Labelling(h[n - 1], n - 1, seq, recs, old)
    BY <1>2, <2>2, <2>3 DEF Step
  <2>5. Labelling(h[n], n, seq, recs, old)
    BY <2>2, <2>4, RoundKeepsApart
  <2> QED
    BY <2>1, <2>5
<1>4. Len(seq) \in 0 .. Len(seq)
  BY <1>1
<1> QED
  BY <1>2, <1>3, <1>4 DEF Fold

\* Between two groups: the groups to come are whole and not labelled.
Kept(recs, groups, paths, old) ==
  /\ Renamed(recs, old) /\ Apart(recs, old)
  /\ \A i \in DOMAIN old : recs[i].name \in Seq(Words(old[i]))
  /\ \A i \in Grouped(old) : OwnPath(recs[i]) \in paths
  /\ \A group \in groups : \E k \in Grouped(old) :
       group = GroupOf(old, GroupKey(old[k])) /\ \A i \in group : recs[i] = old[i]
  /\ \A i, j \in Grouped(old) : i # j /\ GroupKey(old[i]) = GroupKey(old[j]) =>
       Relabelled(recs, old, i) \/ \E group \in groups : i \in group

\* Labelling a group keeps it.
LEMMA GroupKeepsApart ==
  ASSUME NEW old, Clear(old), \A i \in DOMAIN old : Worded(old[i]) /\ old[i].key \in Int,
         NEW recs, NEW groups, NEW paths, Kept(recs, groups, paths, old), NEW group \in groups
  PROVE  LET start == [recs |-> recs, used |-> paths, names |-> {}, labels |-> {}]
             g == FoldLeft(LabelOne, start, ByKey(recs, group))
         IN  Kept(g.recs, groups \ {group}, g.used, old)
<1> DEFINE start == [recs |-> recs, used |-> paths, names |-> {}, labels |-> {}]
           seq == ByKey(recs, group)
           g == FoldLeft(LabelOne, start, seq)
<1>1. PICK k \in Grouped(old) :
        group = GroupOf(old, GroupKey(old[k])) /\ \A i \in group : recs[i] = old[i]
  BY DEF Kept
<1>2. Renamed(recs, old) /\ IsSequence(recs) /\ DOMAIN recs = DOMAIN old
  BY DEF Kept, Renamed
<1>3. group \in SUBSET DOMAIN old /\ group \subseteq Grouped(old)
  BY <1>1 DEF GroupOf, Grouped
<1>4. /\ IsSequence(seq) /\ Len(seq) \in Nat /\ DOMAIN seq = 1 .. Len(seq)
      /\ \A n \in 1 .. Len(seq) : seq[n] \in group
      /\ \A m, n \in 1 .. Len(seq) : seq[m] = seq[n] => m = n
      /\ \A i \in group : \E n \in 1 .. Len(seq) : seq[n] = i
  <2> DEFINE place == [i \in group |-> recs[i].key]
  <2>1. IsFiniteSet(group) /\ group \subseteq Int
    BY <1>2, <1>3, SeqFinite, FS_Subset
  <2>2. \A i \in group : place[i] \in Int
    BY <1>1, <1>3
  <2>3. seq = InOrder(group, place)
    BY DEF ByKey
  <2> HIDE DEF place, seq
  <2>4. /\ IsSequence(seq)
        /\ \A n \in DOMAIN seq : seq[n] \in group
        /\ \A m, n \in DOMAIN seq : seq[m] = seq[n] => m = n
        /\ \A i \in group : \E n \in DOMAIN seq : seq[n] = i
    <3>1. LET r == InOrder(group, place) IN
          /\ IsSequence(r) /\ DOMAIN r = 1 .. Cardinality(group) /\ Cardinality(group) \in Nat
          /\ \A n \in DOMAIN r : r[n] \in group
          /\ \A m, n \in DOMAIN r : r[m] = r[n] => m = n
          /\ \A i \in group : \E n \in DOMAIN r : r[n] = i
          /\ \A m, n \in DOMAIN r : m < n => place[r[m]] <= place[r[n]]
      BY <2>1, <2>2, Ordering
    <3> QED
      BY <2>3, <3>1
  <2>5. Len(seq) \in Nat /\ DOMAIN seq = 1 .. Len(seq)
    BY <2>4, SeqDomain
  <2> QED
    BY <2>4, <2>5
<1> HIDE DEF seq
<1>5. OneGroup(seq, recs, old)
  <2>1. \A n \in 1 .. Len(seq) : seq[n] \in Grouped(old) /\ recs[seq[n]] = old[seq[n]]
    BY <1>1, <1>3, <1>4
  <2>2. ASSUME NEW n \in 1 .. Len(seq), NEW j \in Grouped(old)
        PROVE  GroupKey(old[seq[n]]) = GroupKey(old[j]) <=> \E m \in 1 .. Len(seq) : seq[m] = j
    <3>1. GroupKey(old[seq[n]]) = GroupKey(old[k])
      BY <1>1, <1>4 DEF GroupOf
    <3>2. GroupKey(old[j]) = GroupKey(old[k]) <=> j \in group
      BY <1>1 DEF GroupOf
    <3> QED
      BY <1>4, <3>1, <3>2
  <2> QED
    BY <1>4, <2>1, <2>2 DEF OneGroup
<1>6. Labelling(start, 0, seq, recs, old)
  <2>1. start.recs = recs /\ start.used = paths
    OBVIOUS
  <2>2. \A i : ~Reached(seq, 0, i)
    BY DEF Reached
  <2> HIDE DEF start
  <2> QED
    BY <2>1, <2>2 DEF Labelling, Kept
<1> HIDE DEF start
<1>7. Labelling(g, Len(seq), seq, recs, old)
  BY <1>5, <1>6, RoundsKeepApart
<1> HIDE DEF g
<1>8. \A i : Reached(seq, Len(seq), i) <=> i \in group
  BY <1>4 DEF Reached
<1>9. \A i \in DOMAIN old : IF i \in group THEN Relabelled(g.recs, old, i) ELSE g.recs[i] = recs[i]
  BY <1>7, <1>8 DEF Labelling
<1>10. \A i \in Grouped(old) : OwnPath(g.recs[i]) \in g.used
  <2> SUFFICES ASSUME NEW i \in Grouped(old), OwnPath(g.recs[i]) \notin g.used PROVE FALSE
    OBVIOUS
  <2>1. PICK j \in Grouped(old) : /\ i \notin group /\ j \in group
                                  /\ OwnPath(old[j]) = OwnPath(old[i])
    BY <1>7, <1>8 DEF Labelling
  <2>2. GroupKey(old[j]) = GroupKey(old[i])
    BY <2>1 DEF Clear
  <2> QED
    BY <1>1, <2>1, <2>2 DEF GroupOf
<1>11. ASSUME NEW other \in groups \ {group}
       PROVE  \E l \in Grouped(old) :
                other = GroupOf(old, GroupKey(old[l])) /\ \A i \in other : g.recs[i] = old[i]
  <2>1. PICK l \in Grouped(old) :
          other = GroupOf(old, GroupKey(old[l])) /\ \A i \in other : recs[i] = old[i]
    BY DEF Kept
  <2>2. ASSUME NEW i \in other PROVE g.recs[i] = old[i]
    <3>1. i \in DOMAIN old /\ GroupKey(old[i]) = GroupKey(old[l])
      BY <2>1, <2>2 DEF GroupOf, Grouped
    <3>2. i \notin group
      <4> SUFFICES ASSUME i \in group PROVE FALSE
        OBVIOUS
      <4>1. GroupKey(old[k]) = GroupKey(old[l])
        BY <1>1, <3>1 DEF GroupOf
      <4> QED
        BY <1>1, <2>1, <4>1
    <3> QED
      BY <1>9, <2>1, <2>2, <3>1, <3>2
  <2> QED
    BY <2>1, <2>2
<1>12. ASSUME NEW i \in Grouped(old), NEW j \in Grouped(old), i # j,
              GroupKey(old[i]) = GroupKey(old[j])
       PROVE  Relabelled(g.recs, old, i) \/ \E other \in groups \ {group} : i \in other
  <2>1. i \in DOMAIN old
    BY DEF Grouped
  <2>2. Relabelled(recs, old, i) \/ \E other \in groups : i \in other
    BY <1>12 DEF Kept
  <2> QED
    BY <1>9, <2>1, <2>2 DEF Relabelled
<1>13. /\ Renamed(g.recs, old) /\ Apart(g.recs, old)
       /\ \A i \in DOMAIN old : g.recs[i].name \in Seq(Words(old[i]))
  BY <1>7 DEF Labelling
<1>14. Kept(g.recs, groups \ {group}, g.used, old)
  BY <1>10, <1>11, <1>12, <1>13 DEF Kept
<1> QED
  BY <1>14 DEF g, seq, start

FirstNames(recs, c, s) ==
  [i \in DOMAIN recs |-> CasedRecord(c, s, CHOOSE f \in ToSet(c[s]) : f.key = recs[i].key)]

\* Of the library alone, whatever has been delivered.
NamesAreClear == Clear([f \in Videos |-> CasedRecord(catalog, src, f)])

\* The invariant: what Kept says of every state in which labels are given.
KeptApart ==
  phase = "label" /\ NamesAreClear =>
    Kept(records, pending, used, FirstNames(records, catalog, src))

\* Whose record it is, a key tells.
LEMMA FirstNamesAre ==
  ASSUME NEW c \in Catalogs, NEW s \in Sources, NEW recs,
         \A i \in DOMAIN recs : \E f \in Wanted(c, s, "video") : recs[i].key = f.key
  PROVE  LET old == FirstNames(recs, c, s) IN
         /\ DOMAIN old = DOMAIN recs
         /\ \A i \in DOMAIN recs : \A f \in Wanted(c, s, "video") :
              recs[i].key = f.key => old[i] = CasedRecord(c, s, f)
<1> SUFFICES ASSUME NEW i \in DOMAIN recs, NEW f \in Wanted(c, s, "video"), recs[i].key = f.key
             PROVE  FirstNames(recs, c, s)[i] = CasedRecord(c, s, f)
  BY DEF FirstNames
<1>1. f \in ToSet(c[s]) /\ \A g \in ToSet(c[s]) : g.key = f.key => g = f
  BY Keys DEF Wanted
<1>2. (CHOOSE g \in ToSet(c[s]) : g.key = recs[i].key) = f
  BY <1>1
<1> QED
  BY <1>2 DEF FirstNames

\* In a state of the program: a record began as that of its file.
LEMMA FirstNamesOf ==
  ASSUME IInv
  PROVE  LET old == FirstNames(records, catalog, src) IN
         /\ DOMAIN old = DOMAIN records
         /\ \A i \in DOMAIN records : \E f \in Videos :
              /\ RecordOf(records[i], src, f) /\ FileOf(records[i]) = f
              /\ old[i] = CasedRecord(catalog, src, f)
              /\ Worded(old[i]) /\ old[i].key \in Int /\ old[i].name = Classify(f).name
         /\ NamesAreClear => Clear(old)
<1> DEFINE old == FirstNames(records, catalog, src)
<1>1. catalog \in Catalogs /\ src \in Sources /\ Delivered /\ Distinct(records)
  BY DEF IInv, State
<1>2. \A i \in DOMAIN records : \E f \in Wanted(catalog, src, "video") : records[i].key = f.key
  BY <1>1 DEF Delivered, RecordOf, Videos
<1>3. /\ DOMAIN old = DOMAIN records
      /\ \A i \in DOMAIN records : \A f \in Wanted(catalog, src, "video") :
           records[i].key = f.key => old[i] = CasedRecord(catalog, src, f)
  BY <1>1, <1>2, FirstNamesAre
<1> HIDE DEF old
<1>4. ASSUME NEW i \in DOMAIN records
      PROVE  \E f \in Videos :
              /\ RecordOf(records[i], src, f) /\ FileOf(records[i]) = f
              /\ old[i] = CasedRecord(catalog, src, f)
              /\ Worded(old[i]) /\ old[i].key \in Int /\ old[i].name = Classify(f).name
  <2>1. PICK f \in Videos : RecordOf(records[i], src, f)
    BY <1>1 DEF Delivered
  <2>2. records[i].key = f.key /\ f \in Wanted(catalog, src, "video") /\ f \in ToSet(catalog[src])
    BY <2>1 DEF RecordOf, Videos, Wanted
  <2>3. FileOf(records[i]) = f
    BY <1>1, <2>2, Keys DEF FileOf
  <2>4. old[i] = CasedRecord(catalog, src, f)
    BY <1>3, <2>2
  <2>5. /\ Worded(CasedRecord(catalog, src, f)) /\ CasedRecord(catalog, src, f).key \in Int
        /\ CasedRecord(catalog, src, f).name = Classify(f).name
    BY <1>1, <2>2, CasedRecordIs
  <2> QED
    BY <2>1, <2>3, <2>4, <2>5
<1>5. ASSUME NamesAreClear PROVE Clear(old)
  <2> DEFINE F == [f \in Videos |-> CasedRecord(catalog, src, f)]
             v(i) == FileOf(records[i])
  <2>1. Clear(F)
    BY <1>5 DEF NamesAreClear
  <2>2. \A i \in DOMAIN old : v(i) \in Videos /\ v(i) \in DOMAIN F /\ old[i] = F[v(i)] /\ records[i].key = v(i).key
    BY <1>3, <1>4 DEF RecordOf
  <2> HIDE DEF F, v
  <2>3. ASSUME NEW i \in DOMAIN old, NEW j \in DOMAIN old, v(i) = v(j) PROVE i = j
    <3>1. records[i].key = records[j].key
      BY <2>2, <2>3
    <3> QED
      BY <1>1, <1>3, <3>1 DEF Distinct
  <2>4. \A i \in Grouped(old) : i \in DOMAIN old /\ v(i) \in Grouped(F)
    BY <2>2 DEF Grouped
  <2>5. \A i, j \in DOMAIN old : i # j => ToSet(ShortStableID(old[i])) \cap Words(old[j]) = {}
    BY <2>1, <2>2, <2>3 DEF Clear
  <2>6. \A i, j \in Grouped(old) :
          OwnPath(old[i]) = OwnPath(old[j]) => GroupKey(old[i]) = GroupKey(old[j])
    BY <2>1, <2>2, <2>4 DEF Clear
  <2>7. ASSUME NEW i \in Grouped(old), NEW j \in Grouped(old), NEW k \in Grouped(old), i # j, j # k,
               GroupKey(old[i]) = GroupKey(old[j]), OwnPath(old[j]) = OwnPath(old[k])
        PROVE  ~IsPrefix(Front(old[i].name) \o <<"-">>, old[j].name)
    <3>1. /\ v(i) \in Grouped(F) /\ v(j) \in Grouped(F) /\ v(k) \in Grouped(F)
          /\ v(i) # v(j) /\ v(j) # v(k)
          /\ old[i] = F[v(i)] /\ old[j] = F[v(j)] /\ old[k] = F[v(k)]
      BY <2>2, <2>3, <2>4, <2>7
    <3> QED
      BY <2>1, <2>7, <3>1 DEF Clear
  <2> QED
    BY <2>5, <2>6, <2>7 DEF Clear
<1> QED
  BY <1>3, <1>4, <1>5 DEF old

\* Two of a kind make a group.
LEMMA TwoOfThem ==
  ASSUME NEW S, IsFiniteSet(S), NEW i \in S, NEW j \in S, i # j PROVE Cardinality(S) >= 2
<1>1. IsFiniteSet({}) /\ Cardinality({}) = 0
  BY FS_EmptySet
<1>2. IsFiniteSet({i}) /\ Cardinality({i}) = 1
  BY FS_Singleton
<1>3. Cardinality({i} \cup {j}) = 2
  <2>1. j \notin {i}
    OBVIOUS
  <2> QED
    BY <1>2, <2>1, FS_AddElement
<1>4. {i} \cup {j} \in SUBSET S
  OBVIOUS
<1>5. Cardinality({i} \cup {j}) <= Cardinality(S) /\ Cardinality(S) \in Nat
  BY <1>4, FS_Subset, FS_CardinalityType
<1> QED
  BY <1>3, <1>5

\* The groups are formed of all that have a twin, and every path is noted.
LEMMA CollectedKeepsApart == ASSUME IInv, Collected PROVE KeptApart'
<1> DEFINE old == FirstNames(records', catalog, src)
<1>1. /\ UNCHANGED <<catalog, src>> /\ pending' = Duplicates(records')
      /\ used' = {OwnPath(records'[i]) : i \in Grouped(records')}
      /\ records' = [i \in DOMAIN records |->
                       [records[i] EXCEPT !.root = CanonicalRoot(records, records[i])]]
  BY DEF Collected, ApplyCanonicalRootCasing
<1>2. catalog \in Catalogs /\ src \in Sources /\ IsSequence(records)
  BY DEF IInv, State
<1>3. DOMAIN records' = DOMAIN records /\ IsSequence(records')
  <2>1. IInv'
    BY CollectedStep
  <2> QED
    BY <1>1, <2>1 DEF IInv, State
<1>4. ASSUME NEW i \in DOMAIN records
      PROVE  \E f \in Wanted(catalog, src, "video") :
               /\ records'[i].key = f.key /\ records'[i] = CasedRecord(catalog, src, f)
               /\ DOMAIN records'[i] = Others \cup {"name"} /\ Worded(records'[i])
  <2>1. PICK f \in Wanted(catalog, src, "video") : records'[i] = CasedRecord(catalog, src, f)
    BY CollectedCases DEF Videos
  <2>2. /\ DOMAIN CasedRecord(catalog, src, f) = Others \cup {"name"}
        /\ Worded(CasedRecord(catalog, src, f)) /\ CasedRecord(catalog, src, f).key = f.key
    BY <1>2, CasedRecordIs DEF CasedRecordOf, RecordOf
  <2> QED
    BY <2>1, <2>2
<1>5. /\ DOMAIN old = DOMAIN records'
      /\ \A i \in DOMAIN old : old[i] = records'[i]
  <2>1. /\ DOMAIN old = DOMAIN records'
        /\ \A i \in DOMAIN records' : \A f \in Wanted(catalog, src, "video") :
             records'[i].key = f.key => old[i] = CasedRecord(catalog, src, f)
    <3>1. \A i \in DOMAIN records' : \E f \in Wanted(catalog, src, "video") : records'[i].key = f.key
      BY <1>3, <1>4
    <3> QED
      BY <1>2, <3>1, FirstNamesAre
  <2> HIDE DEF old
  <2> QED
    BY <1>3, <1>4, <2>1
<1>6. old = records'
  <2>1. old = [i \in DOMAIN records' |-> old[i]]
    BY DEF FirstNames
  <2>2. records' = [i \in DOMAIN records' |-> records'[i]]
    BY <1>1, <1>3
  <2> HIDE DEF old
  <2> QED
    BY <1>5, <2>1, <2>2
<1> HIDE DEF old
<1>7. Renamed(records', old)
  BY <1>3, <1>4, <1>6 DEF Renamed, SameButName
<1>8. \A i \in DOMAIN old : records'[i].name \in Seq(Words(old[i]))
  <2> SUFFICES ASSUME NEW i \in DOMAIN old PROVE records'[i].name \in Seq(Words(old[i]))
    OBVIOUS
  <2> DEFINE r == records'[i]
             W == Words(r)
  <2>1. Worded(r) /\ old[i] = r
    BY <1>3, <1>4, <1>6
  <2>2. IsSequence(r.name) /\ ToSet(r.name) \subseteq W
    BY <2>1 DEF Worded, Words
  <2> HIDE DEF W
  <2>3. r.name \in Seq(W)
    BY <2>2, TextOf
  <2> QED
    BY <2>1, <2>3 DEF W
<1>9. \A group \in Duplicates(old) : \E k \in Grouped(old) :
        group = GroupOf(old, GroupKey(old[k])) /\ \A i \in group : records'[i] = old[i]
  BY <1>6 DEF Duplicates
<1>10. ASSUME NEW i \in Grouped(old), NEW j \in Grouped(old), i # j, GroupKey(old[i]) = GroupKey(old[j])
       PROVE  \E group \in Duplicates(old) : i \in group
  <2> DEFINE group == GroupOf(old, GroupKey(old[i]))
  <2>1. i \in group /\ j \in group
    BY <1>10 DEF GroupOf
  <2>2. IsFiniteSet(group)
    <3>1. group \in SUBSET DOMAIN old
      BY DEF GroupOf, Grouped
    <3>2. IsFiniteSet(DOMAIN old)
      BY <1>3, <1>6, SeqFinite
    <3> HIDE DEF group
    <3> QED
      BY <3>1, <3>2, FS_Subset
  <2>3. Cardinality(group) >= 2
    <3> HIDE DEF group
    <3> QED
      BY <1>10, <2>1, <2>2, TwoOfThem
  <2>4. group \in Duplicates(old)
    BY <2>3 DEF Duplicates
  <2> QED
    BY <2>1, <2>4
<1>11. Apart(records', old)
  BY <1>6 DEF Apart, Relabelled
<1>12. \A i \in Grouped(old) : OwnPath(records'[i]) \in used'
  <2>1. Grouped(old) = Grouped(records')
    BY <1>6
  <2>2. used' = {OwnPath(records'[i]) : i \in Grouped(records')}
    BY <1>1
  <2> QED
    BY <2>1, <2>2
<1>13. Kept(records', pending', used', old)
  <2>1. pending' = Duplicates(old)
    BY <1>1, <1>6
  <2> QED
    BY <1>7, <1>8, <1>9, <1>10, <1>11, <1>12, <2>1 DEF Kept
<1> QED
  BY <1>1, <1>13 DEF KeptApart, old

\* Labelling a group of the state keeps the invariant.
LEMMA LabelGroupKeepsApart ==
  ASSUME IInv, KeptApart, NEW group \in pending, LabelGroup(group) PROVE KeptApart'
<1> DEFINE old == FirstNames(records, catalog, src)
           start == [recs |-> records, used |-> used, names |-> {}, labels |-> {}]
           g == FoldLeft(LabelOne, start, ByKey(records, group))
<1>1. /\ phase = "label" /\ UNCHANGED <<catalog, src>> /\ pending' = pending \ {group}
      /\ records' = g.recs /\ used' = g.used
  BY DEF LabelGroup
<1>2. NamesAreClear' = NamesAreClear
  BY <1>1 DEF NamesAreClear, Videos
<1>3. SUFFICES ASSUME NamesAreClear PROVE Kept(records', pending', used', FirstNames(records', catalog, src))
  BY <1>1, <1>2 DEF KeptApart
<1>4. /\ DOMAIN old = DOMAIN records /\ Clear(old)
      /\ \A i \in DOMAIN old : Worded(old[i]) /\ old[i].key \in Int
  BY <1>3, FirstNamesOf
<1>5. Kept(records, pending, used, old)
  BY <1>1, <1>3 DEF KeptApart
<1> HIDE DEF old
<1>6. Kept(g.recs, pending \ {group}, g.used, old)
  BY <1>4, <1>5, GroupKeepsApart
<1> HIDE DEF g
<1>7. Kept(records', pending', used', old)
  BY <1>1, <1>6
<1>8. FirstNames(records', catalog, src) = old
  <2>1. /\ DOMAIN records' = DOMAIN records
        /\ \A i \in DOMAIN records : records'[i].key = records[i].key
    BY <1>4, <1>5, <1>7 DEF Kept, Renamed, SameButName, Others
  <2> DEFINE now == FirstNames(records', catalog, src)
  <2>2. /\ now = [i \in DOMAIN records |-> now[i]] /\ old = [i \in DOMAIN records |-> old[i]]
    BY <2>1 DEF FirstNames, old
  <2>3. ASSUME NEW i \in DOMAIN records PROVE now[i] = old[i]
    <3> DEFINE of(k) == CasedRecord(catalog, src, CHOOSE f \in ToSet(catalog[src]) : f.key = k)
    <3>1. now[i] = of(records'[i].key) /\ old[i] = of(records[i].key)
      BY <2>1 DEF FirstNames, old
    <3> HIDE DEF of, now
    <3> QED
      BY <2>1, <3>1
  <2> HIDE DEF now
  <2>4. now = old
    BY <2>2, <2>3
  <2> QED
    BY <2>4 DEF now
<1> QED
  BY <1>7, <1>8

\* It is an invariant of the program.
LEMMA KeptApartAlways == Spec => []KeptApart
<1>1. Init => KeptApart
  BY DEF Init, KeptApart
<1>2. IInv /\ KeptApart /\ [Next]_vars => KeptApart'
  <2> SUFFICES ASSUME IInv, KeptApart, [Next]_vars PROVE KeptApart'
    OBVIOUS
  <2>1. CASE Collected
    BY <2>1, CollectedKeepsApart
  <2>2. ASSUME NEW group \in pending, LabelGroup(group) PROVE KeptApart'
    BY <2>2, LabelGroupKeepsApart
  <2>3. ASSUME phase' # "label" PROVE KeptApart'
    BY <2>3 DEF KeptApart
  <2>4. ASSUME NEW w \in Workers, Take(w) \/ Deliver(w) PROVE KeptApart'
    BY <2>3, <2>4 DEF Take, Deliver
  <2>5. CASE Finish
    BY <2>3, <2>5 DEF Finish
  <2>6. CASE BuildTree
    BY <2>3, <2>6 DEF BuildTree
  <2>7. CASE Refresh
    BY <2>3, <2>7 DEF Refresh
  <2>8. CASE UNCHANGED vars
    BY <2>8 DEF vars, KeptApart, NamesAreClear, Videos
  <2> QED
    BY <2>1, <2>2, <2>4, <2>5, <2>6, <2>7, <2>8 DEF Next
<1> QED
  BY <1>1, <1>2, Inductive, PTL DEF Spec

\* What labelling leaves, in terms of the records.
LEMMA LabelsLeave ==
  ASSUME IInv, KeptApart, NamesAreClear, phase = "label", NEW i \in Grouped(records),
         NEW j \in Grouped(records), i # j
  PROVE  /\ HasLabel(records[i]) => OwnPath(records[i]) # OwnPath(records[j])
         /\ pending = {} => OwnPath(records[i]) # OwnPath(records[j])
<1> DEFINE old == FirstNames(records, catalog, src)
<1>1. /\ DOMAIN old = DOMAIN records /\ Clear(old)
      /\ \A k \in DOMAIN records : \E f \in Videos :
           FileOf(records[k]) = f /\ old[k].name = Classify(f).name
  BY FirstNamesOf
<1>2. Kept(records, pending, used, old)
  BY DEF KeptApart
<1> HIDE DEF old
<1>3. \A k \in DOMAIN old : SameButName(records[k], old[k])
  BY <1>2 DEF Kept, Renamed
<1>4. Grouped(records) = Grouped(old)
  BY <1>1, <1>3 DEF Grouped, Groupable, SameButName, Others
<1>5. i \in DOMAIN records /\ j \in DOMAIN records
  BY DEF Grouped
<1>6. HasLabel(records[i]) <=> Relabelled(records, old, i)
  BY <1>1, <1>5 DEF HasLabel, Relabelled
<1>7. \A k \in DOMAIN old : OwnPath(records[k]) = PathKey(old[k], records[k].name)
  BY <1>3 DEF SameButName, Others, OwnPath, PathKey
<1>8. ASSUME Relabelled(records, old, i) \/ Relabelled(records, old, j)
      PROVE  OwnPath(records[i]) # OwnPath(records[j])
  BY <1>2, <1>4, <1>8 DEF Kept, Apart
<1>9. ASSUME pending = {}, ~Relabelled(records, old, i), ~Relabelled(records, old, j)
      PROVE  OwnPath(records[i]) # OwnPath(records[j])
  <2>1. GroupKey(old[i]) # GroupKey(old[j])
    BY <1>2, <1>4, <1>9 DEF Kept
  <2>2. OwnPath(old[i]) # OwnPath(old[j])
    BY <1>1, <1>4, <2>1 DEF Clear
  <2> QED
    BY <1>1, <1>5, <1>7, <1>9, <2>2 DEF Relabelled, OwnPath
<1> QED
  BY <1>6, <1>8, <1>9

\* Whatever the order in which the groups come out of the map and the workers
\* deliver, a video that was given a label has a path of its own among the movies
\* and episodes of its source (plex_naming.go:38-71).
THEOREM LabelsKeepApartHolds == Spec => [](NamesAreClear => LabelsKeepApart)
<1>1. IInv /\ KeptApart => (NamesAreClear => LabelsKeepApart)
  BY LabelsLeave DEF LabelsKeepApart
<1> QED
  BY <1>1, Inductive, KeptApartAlways, PTL

\* All movies and episodes of a source have different paths.
OnePathEach ==
  phase = "label" /\ pending = {} =>
    \A i, j \in Grouped(records) : OwnPath(records[i]) = OwnPath(records[j]) => i = j

\* When all groups are labelled, none of the movies and episodes of a source, with or
\* without a label, has the path of another, as the comment of ApplyPlexVersionNaming
\* says (plex_naming.go:12-13).
THEOREM OnePathEachHolds == Spec => [](NamesAreClear => OnePathEach)
<1>1. IInv /\ KeptApart => (NamesAreClear => OnePathEach)
  BY LabelsLeave DEF OnePathEach
<1> QED
  BY <1>1, Inductive, KeptApartAlways, PTL

-----------------------------------------------------------------------------
(* The tree *)

\* A path has a directory below the root, a folder, and the name of the file.
LEMMA PathsAre ==
  ASSUME NEW r
  PROVE  \E s : IsSequence(s) /\ Len(s) >= 2 /\ RecordPath(r) = s \o <<r.name>>
<1>1. \A t : IsSequence(Optional(t))
  BY EmptySequence, OneWord DEF Optional
<1>2. \A a, b : IsSequence(<<a, b>>) /\ Len(<<a, b>>) = 2
  <2> SUFFICES ASSUME NEW a, NEW b PROVE IsSequence(<<a, b>>) /\ Len(<<a, b>>) = 2
    OBVIOUS
  <2>1. <<a, b>> \in Seq({a, b}) /\ Len(<<a, b>>) = 2
    OBVIOUS
  <2> QED
    BY <2>1, SeqTyped
<1>3. ASSUME NEW s, IsSequence(s), Len(s) >= 2, NEW t, IsSequence(t)
      PROVE  IsSequence(s \o t) /\ Len(s \o t) >= 2
  <2>1. Len(s) \in Nat /\ Len(t) \in Nat /\ Len(s \o t) = Len(s) + Len(t) /\ IsSequence(s \o t)
    BY <1>3, SeqConcat, SeqDomain
  <2> QED
    BY <1>3, <2>1
<1>4. CASE r.media = "movie"
  <2>1. RecordPath(r) = <<<<"movies">>, r.root>> \o Optional(r.folder) \o <<r.name>>
    BY <1>4 DEF RecordPath
  <2>2. /\ IsSequence(<<<<"movies">>, r.root>> \o Optional(r.folder))
        /\ Len(<<<<"movies">>, r.root>> \o Optional(r.folder)) >= 2
    BY <1>1, <1>2, <1>3
  <2> QED
    BY <2>1, <2>2
<1>5. CASE r.media = "series"
  <2>1. RecordPath(r) =
          <<<<"series">>, r.root>> \o Optional(r.folder) \o Optional(r.extra) \o <<r.name>>
    BY <1>5 DEF RecordPath
  <2>2. /\ IsSequence(<<<<"series">>, r.root>> \o Optional(r.folder))
        /\ Len(<<<<"series">>, r.root>> \o Optional(r.folder)) >= 2
    BY <1>1, <1>2, <1>3
  <2>3. /\ IsSequence(<<<<"series">>, r.root>> \o Optional(r.folder) \o Optional(r.extra))
        /\ Len(<<<<"series">>, r.root>> \o Optional(r.folder) \o Optional(r.extra)) >= 2
    BY <1>1, <1>3, <2>2
  <2> QED
    BY <2>1, <2>3
<1>6. CASE r.media \notin {"movie", "series"}
  <2>1. RecordPath(r) = <<<<"unknown">>, r.root, r.name>>
    BY <1>6 DEF RecordPath
  <2>2. <<<<"unknown">>, r.root, r.name>> = <<<<"unknown">>, r.root>> \o <<r.name>>
    OBVIOUS
  <2>3. IsSequence(<<<<"unknown">>, r.root>>) /\ Len(<<<<"unknown">>, r.root>>) >= 2
    BY <1>2
  <2>4. RecordPath(r) = <<<<"unknown">>, r.root>> \o <<r.name>>
    BY <2>1, <2>2
  <2> QED
    BY <2>3, <2>4
<1> QED
  BY <1>4, <1>5, <1>6

LEMMA PathIs ==
  ASSUME NEW r
  PROVE  /\ IsSequence(RecordPath(r)) /\ Len(RecordPath(r)) \in Nat /\ Len(RecordPath(r)) >= 3
         /\ IsSequence(Front(RecordPath(r))) /\ Len(Front(RecordPath(r))) = Len(RecordPath(r)) - 1
         /\ \A i \in 1 .. Len(RecordPath(r)) - 1 : Front(RecordPath(r))[i] = RecordPath(r)[i]
<1>1. PICK s : IsSequence(s) /\ Len(s) >= 2 /\ RecordPath(r) = s \o <<r.name>>
  BY PathsAre
<1>2. IsSequence(<<r.name>>) /\ Len(<<r.name>>) = 1
  BY OneWord
<1>3. /\ IsSequence(s \o <<r.name>>) /\ Len(s \o <<r.name>>) = Len(s) + Len(<<r.name>>)
      /\ Len(s) \in Nat
      /\ \A i \in 1 .. Len(s) : (s \o <<r.name>>)[i] = s[i]
  BY <1>1, <1>2, SeqConcat, SeqDomain
<1>4. Front(s \o <<r.name>>) = s
  BY <1>1, FrontJoined
<1> QED
  BY <1>1, <1>2, <1>3, <1>4

TopDirs == {<<<<"movies">>>>, <<<<"series">>>>, <<<<"unknown">>>>}
Above(r) == Prefixes(Front(RecordPath(r))) \ {<<>>}

\* What is in the tree of the first n records.
TreeOf(t, recs, n) ==
  /\ \A p : p \in t.dirs <=> p \in TopDirs \cup {<<>>} \/ \E i \in 1 .. n : p \in Above(recs[i])
  /\ \A p : p \in DOMAIN t.files <=> \E i \in 1 .. n : p = RecordPath(recs[i])
  /\ \A p : p \in DOMAIN t.entries <=> p \in (t.dirs \ {<<>>}) \cup DOMAIN t.files
  /\ \A p \in DOMAIN t.entries :
       \/ t.entries[p] = "dir" /\ p \in t.dirs
       \/ t.entries[p] = "file" /\ p \in DOMAIN t.files
  /\ \A p \in DOMAIN t.files : \E i \in 1 .. n :
       /\ RecordPath(recs[i]) = p /\ t.files[p] = recs[i].key
       /\ \A j \in i + 1 .. n : RecordPath(recs[j]) # p

LEMMA EmptyTreeIs == ASSUME NEW recs PROVE TreeOf(EmptyTree, recs, 0)
<1>1. 1 .. 0 = {} /\ DOMAIN <<>> = {} /\ <<>> \notin TopDirs
  BY DEF TopDirs
<1>2. /\ EmptyTree.dirs = TopDirs \cup {<<>>} /\ EmptyTree.files = <<>>
      /\ EmptyTree.entries = [d \in TopDirs |-> "dir"]
  BY DEF EmptyTree, TopDirs
<1> QED
  BY <1>1, <1>2 DEF TreeOf

LEMMA AddFileIs ==
  ASSUME NEW t, NEW recs, NEW n \in Nat, TreeOf(t, recs, n)
  PROVE  TreeOf(AddFile(t, recs[n + 1]), recs, n + 1)
<1> DEFINE r == recs[n + 1]
           p == RecordPath(r)
           u == AddFile(t, r)
<1>1. /\ u.dirs = t.dirs \cup Above(r)
      /\ u.files = Put(t.files, {p}, r.key)
      /\ u.entries = Put(Put(t.entries, Above(r), "dir"), {p}, "file")
  BY DEF AddFile, Above
<1>2. /\ \A i \in 1 .. n + 1 : i = n + 1 \/ i \in 1 .. n
      /\ \A i \in 1 .. n : i \in 1 .. n + 1
      /\ n + 1 \in 1 .. n + 1
      /\ \A i \in 1 .. n : \A j \in i + 1 .. n + 1 : j = n + 1 \/ j \in i + 1 .. n
      /\ n + 1 + 1 .. n + 1 = {}
  OBVIOUS
<1>3. DOMAIN u.files = {p} \cup DOMAIN t.files
  BY <1>1 DEF Put
<1>4. /\ u.files[p] = r.key
      /\ \A q \in DOMAIN t.files \ {p} : u.files[q] = t.files[q]
  BY <1>1 DEF Put
<1>5. DOMAIN u.entries = {p} \cup Above(r) \cup DOMAIN t.entries
  BY <1>1 DEF Put
<1>6. /\ u.entries[p] = "file"
      /\ \A q \in Above(r) \ {p} : u.entries[q] = "dir"
      /\ \A q \in DOMAIN t.entries \ ({p} \cup Above(r)) : u.entries[q] = t.entries[q]
  BY <1>1 DEF Put
<1>7. <<>> \notin Above(r)
  BY DEF Above
<1> HIDE DEF u, p, r
<1>8. \A q : q \in u.dirs <=> q \in TopDirs \cup {<<>>} \/ \E i \in 1 .. n + 1 : q \in Above(recs[i])
  BY <1>1, <1>2 DEF TreeOf, r
<1>9. \A q : q \in DOMAIN u.files <=> \E i \in 1 .. n + 1 : q = RecordPath(recs[i])
  BY <1>2, <1>3 DEF TreeOf, p, r
<1>10. \A q : q \in DOMAIN u.entries <=> q \in (u.dirs \ {<<>>}) \cup DOMAIN u.files
  BY <1>1, <1>3, <1>5, <1>7 DEF TreeOf
<1>11. \A q \in DOMAIN u.entries :
         \/ u.entries[q] = "dir" /\ q \in u.dirs
         \/ u.entries[q] = "file" /\ q \in DOMAIN u.files
  BY <1>1, <1>3, <1>5, <1>6 DEF TreeOf
<1>12. \A q \in DOMAIN u.files : \E i \in 1 .. n + 1 :
         /\ RecordPath(recs[i]) = q /\ u.files[q] = recs[i].key
         /\ \A j \in i + 1 .. n + 1 : RecordPath(recs[j]) # q
  <2> SUFFICES ASSUME NEW q \in DOMAIN u.files
               PROVE  \E i \in 1 .. n + 1 :
                        /\ RecordPath(recs[i]) = q /\ u.files[q] = recs[i].key
                        /\ \A j \in i + 1 .. n + 1 : RecordPath(recs[j]) # q
    OBVIOUS
  <2>1. CASE q = p
    BY <1>2, <1>4, <2>1 DEF p, r
  <2>2. CASE q # p
    <3>1. q \in DOMAIN t.files /\ u.files[q] = t.files[q]
      BY <1>3, <1>4, <2>2
    <3>2. PICK i \in 1 .. n : /\ RecordPath(recs[i]) = q /\ t.files[q] = recs[i].key
                              /\ \A j \in i + 1 .. n : RecordPath(recs[j]) # q
      BY <3>1 DEF TreeOf
    <3> QED
      BY <1>2, <2>2, <3>1, <3>2 DEF p, r
  <2> QED
    BY <2>1, <2>2
<1> QED
  BY <1>8, <1>9, <1>10, <1>11, <1>12 DEF TreeOf, u, r

LEMMA BuildIs ==
  ASSUME NEW recs, IsSequence(recs)
  PROVE  TreeOf(Build(recs), recs, Len(recs))
<1>1. PICK h : /\ h[0] = EmptyTree /\ h[Len(recs)] = Fold("file", EmptyTree, recs)
               /\ \A n \in 1 .. Len(recs) : h[n] = Step("file", h[n - 1], recs[n])
  BY Running
<1>2. Len(recs) \in Nat
  BY SeqDomain
<1> DEFINE B == {n \in 0 .. Len(recs) : ~TreeOf(h[n], recs, n)}
<1>3. ASSUME B # {} PROVE FALSE
  <2>1. PICK n \in B : \A m \in B : n <= m
    <3>1. B \in SUBSET Nat
      BY <1>2
    <3> HIDE DEF B
    <3> QED
      BY <1>3, <3>1, Least
  <2>2. n \in 1 .. Len(recs)
    BY <1>1, <1>2, EmptyTreeIs
  <2>3. n - 1 \in 0 .. Len(recs) /\ n - 1 \notin B
    BY <1>2, <2>1, <2>2
  <2>4. h[n] = AddFile(h[n - 1], recs[n]) /\ TreeOf(h[n - 1], recs, n - 1)
    BY <1>1, <2>2, <2>3 DEF Step
  <2>5. n - 1 \in Nat /\ (n - 1) + 1 = n
    BY <2>2
  <2>6. TreeOf(AddFile(h[n - 1], recs[(n - 1) + 1]), recs, (n - 1) + 1)
    BY <2>4, <2>5, AddFileIs
  <2> QED
    BY <2>1, <2>4, <2>5, <2>6
<1>4. Len(recs) \in 0 .. Len(recs) /\ Build(recs) = h[Len(recs)]
  BY <1>1, <1>2 DEF Fold, Build
<1> QED
  BY <1>3, <1>4

\* The directories above a path are those above its parent, and the parent.
LEMMA PrefixesAre ==
  ASSUME NEW s, IsSequence(s)
  PROVE  /\ s \in Prefixes(s)
         /\ \A p \in Prefixes(s) : p = s \/ p \in Prefixes(Front(s))
         /\ \A p \in Prefixes(s) \ {<<>>} : Front(p) \in Prefixes(s)
<1>1. Len(s) \in Nat /\ SubSeq(s, 1, Len(s)) = s
  BY DEF IsSequence
<1>2. Prefixes(s) = {SubSeq(s, 1, l) : l \in 0 .. Len(s)}
  BY DEF Prefixes
<1>3. \A l \in 0 .. Len(s) : /\ SubSeq(s, 1, l) = [i \in 1 .. l |-> s[i]]
                             /\ Len(SubSeq(s, 1, l)) = l
  BY <1>1 DEF IsSequence
<1>4. ASSUME NEW k \in 0 .. Len(s), NEW l \in 0 .. k
      PROVE  SubSeq(SubSeq(s, 1, k), 1, l) = SubSeq(s, 1, l)
  <2>1. SubSeq(s, 1, k) \in Seq(ToSet(s)) /\ l <= Len(SubSeq(s, 1, k))
    BY <1>1, <1>3 DEF IsSequence
  <2>2. SubSeq(SubSeq(s, 1, k), 1, l) = [i \in 1 .. l |-> SubSeq(s, 1, k)[i]]
    BY <2>1
  <2>3. \A i \in 1 .. l : SubSeq(s, 1, k)[i] = s[i]
    BY <1>1, <1>3
  <2>4. SubSeq(s, 1, l) = [i \in 1 .. l |-> s[i]]
    BY <1>1, <1>3
  <2> QED
    BY <2>2, <2>3, <2>4
<1>5. s \in Prefixes(s)
  <2>1. Len(s) \in 0 .. Len(s)
    BY <1>1
  <2> QED
    BY <1>1, <1>2, <2>1
<1>6. ASSUME NEW p \in Prefixes(s), p # s PROVE p \in Prefixes(Front(s))
  <2>1. PICK l \in 0 .. Len(s) : p = SubSeq(s, 1, l)
    BY <1>2
  <2>2. l # Len(s)
    BY <1>1, <1>6, <2>1
  <2>3. Len(s) - 1 \in 0 .. Len(s) /\ l \in 0 .. Len(s) - 1
    <3>1. Len(s) \in Nat /\ l \in 0 .. Len(s) /\ l # Len(s)
      BY <1>1, <2>2
    <3> QED
      BY <3>1
  <2>4. Front(s) = SubSeq(s, 1, Len(s) - 1) /\ Len(Front(s)) = Len(s) - 1
    BY <1>3, <2>3 DEF Front
  <2>5. SubSeq(Front(s), 1, l) = p
    BY <1>4, <2>1, <2>3, <2>4
  <2>6. l \in 0 .. Len(Front(s))
    BY <2>3, <2>4
  <2> QED
    BY <2>5, <2>6 DEF Prefixes
<1>7. ASSUME NEW p \in Prefixes(s), p # <<>> PROVE Front(p) \in Prefixes(s)
  <2>1. PICK l \in 0 .. Len(s) : p = SubSeq(s, 1, l)
    BY <1>2
  <2>2. l # 0
    <3>1. SubSeq(s, 1, 0) = <<>>
      BY <1>1 DEF IsSequence
    <3> QED
      BY <1>7, <2>1, <3>1
  <2>3. l - 1 \in 0 .. l /\ l - 1 \in 0 .. Len(s)
    BY <1>1, <2>2
  <2>4. Front(p) = SubSeq(p, 1, l - 1)
    BY <1>3, <2>1 DEF Front
  <2>5. Front(p) = SubSeq(s, 1, l - 1)
    BY <1>4, <2>1, <2>3, <2>4
  <2> QED
    BY <1>2, <2>3, <2>5
<1> QED
  BY <1>5, <1>6, <1>7

\* Listing directory after directory leads to every file.
LEMMA TreeShows ==
  ASSUME NEW t, NEW recs, IsSequence(recs), TreeOf(t, recs, Len(recs))
  PROVE  /\ \A r \in ToSet(recs) :
              /\ Prefixes(RecordPath(r)) \ {<<>>} \subseteq DOMAIN t.entries
              /\ RecordPath(r) \in DOMAIN t.files
              /\ \E q \in ToSet(recs) :
                   RecordPath(q) = RecordPath(r) /\ q.key = t.files[RecordPath(r)]
         /\ t.dirs \ {<<>>} \subseteq DOMAIN t.entries
         /\ \A p \in DOMAIN t.entries :
              /\ Front(p) \in t.dirs
              /\ t.entries[p] = "dir" => p \in t.dirs
              /\ t.entries[p] = "file" => p \in DOMAIN t.files
<1>1. DOMAIN recs = 1 .. Len(recs)
  BY SeqDomain
<1>2. /\ \A p : p \in t.dirs <=> p \in TopDirs \cup {<<>>} \/ \E i \in DOMAIN recs : p \in Above(recs[i])
      /\ \A p : p \in DOMAIN t.files <=> \E i \in DOMAIN recs : p = RecordPath(recs[i])
      /\ \A p : p \in DOMAIN t.entries <=> p \in (t.dirs \ {<<>>}) \cup DOMAIN t.files
      /\ \A p \in DOMAIN t.entries :
           \/ t.entries[p] = "dir" /\ p \in t.dirs
           \/ t.entries[p] = "file" /\ p \in DOMAIN t.files
      /\ \A p \in DOMAIN t.files : \E i \in DOMAIN recs :
           RecordPath(recs[i]) = p /\ t.files[p] = recs[i].key
  BY <1>1 DEF TreeOf
<1>3. ASSUME NEW i \in DOMAIN recs
      PROVE  /\ Prefixes(RecordPath(recs[i])) \ {<<>>} \subseteq DOMAIN t.entries
             /\ RecordPath(recs[i]) \in DOMAIN t.files
             /\ \E j \in DOMAIN recs :
                  /\ RecordPath(recs[j]) = RecordPath(recs[i])
                  /\ recs[j].key = t.files[RecordPath(recs[i])]
  <2>1. RecordPath(recs[i]) \in DOMAIN t.files
    BY <1>2
  <2>2. \A p \in Prefixes(RecordPath(recs[i])) :
          p = RecordPath(recs[i]) \/ p \in Prefixes(Front(RecordPath(recs[i])))
    BY PathIs, PrefixesAre
  <2>3. \A p \in Prefixes(RecordPath(recs[i])) \ {<<>>} :
          p \in DOMAIN t.files \/ p \in t.dirs \ {<<>>}
    BY <1>2, <2>1, <2>2 DEF Above
  <2> QED
    BY <1>2, <2>1, <2>3
<1>4. \A r \in ToSet(recs) : \E i \in DOMAIN recs : r = recs[i]
  BY DEF ToSet
<1>5. \A i \in DOMAIN recs : recs[i] \in ToSet(recs)
  BY DEF ToSet
<1>6. \A r \in ToSet(recs) :
        /\ Prefixes(RecordPath(r)) \ {<<>>} \subseteq DOMAIN t.entries
        /\ RecordPath(r) \in DOMAIN t.files
        /\ \E q \in ToSet(recs) : RecordPath(q) = RecordPath(r) /\ q.key = t.files[RecordPath(r)]
  BY <1>3, <1>4, <1>5
<1>7. ASSUME NEW p \in DOMAIN t.entries PROVE Front(p) \in t.dirs
  <2>1. ASSUME p \in TopDirs PROVE Front(p) = <<>>
    <3>1. PICK e : p = <<e>>
      BY <2>1 DEF TopDirs
    <3> QED
      BY <3>1 DEF Front
  <2>2. ASSUME NEW i \in DOMAIN recs, p \in Above(recs[i])
        PROVE  Front(p) = <<>> \/ Front(p) \in Above(recs[i])
    <3>1. Front(p) \in Prefixes(Front(RecordPath(recs[i])))
      BY <2>2, PathIs, PrefixesAre DEF Above
    <3> QED
      BY <3>1 DEF Above
  <2>3. ASSUME NEW i \in DOMAIN recs, p = RecordPath(recs[i])
        PROVE  Front(p) = <<>> \/ Front(p) \in Above(recs[i])
    <3>1. Front(p) \in Prefixes(Front(RecordPath(recs[i])))
      BY <2>3, PathIs, PrefixesAre
    <3> QED
      BY <3>1 DEF Above
  <2>4. \/ p \in TopDirs \/ \E i \in DOMAIN recs : p \in Above(recs[i])
        \/ \E i \in DOMAIN recs : p = RecordPath(recs[i])
    BY <1>2
  <2> QED
    BY <1>2, <2>1, <2>2, <2>3, <2>4
<1> QED
  BY <1>2, <1>6, <1>7

\* What is mounted is built of the records.
Mounted == phase = "built" => tree = Build(all)

LEMMA MountedAlways == Spec => []Mounted
<1>1. Init => Mounted
  BY DEF Init, Mounted
<1>2. Mounted /\ [Next]_vars => Mounted'
  BY DEF Mounted, Next, vars, Take, Deliver, Collected, LabelGroup, Finish, BuildTree, Refresh
<1> QED
  BY <1>1, <1>2, PTL DEF Spec

\* Every record can be found by listing the mount from its root (tree.go:21-93):
\* addFile leaves no directory that is not listed in its parent, whatever the
\* records and their order, and also where paths are shared.
THEOREM TreeShowsRecordsHolds == Spec => []TreeShowsRecords
<1>1. IInv /\ Mounted => TreeShowsRecords
  <2> SUFFICES ASSUME IInv, Mounted, phase = "built" PROVE TreeShowsRecords
    BY DEF TreeShowsRecords
  <2>1. IsSequence(all) /\ TreeOf(tree, all, Len(all))
    BY BuildIs DEF IInv, State, Mounted
  <2> QED
    BY <2>1, TreeShows DEF TreeShowsRecords
<1> QED
  BY <1>1, Inductive, MountedAlways, PTL

\* Of the records at a path of the tree, the last is the one it opens.
LEMMA LastIsOpened ==
  ASSUME NEW t, NEW recs, IsSequence(recs), TreeOf(t, recs, Len(recs)), NEW p \in DOMAIN t.files
  PROVE  \E i \in DOMAIN recs :
           /\ RecordPath(recs[i]) = p /\ t.files[p] = recs[i].key
           /\ \A j \in DOMAIN recs : RecordPath(recs[j]) = p => j <= i
<1>1. DOMAIN recs = 1 .. Len(recs) /\ Len(recs) \in Nat
  BY SeqDomain
<1>2. PICK i \in 1 .. Len(recs) : /\ RecordPath(recs[i]) = p /\ t.files[p] = recs[i].key
                                  /\ \A j \in i + 1 .. Len(recs) : RecordPath(recs[j]) # p
  BY DEF TreeOf
<1>3. \A j \in 1 .. Len(recs) : j <= i \/ j \in i + 1 .. Len(recs)
  BY <1>1
<1> QED
  BY <1>1, <1>2, <1>3

\* A path that no file makes a directory is listed as a file.
LEMMA FilesAreFiles ==
  ASSUME NEW recs, IsSequence(recs), NoFileIsDirectory(recs), NEW t, TreeOf(t, recs, Len(recs))
  PROVE  \A p \in DOMAIN t.entries :
           \/ t.entries[p] = "dir" /\ p \notin DOMAIN t.files
           \/ t.entries[p] = "file" /\ p \in DOMAIN t.files
<1>1. DOMAIN recs = 1 .. Len(recs) /\ \A i \in DOMAIN recs : recs[i] \in ToSet(recs)
  BY SeqDomain DEF ToSet
<1>2. ASSUME NEW i \in DOMAIN recs PROVE RecordPath(recs[i]) \notin t.dirs
  <2>1. \A j \in DOMAIN recs : RecordPath(recs[i]) \notin Above(recs[j])
    BY <1>1 DEF NoFileIsDirectory, Above
  <2>2. RecordPath(recs[i]) \notin TopDirs \cup {<<>>}
    <3>1. Len(RecordPath(recs[i])) >= 3 /\ Len(RecordPath(recs[i])) \in Nat
      BY PathIs
    <3>2. \A p \in TopDirs \cup {<<>>} : Len(p) = 0 \/ Len(p) = 1
      <4> SUFFICES ASSUME NEW p \in TopDirs \cup {<<>>} PROVE Len(p) = 0 \/ Len(p) = 1
        OBVIOUS
      <4>1. p = <<>> \/ \E e : p = <<e>>
        BY DEF TopDirs
      <4> QED
        BY <4>1
    <3> DEFINE l == Len(RecordPath(recs[i]))
    <3>3. RecordPath(recs[i]) \in TopDirs \cup {<<>>} => l = 0 \/ l = 1
      BY <3>2
    <3> HIDE DEF l
    <3>4. l >= 3 /\ l \in Nat
      BY <3>1 DEF l
    <3> QED
      BY <3>3, <3>4
  <2> QED
    BY <1>1, <2>1, <2>2 DEF TreeOf
<1>3. \A p \in DOMAIN t.files : p \notin t.dirs
  BY <1>1, <1>2 DEF TreeOf
<1> QED
  BY <1>3 DEF TreeOf

\* What the order of the records cannot change.
LEMMA SameTree ==
  ASSUME NEW a, IsSequence(a), NEW b, IsSequence(b), ToSet(a) = ToSet(b),
         NEW t, TreeOf(t, a, Len(a)), NEW u, TreeOf(u, b, Len(b))
  PROVE  t.dirs = u.dirs /\ DOMAIN t.files = DOMAIN u.files /\ DOMAIN t.entries = DOMAIN u.entries
<1>1. DOMAIN a = 1 .. Len(a) /\ DOMAIN b = 1 .. Len(b)
  BY SeqDomain
<1>2. /\ \A i \in 1 .. Len(a) : \E j \in 1 .. Len(b) : a[i] = b[j]
      /\ \A j \in 1 .. Len(b) : \E i \in 1 .. Len(a) : a[i] = b[j]
  BY <1>1 DEF ToSet
<1>3. \A p : p \in t.dirs <=> p \in u.dirs
  BY <1>2 DEF TreeOf
<1>4. \A p : p \in DOMAIN t.files <=> p \in DOMAIN u.files
  BY <1>2 DEF TreeOf
<1>5. t.dirs = u.dirs /\ DOMAIN t.files = DOMAIN u.files
  BY <1>3, <1>4
<1>6. \A p : p \in DOMAIN t.entries <=> p \in DOMAIN u.entries
  BY <1>5 DEF TreeOf
<1> QED
  BY <1>5, <1>6

-----------------------------------------------------------------------------
(* The web pages *)

\* The store has the records in the order of their keys.
LEMMA StoreSorts == ASSUME NEW recs, IsSequence(recs), \A i \in DOMAIN recs : recs[i].key \in Int
                    PROVE Stored(recs) = Sorted(recs)
<1> DEFINE order == ByKey(recs, DOMAIN recs)
<1>1. DOMAIN recs = 1 .. Len(recs) /\ Len(recs) \in Nat
  BY SeqDomain
<1>2. Cardinality(DOMAIN recs) = Len(recs)
  <2>1. Cardinality(1 .. Len(recs)) = Len(recs)
    <3>1. Cardinality(1 .. Len(recs)) = IF 1 > Len(recs) THEN 0 ELSE Len(recs) - 1 + 1
      BY <1>1, FS_Interval
    <3> QED
      BY <1>1, <3>1
  <2> QED
    BY <1>1, <2>1
<1>3. DOMAIN order = 1 .. Cardinality(DOMAIN recs)
  BY DEF ByKey, InOrder
<1> HIDE DEF order
<1>4. DOMAIN order = DOMAIN recs
  BY <1>1, <1>2, <1>3
<1>5. /\ Stored(recs) = [n \in DOMAIN recs |-> recs[order[n]]]
      /\ Sorted(recs) = [n \in DOMAIN order |-> recs[order[n]]]
  BY DEF Stored, Sorted, order
<1> QED
  BY <1>4, <1>5

LEMMA StoredRecords ==
  ASSUME NEW recs, IsSequence(recs), \A i \in DOMAIN recs : recs[i].key \in Int
  PROVE  ToSet(Stored(recs)) = ToSet(recs)
BY StoreSorts, Sorting

\* groupTorrentSummaries (web.go) shows under each torrent exactly the videos that
\* TorBox lists for it, whatever the order of the store.
THEOREM PageShowsTorrentHolds == Spec => []PageShowsTorrent
<1>1. IInv => PageShowsTorrent
  <2> SUFFICES ASSUME IInv, phase = "built" PROVE PageShowsTorrent
    BY DEF PageShowsTorrent
  <2> DEFINE W == Wanted(catalog, Torrents, "video")
             mine == {r \in ToSet(all) : r.type = Torrents}
             summaries == TorrentSummaries(Stored(all))
  <2>1. /\ catalog \in Catalogs /\ IsSequence(all) /\ Torrents \in Sources
        /\ \A i \in DOMAIN all : \E s \in Sources : Final(all[i], catalog, s)
        /\ \A s \in Sources : \A f \in Wanted(catalog, s, "video") :
             \E i \in DOMAIN all : all[i].key = f.key
    BY TorrentsAssumption DEF IInv, State, DoneRecords, DoneSources
  <2>2. \A s, t \in Sources : \A f \in ToSet(catalog[s]), g \in ToSet(catalog[t]) :
          f.key = g.key => s = t /\ f = g
    BY <2>1, Keys
  <2>3. \A s \in Sources : \A f \in ToSet(catalog[s]) : f.key \in Int
    BY <2>1, Keys
  <2>4. \A i \in DOMAIN all : \E s \in Sources : \E f \in ToSet(catalog[s]) : all[i].key = f.key
    BY <2>1 DEF Final, SubtitleOf, CasedRecordOf, RecordOf, Wanted
  <2>5. ToSet(Stored(all)) = ToSet(all)
    <3>1. IsSequence(all) /\ \A i \in DOMAIN all : all[i].key \in Int
      BY <2>1, <2>3, <2>4
    <3> QED
      BY <3>1, StoredRecords
  <2>6. summaries = [id \in {r.item : r \in mine} |-> {r \in mine : r.item = id}]
    BY <2>5 DEF TorrentSummaries
  <2>7. ToSet(Listed(Torrents, "video")) = W
    BY <2>1, Listing DEF Listed
  <2>8. ASSUME NEW r \in mine
        PROVE  /\ \E f \in W : r.item = f.item
               /\ r.kind = "video" => \E f \in W : r.item = f.item /\ r.key = f.key
    <3>1. PICK s \in Sources : Final(r, catalog, s)
      BY <2>1 DEF ToSet
    <3>2. s = Torrents
      BY <3>1 DEF Final, SubtitleOf, CasedRecordOf, RecordOf
    <3> QED
      BY <3>1, <3>2 DEF Final, SubtitleOf, CasedRecordOf, RecordOf
  <2>9. ASSUME NEW f \in W
        PROVE  \E r \in mine : r.kind = "video" /\ r.item = f.item /\ r.key = f.key
    <3>1. PICK r \in ToSet(all) : r.key = f.key
      BY <2>1 DEF ToSet
    <3>2. PICK s \in Sources : Final(r, catalog, s)
      BY <2>1, <3>1 DEF ToSet
    <3>3. f \in ToSet(catalog[Torrents]) /\ f.kind = "video"
      BY DEF Wanted
    <3>4. ASSUME NEW g \in ToSet(catalog[s]), g.key = r.key PROVE s = Torrents /\ g = f
      BY <2>1, <2>2, <3>1, <3>3, <3>4
    <3>5. ~ \E g \in Wanted(catalog, s, "subtitle") : SubtitleOf(r, catalog, s, g)
      BY <3>3, <3>4 DEF SubtitleOf, Wanted
    <3>6. PICK g \in Wanted(catalog, s, "video") : CasedRecordOf(r, catalog, s, g)
      BY <3>2, <3>5 DEF Final
    <3>7. g.key = r.key /\ g \in ToSet(catalog[s])
      BY <3>6 DEF CasedRecordOf, RecordOf, Wanted
    <3>8. s = Torrents /\ g = f
      BY <3>4, <3>7
    <3> QED
      BY <3>1, <3>6, <3>8 DEF CasedRecordOf, RecordOf
  <2>10. DOMAIN summaries = {f.item : f \in W}
    <3>1. {r.item : r \in mine} = {f.item : f \in W}
      <4> HIDE DEF mine, W
      <4> QED
        BY <2>8, <2>9
    <3> QED
      BY <2>6, <3>1
  <2>11. ASSUME NEW id \in DOMAIN summaries
         PROVE  {r.key : r \in {q \in summaries[id] : q.kind = "video"}}
                  = {f.key : f \in {g \in W : g.item = id}}
    <3>1. summaries[id] = {r \in mine : r.item = id}
      BY <2>6, <2>11
    <3> DEFINE shown == {q \in summaries[id] : q.kind = "video"}
               there == {g \in W : g.item = id}
    <3>2. shown = {q \in mine : q.item = id /\ q.kind = "video"}
      BY <3>1
    <3> HIDE DEF mine, W, summaries
    <3>3. \A q \in shown : \E f \in there : f.key = q.key
      BY <2>8, <3>2
    <3>4. \A f \in there : \E q \in shown : f.key = q.key
      BY <2>9, <3>2
    <3> HIDE DEF shown, there
    <3>5. {r.key : r \in shown} = {f.key : f \in there}
      BY <3>3, <3>4
    <3> QED
      BY <3>5 DEF shown, there
  <2> HIDE DEF summaries, mine, W
  <2> QED
    BY <2>7, <2>10, <2>11 DEF PageShowsTorrent, summaries
<1> QED
  BY <1>1, Inductive, PTL

\* The pages of the mount are built of the records in the order of the store, the
\* mount in the order of the sources (web.go:241-264).  Where no file is named as
\* a directory they list the same, and open the same: of the records of a source
\* that share a path, both keep the one with the last key.
THEOREM PageShowsMountHolds == Spec => [](NoFileIsDirectory(all) => PageShowsMount)
<1>1. IInv /\ Mounted /\ NoFileIsDirectory(all) => PageShowsMount
  <2> SUFFICES ASSUME IInv, Mounted, NoFileIsDirectory(all), phase = "built" PROVE PageShowsMount
    BY DEF PageShowsMount
  <2> DEFINE s == Stored(all)
             page == Build(s)
             typeOf(key) == (CHOOSE r \in ToSet(all) : r.key = key).type
  <2>1. /\ catalog \in Catalogs /\ IsSequence(all) /\ Distinct(all) /\ Ascending(all)
        /\ \A i \in DOMAIN all : \E c \in Sources : Final(all[i], catalog, c)
    BY DEF IInv, State, DoneRecords, DoneSources
  <2>2. \A i \in DOMAIN all : all[i].key \in Int /\ all[i].key # NoNumber
    <3>1. \A c \in Sources : \A f \in ToSet(catalog[c]) : f.key \in Nat
      BY <2>1, Keys
    <3>2. \A i \in DOMAIN all : \E c \in Sources : \E f \in ToSet(catalog[c]) : all[i].key = f.key
      BY <2>1 DEF Final, SubtitleOf, CasedRecordOf, RecordOf, Wanted
    <3> QED
      BY <3>1, <3>2 DEF NoNumber
  <2>3. /\ IsSequence(s) /\ ToSet(s) = ToSet(all)
        /\ \A m, n \in DOMAIN s : m < n => s[m].key <= s[n].key
    BY <2>1, <2>2, StoreSorts, Sorting
  <2>4. TreeOf(tree, all, Len(all)) /\ TreeOf(page, s, Len(s)) /\ NoFileIsDirectory(s)
    BY <2>1, <2>3, BuildIs DEF Mounted, NoFileIsDirectory
  <2> HIDE DEF s, page
  <2>5. /\ page.dirs = tree.dirs /\ DOMAIN page.files = DOMAIN tree.files
        /\ DOMAIN page.entries = DOMAIN tree.entries
    BY <2>1, <2>3, <2>4, SameTree
  <2>6. \A p \in DOMAIN tree.entries :
          \/ /\ tree.entries[p] = "dir" /\ page.entries[p] = "dir"
          \/ /\ tree.entries[p] = "file" /\ page.entries[p] = "file"
             /\ p \in DOMAIN tree.files /\ p \in DOMAIN page.files
    <3>1. \A p \in DOMAIN tree.entries :
            \/ tree.entries[p] = "dir" /\ p \notin DOMAIN tree.files
            \/ tree.entries[p] = "file" /\ p \in DOMAIN tree.files
      BY <2>1, <2>4, FilesAreFiles
    <3>2. \A p \in DOMAIN page.entries :
            \/ page.entries[p] = "dir" /\ p \notin DOMAIN page.files
            \/ page.entries[p] = "file" /\ p \in DOMAIN page.files
      BY <2>3, <2>4, FilesAreFiles
    <3> QED
      BY <2>5, <3>1, <3>2
  <2>7. ASSUME NEW i \in DOMAIN all PROVE typeOf(all[i].key) = all[i].type
    <3>1. all[i] \in ToSet(all) /\ \A r \in ToSet(all) : r.key = all[i].key => r = all[i]
      BY <2>1 DEF ToSet, Distinct
    <3>2. (CHOOSE r \in ToSet(all) : r.key = all[i].key) = all[i]
      BY <3>1
    <3> QED
      BY <3>2
  <2>8. ASSUME NEW p \in DOMAIN tree.files
        PROVE  \/ page.files[p] = tree.files[p]
               \/ /\ NoNumber \notin {page.files[p], tree.files[p]}
                  /\ typeOf(page.files[p]) # typeOf(tree.files[p])
    <3>1. PICK i \in DOMAIN all :
            /\ RecordPath(all[i]) = p /\ tree.files[p] = all[i].key
            /\ \A j \in DOMAIN all : RecordPath(all[j]) = p => j <= i
      BY <2>1, <2>4, LastIsOpened
    <3>2. PICK j \in DOMAIN s :
            /\ RecordPath(s[j]) = p /\ page.files[p] = s[j].key
            /\ \A k \in DOMAIN s : RecordPath(s[k]) = p => k <= j
      BY <2>3, <2>4, <2>5, LastIsOpened
    <3>3. PICK m \in DOMAIN all : all[m] = s[j]
      BY <2>3 DEF ToSet
    <3>4. PICK n \in DOMAIN s : s[n] = all[i]
      BY <2>3 DEF ToSet
    <3>5. m <= i /\ n <= j
      BY <3>1, <3>2, <3>3, <3>4
    <3>6. i \in Int /\ m \in Int /\ j \in Int /\ n \in Int
      BY <2>1, <2>3, SeqFinite
    <3>7. all[i].key \in Int /\ all[m].key \in Int
      BY <2>2
    <3>8. all[i].key <= all[m].key
      <4>1. n < j \/ n = j
        BY <3>5, <3>6
      <4> QED
        BY <2>3, <3>3, <3>4, <3>7, <4>1
    <3>9. all[m].type = all[i].type => all[m].key <= all[i].key
      <4>1. m < i \/ m = i
        BY <3>5, <3>6
      <4> QED
        BY <2>1, <3>7, <4>1 DEF Ascending
    <3>10. all[m].type = all[i].type => all[m].key = all[i].key
      BY <3>7, <3>8, <3>9
    <3> HIDE DEF typeOf
    <3> QED
      BY <2>2, <2>7, <3>1, <3>2, <3>3, <3>10
  <2> HIDE DEF typeOf
  <2>9. ASSUME NEW dir
        PROVE  /\ DOMAIN MountEntries(page, dir) = DOMAIN MountEntries(tree, dir)
               /\ \A p \in DOMAIN MountEntries(tree, dir) :
                    \/ MountEntries(page, dir)[p] = MountEntries(tree, dir)[p]
                    \/ /\ NoNumber \notin {MountEntries(page, dir)[p], MountEntries(tree, dir)[p]}
                       /\ typeOf(MountEntries(page, dir)[p]) # typeOf(MountEntries(tree, dir)[p])
    BY <2>5, <2>6, <2>8 DEF MountEntries
  <2> QED
    BY <2>5, <2>9 DEF PageShowsMount, page, s, typeOf
<1> QED
  BY <1>1, Inductive, MountedAlways, PTL
=============================================================================
