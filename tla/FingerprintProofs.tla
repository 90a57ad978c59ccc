------------------------- MODULE FingerprintProofs -------------------------
(* What the probe notices, for libraries of every length and every window. *)
EXTENDS Fingerprint, SequenceTheorems, WellFoundedInduction, TLAPS

LEMMA PageLen ==
  ASSUME NEW S, NEW items \in Seq(S), NEW limit \in Nat \ {0}, NEW offset \in Nat
  PROVE  LET n == IF offset >= Len(items) THEN 0
                  ELSE Smaller(limit, Len(items) - offset)
         IN  /\ Page(items, limit, offset) \in Seq(S)
             /\ Len(Page(items, limit, offset)) = n
             /\ \A i \in 1 .. n : Page(items, limit, offset)[i] = items[offset + i]
<1> DEFINE last == Smaller(offset + limit, Len(items))
<1>1. Len(items) \in Nat /\ last \in Int
  BY LenProperties DEF Smaller
<1>2. \A i \in offset + 1 .. last : items[i] \in S
  BY <1>1, ElementOfSeq DEF Smaller
<1>3. /\ SubSeq(items, offset + 1, last) \in Seq(S)
      /\ Len(SubSeq(items, offset + 1, last)) =
           IF offset + 1 <= last THEN last - (offset + 1) + 1 ELSE 0
      /\ \A i \in 1 .. last - (offset + 1) + 1 :
           SubSeq(items, offset + 1, last)[i] = items[offset + 1 + i - 1]
  BY <1>1, <1>2, SubSeqProperties
<1> QED
  BY <1>1, <1>3 DEF Page, Smaller

\* The page at the head is a prefix.
LEMMA HeadPage ==
  ASSUME NEW S, NEW items \in Seq(S), NEW w \in Nat \ {0}
  PROVE  /\ Page(items, w, 0) \in Seq(S)
         /\ Len(Page(items, w, 0)) = Smaller(w, Len(items))
         /\ \A i \in 1 .. Smaller(w, Len(items)) : Page(items, w, 0)[i] = items[i]
<1> DEFINE n == IF 0 >= Len(items) THEN 0 ELSE Smaller(w, Len(items) - 0)
<1>1. Len(items) \in Nat
  BY LenProperties
<1>2. n = Smaller(w, Len(items)) /\ n \in Nat
  BY <1>1 DEF Smaller
<1>3. /\ Page(items, w, 0) \in Seq(S) /\ Len(Page(items, w, 0)) = n
      /\ \A i \in 1 .. n : Page(items, w, 0)[i] = items[0 + i]
  BY PageLen, 0 \in Nat
<1> HIDE DEF n
<1>4. \A i \in 1 .. n : 0 + i = i
  BY <1>2
<1> QED
  BY <1>2, <1>3, <1>4

\* Two items are asked for at the last position of a listing of c items; one
\* is there exactly when the library still has c, and it is the last.
LEMMA EndPage ==
  ASSUME NEW S, NEW items \in Seq(S), NEW c \in Nat, c > 1
  PROVE  /\ (Len(Page(items, 2, c - 1)) = 1) <=> (Len(items) = c)
         /\ Len(items) = c => Page(items, 2, c - 1)[1] = items[c]
<1> DEFINE n == IF c - 1 >= Len(items) THEN 0 ELSE Smaller(2, Len(items) - (c - 1))
<1>1. Len(items) \in Nat /\ c - 1 \in Nat /\ 2 \in Nat \ {0}
  BY LenProperties
<1>2. /\ Len(Page(items, 2, c - 1)) = n
      /\ \A i \in 1 .. n : Page(items, 2, c - 1)[i] = items[c - 1 + i]
  BY <1>1, PageLen
<1>3. (n = 1) <=> (Len(items) = c)
  BY <1>1 DEF Smaller
<1>4. n = 1 => Page(items, 2, c - 1)[1] = items[c - 1 + 1]
  BY <1>2
<1> HIDE DEF n
<1>5. c - 1 + 1 = c
  OBVIOUS
<1> QED
  BY <1>2, <1>3, <1>4, <1>5

LEMMA DepthExists ==
  ASSUME NEW S, NEW items \in Seq(S)
  PROVE  \E d \in 0 .. Len(items) :
           /\ d # 0 => ~items[d].cached
           /\ \A i \in d + 1 .. Len(items) : items[i].cached
<1> DEFINE n == Len(items)
           Ends == {c \in 0 .. n : n - c # 0 => ~items[n - c].cached}
           Less == {ss \in Nat \X Nat : ss[1] < ss[2]}
<1>1. n \in Nat
  BY LenProperties
<1>2. IsWellFoundedOn(Less, Nat)
  BY NatLessThanWellFounded DEF OpToRel
<1>3. n \in Ends /\ Ends \subseteq Nat
  BY <1>1
<1>4. PICK c \in Ends : \A e \in Ends : ~(<<e, c>> \in Less)
  BY <1>2, <1>3, WFMin
<1>5. \A e \in Ends : ~(e < c)
  BY <1>3, <1>4
<1>6. \A i \in (n - c) + 1 .. n : items[i].cached
  <2> SUFFICES ASSUME NEW i \in (n - c) + 1 .. n, ~items[i].cached PROVE FALSE
    OBVIOUS
  <2>1. n - i \in 0 .. n /\ n - (n - i) = i /\ n - i < c
    BY <1>1, <1>3
  <2> QED
    BY <2>1, <1>5
<1> WITNESS n - c \in 0 .. n
<1> QED
  BY <1>4, <1>6

LEMMA DepthMeaning ==
  ASSUME NEW S, NEW items \in Seq(S)
  PROVE  /\ Depth(items) \in 0 .. Len(items)
         /\ \A i \in 1 .. Len(items) : ~items[i].cached => i <= Depth(items)
<1>1. /\ Depth(items) \in 0 .. Len(items)
      /\ \A i \in Depth(items) + 1 .. Len(items) : items[i].cached
  BY DepthExists DEF Depth
<1>2. Len(items) \in Nat
  BY LenProperties
<1> QED
  BY <1>1, <1>2

LEMMA WindowMeaning ==
  ASSUME NEW S, NEW items \in Seq(S)
  PROVE  /\ WindowFor(items) \in Nat \ {0} /\ WindowFor(items) <= MaxWindow
         /\ \A i \in Nat : i <= Depth(items) /\ i <= MaxWindow => i <= WindowFor(items)
<1>1. Depth(items) \in Nat
  BY DepthMeaning, LenProperties
<1> QED
  BY <1>1, WindowAssumption DEF WindowFor, Smaller, Larger

\* What a fingerprint holds of the items in it.
LEMMA TokenMeaning ==
  ASSUME NEW S, NEW h \in Seq(S), NEW c \in Seq(S), NEW n, NEW m, NEW t, NEW u,
         RenderFingerprint(n, h, t) = RenderFingerprint(m, c, u)
  PROVE  /\ t = u /\ Len(h) = Len(c)
         /\ \A i \in 1 .. Len(h) : h[i].id = c[i].id /\ h[i].cached = c[i].cached
<1> DEFINE f(s) == [i \in 1 .. Len(s) |-> <<s[i].id, s[i].cached>>]
<1>1. t = u /\ f(h) = f(c)
  BY DEF RenderFingerprint
<1>2. Len(h) \in Nat /\ Len(c) \in Nat
  BY LenProperties
<1>3. DOMAIN f(h) = 1 .. Len(h) /\ DOMAIN f(c) = 1 .. Len(c)
  OBVIOUS
<1>4. 1 .. Len(h) = 1 .. Len(c)
  BY <1>1, <1>3
<1>5. Len(h) = Len(c)
  BY <1>2, <1>4
<1>6. \A i \in 1 .. Len(h) : f(h)[i] = f(c)[i]
  BY <1>1
<1> QED
  BY <1>1, <1>5, <1>6

-----------------------------------------------------------------------------
\* A library that did not change is never reported as changed, so the poll
\* does not run full refreshes of a quiet library (Manager.Poll, probe).
THEOREM NoFalseAlarm ==
  ASSUME NEW S, NEW items \in Seq(S)
  PROVE  ~Changed(BaselineFor(items), items)
<1> DEFINE n == Len(items)
           w == WindowFor(items)
           b == BaselineFor(items)
<1>1. n \in Nat /\ w \in Nat \ {0}
  BY LenProperties, WindowMeaning
<1>2. b.count = n /\ b.window = w
      /\ b.token = RenderFingerprint(n, Page(items, w, 0), TailId(items))
  BY DEF BaselineFor
<1>3. CASE n <= w
  <2>1. Page(items, w + 1, 0) = items /\ Page(items, w, 0) = items
    <3>1. Smaller(0 + (w + 1), n) = n /\ Smaller(0 + w, n) = n
      BY <1>1, <1>3 DEF Smaller
    <3>2. SubSeq(items, 1, n) = items
      BY SubSeqFull
    <3> QED
      BY <3>1, <3>2 DEF Page
  <2> QED
    BY <1>2, <1>3, <2>1 DEF Changed, FitsWindow, ChangedShort
<1>4. CASE ~(n <= w)
  <2>1. n - 1 \in Nat /\ n > 1
    BY <1>1, <1>4
  <2>2. Len(Boundary(b, items)) = 1 /\ Boundary(b, items)[1] = items[n]
    BY <1>1, <1>2, <2>1, EndPage DEF Boundary
  <2>3. Boundary(b, items)[1].id = TailId(items)
    BY <2>1, <2>2 DEF TailId
  <2> QED
    BY <1>2, <1>4, <2>2, <2>3 DEF Changed, FitsWindow, ChangedHead
<1> QED
  BY <1>3, <1>4

\* What a quiet probe guarantees: the library has as many items as at the
\* last full listing, the same last item, and in its window the same items
\* in the same state.  Every addition or deletion alone is therefore noticed.
THEOREM QuietProbe ==
  ASSUME NEW S, NEW items \in Seq(S), NEW lib \in Seq(S),
         ~Changed(BaselineFor(items), lib)
  PROVE  /\ Len(lib) = Len(items) /\ TailId(lib) = TailId(items)
         /\ \A i \in 1 .. Smaller(WindowFor(items), Len(items)) :
              lib[i].id = items[i].id /\ lib[i].cached = items[i].cached
<1> DEFINE n == Len(items)
           w == WindowFor(items)
           b == BaselineFor(items)
           h == Page(items, w, 0)
<1>1. n \in Nat /\ w \in Nat \ {0} /\ Len(lib) \in Nat
  BY LenProperties, WindowMeaning
<1>2. b.count = n /\ b.window = w /\ b.token = RenderFingerprint(n, h, TailId(items))
  BY DEF BaselineFor
<1>3. /\ h \in Seq(S) /\ Len(h) = Smaller(w, n)
      /\ \A i \in 1 .. Smaller(w, n) : h[i] = items[i]
  BY <1>1, HeadPage
<1>4. CASE n <= w
  <2> DEFINE p == Page(lib, w + 1, 0)
  <2>1. Len(p) = n /\ RenderFingerprint(n, p, TailId(p)) = RenderFingerprint(n, h, TailId(items))
    BY <1>2, <1>4 DEF Changed, FitsWindow, ChangedShort
  <2>2. p \in Seq(S) /\ Len(p) = Smaller(w + 1, Len(lib))
        /\ \A i \in 1 .. Smaller(w + 1, Len(lib)) : p[i] = lib[i]
    <3>1. w + 1 \in Nat \ {0}
      BY <1>1
    <3> QED
      BY <3>1, HeadPage
  <2>3. Len(lib) = n
    BY <1>1, <1>4, <2>1, <2>2 DEF Smaller
  <2>4. Smaller(w + 1, Len(lib)) = n /\ Smaller(w, n) = n
    BY <1>1, <1>4, <2>3 DEF Smaller
  <2>5. /\ TailId(p) = TailId(items)
        /\ \A i \in 1 .. n : p[i].id = h[i].id /\ p[i].cached = h[i].cached
    BY <2>1, <2>2, <1>3, TokenMeaning
  <2>6. TailId(p) = TailId(lib)
    BY <1>1, <2>1, <2>2, <2>3, <2>4 DEF TailId
  <2> QED
    BY <1>3, <2>2, <2>3, <2>4, <2>5, <2>6
<1>5. CASE ~(n <= w)
  <2> DEFINE e == Boundary(b, lib)
             p == Page(lib, w, 0)
  <2>1. Len(e) = 1 /\ RenderFingerprint(n, p, e[1].id) = RenderFingerprint(n, h, TailId(items))
    BY <1>2, <1>5 DEF Changed, FitsWindow, ChangedHead
  <2>2. n - 1 \in Nat /\ n > 1
    BY <1>1, <1>5
  <2>3. e = Page(lib, 2, n - 1)
    BY <1>2 DEF Boundary
  <2>4. Len(lib) = n /\ e[1] = lib[n]
    BY <1>1, <2>1, <2>2, <2>3, EndPage
  <2>5. e[1].id = TailId(lib)
    BY <1>1, <2>2, <2>4 DEF TailId
  <2>6. p \in Seq(S) /\ \A i \in 1 .. w : p[i] = lib[i]
    <3>1. Smaller(w, Len(lib)) = w
      BY <1>1, <1>5, <2>4 DEF Smaller
    <3> QED
      BY <1>1, <3>1, HeadPage
  <2>7. /\ e[1].id = TailId(items) /\ Len(p) = Len(h)
        /\ \A i \in 1 .. Len(p) : p[i].id = h[i].id /\ p[i].cached = h[i].cached
    BY <2>1, <2>6, <1>3, TokenMeaning
  <2>8. Smaller(w, n) = w
    BY <1>1, <1>5 DEF Smaller
  <2> QED
    BY <1>3, <2>4, <2>5, <2>6, <2>7, <2>8
<1> QED
  BY <1>4, <1>5

\* An item that was downloading at the last full listing, no deeper than the
\* largest window, cannot complete unnoticed (windowFor).
THEOREM CompletionNoticed ==
  ASSUME NEW S, NEW items \in Seq(S), NEW lib \in Seq(S),
         NEW i \in 1 .. Len(items), i <= MaxWindow, ~items[i].cached,
         i \in 1 .. Len(lib) => lib[i].cached
  PROVE  Changed(BaselineFor(items), lib)
<1> SUFFICES ASSUME ~Changed(BaselineFor(items), lib) PROVE FALSE
  OBVIOUS
<1>1. Len(items) \in Nat /\ WindowFor(items) \in Nat
  BY LenProperties, WindowMeaning
<1>2. i <= Depth(items) /\ Depth(items) \in Nat
  BY <1>1, DepthMeaning
<1>3. i \in 1 .. Smaller(WindowFor(items), Len(items))
  BY <1>1, <1>2, WindowMeaning DEF Smaller
<1>4. Len(lib) = Len(items) /\ lib[i].cached = items[i].cached
  BY <1>3, QuietProbe
<1> QED
  BY <1>4
=============================================================================
