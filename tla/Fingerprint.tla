---------------------------- MODULE Fingerprint ----------------------------
(***************************************************************************)
(* The cheap change probe of internal/refresh/refresh.go.  A library of    *)
(* TorBox is a sequence of items in the order /mylist returns them; an     *)
(* item has an id, the flag cached, and a body (name, files) that the      *)
(* fingerprint does not look at.  The string that renderFingerprint builds *)
(* separates its parts with spaces, colons and names that no id contains,  *)
(* so it is modelled by the record of its parts.                           *)
(***************************************************************************)
EXTENDS Integers, Sequences

CONSTANTS HeadWindow, MaxWindow   \* fingerprintHeadWindow, fingerprintMaxWindow

ASSUME WindowAssumption ==
  HeadWindow \in Nat \ {0} /\ MaxWindow \in Nat /\ HeadWindow <= MaxWindow

Smaller(m, n) == IF m <= n THEN m ELSE n
Larger(m, n) == IF m >= n THEN m ELSE n

\* One page of /mylist: at most limit items from offset on.
Page(items, limit, offset) ==
  SubSeq(items, offset + 1, Smaller(offset + limit, Len(items)))

\* The number of leading items that hold every uncached one.
Depth(items) ==
  CHOOSE d \in 0 .. Len(items) :
    /\ d # 0 => ~items[d].cached
    /\ \A i \in d + 1 .. Len(items) : items[i].cached

\* Mutant of WindowFor: only the head is watched.
HeadOnly(items) == Smaller(HeadWindow, MaxWindow)

\* The window covers what may still complete, within its two limits.
WindowFor(items) == Smaller(Larger(Depth(items), HeadWindow), MaxWindow)

NoId == ""
TailId(items) == IF Len(items) = 0 THEN NoId ELSE items[Len(items)].id

RenderFingerprint(count, head, tail) ==
  [n |-> count, tail |-> tail,
   head |-> [i \in 1 .. Len(head) |-> <<head[i].id, head[i].cached>>]]

BaselineFor(items) ==
  LET window == WindowFor(items)
      head   == Page(items, window, 0)
  IN  [count |-> Len(items), window |-> window,
       token |-> RenderFingerprint(Len(items), head, TailId(items))]

\* A library that fits in its window is listed in one request.
FitsWindow(b) == b.count <= b.window

ChangedShort(b, items) ==
  LET page == Page(items, b.window + 1, 0)
  IN  \/ Len(page) # b.count
      \/ RenderFingerprint(b.count, page, TailId(page)) # b.token

\* A longer one is probed at its end, then at its head.
Boundary(b, items) == Page(items, 2, b.count - 1)

ChangedHead(b, items, tail) ==
  RenderFingerprint(b.count, Page(items, b.window, 0), tail) # b.token

\* The probe of a library that stays still while it is probed.
Changed(b, items) ==
  IF FitsWindow(b)
  THEN ChangedShort(b, items)
  ELSE \/ Len(Boundary(b, items)) # 1
       \/ ChangedHead(b, items, Boundary(b, items)[1].id)
=============================================================================
