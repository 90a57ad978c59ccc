--------------------------- MODULE RefreshProofs ---------------------------
(***************************************************************************)
(* The safety of Refresh for every number of sources, set of web handlers, *)
(* set of items, window and bound.                                         *)
(***************************************************************************)
EXTENDS Refresh, FingerprintProofs

(***************************************************************************)
(* BaselineMatchesStore is not inductive alone: that Adopt takes over the  *)
(* baselines of what the store holds needs that nobody has stored anything *)
(* else since the same actor's Commit, and that follows from Serialized.   *)
(***************************************************************************)
Carried == \A a \in Actors : pc[a] = "adopt" => stored = listed[a]

IInv ==
  /\ TypeOK /\ Serialized /\ Carried /\ BaselineMatchesStore

\* Every change of a library leaves a library.
LEMMA ChangedLibrary ==
  ASSUME NEW items \in Seq(Items), NEW lib \in Added(items) \cup Deleted(items) \cup Completed(items)
  PROVE  lib \in Seq(Items)
<1>0. Len(items) \in Nat /\ \A i \in 1 .. Len(items) : items[i] \in Items
  BY LenProperties, ElementOfSeq
<1>1. \A i, j \in Int : 1 <= i /\ j <= Len(items) => SubSeq(items, i, j) \in Seq(Items)
  <2> TAKE i, j \in Int
  <2> HAVE 1 <= i /\ j <= Len(items)
  <2>1. \A k \in i .. j : items[k] \in Items
    BY <1>0
  <2> QED
    BY <2>1, SubSeqProperties
<1>2. CASE lib \in Added(items)
  <2>1. PICK i \in 1 .. Len(items) + 1, x \in Items : lib = InsertAt(items, i, x)
    BY <1>2 DEF Added
  <2>2. SubSeq(items, 1, i - 1) \in Seq(Items) /\ SubSeq(items, i, Len(items)) \in Seq(Items)
    BY <1>0, <1>1
  <2>3. <<x>> \in Seq(Items)
    OBVIOUS
  <2> QED
    BY <2>1, <2>2, <2>3, ConcatProperties DEF InsertAt
<1>3. CASE lib \in Deleted(items)
  <2>1. PICK i \in 1 .. Len(items) : lib = RemoveAt(items, i)
    BY <1>3, LenProperties DEF Deleted
  <2>2. SubSeq(items, 1, i - 1) \in Seq(Items) /\ SubSeq(items, i + 1, Len(items)) \in Seq(Items)
    BY <1>0, <1>1
  <2> QED
    BY <2>1, <2>2, ConcatProperties DEF RemoveAt
<1>4. CASE lib \in Completed(items)
  <2>1. PICK i \in 1 .. Len(items) : lib = [items EXCEPT ![i].cached = TRUE]
    BY <1>4, LenProperties DEF Completed
  <2>2. [items[i] EXCEPT !.cached = TRUE] \in Items
    BY <1>0 DEF Items
  <2> QED
    BY <2>1, <2>2, ExceptSeq
<1> QED
  BY <1>2, <1>3, <1>4

\* No listing is a listing, of no items.
LEMMA NoListingTyped == NoListing \in Seq(Items) /\ 1 \in Sources
  BY SourcesAssumption DEF NoListing, Sources

LEMMA UnlistedTyped == Unlisted \in Libraries
  BY NoListingTyped DEF Unlisted, Libraries

\* A page of a listing is a listing.
LEMMA PageTyped ==
  \A items \in Seq(Items), n, limit \in Nat : Page(items, limit, n) \in Seq(Items)
<1> SUFFICES ASSUME NEW items \in Seq(Items), NEW n \in Nat, NEW limit \in Nat
             PROVE  Page(items, limit, n) \in Seq(Items)
  OBVIOUS
<1> DEFINE last == Smaller(n + limit, Len(items))
<1>1. last \in Int /\ last <= Len(items)
  BY LenProperties DEF Smaller
<1>2. \A i \in n + 1 .. last : items[i] \in Items
  BY <1>1, ElementOfSeq
<1>3. SubSeq(items, n + 1, last) \in Seq(Items)
  BY <1>1, <1>2, SubSeqProperties, LenProperties
<1> QED
  BY <1>3 DEF Page

\* What is listed of a source stays a listing when a page is added.
LEMMA ListedTyped ==
  ASSUME TypeOK, NEW a \in Actors
  PROVE  listed[a][at[a]]
           \o Page(library[at[a]], PageLimit, Len(listed[a][at[a]])) \in Seq(Items)
<1>1. listed[a][at[a]] \in Seq(Items) /\ library[at[a]] \in Seq(Items)
  BY DEF TypeOK, Libraries
<1>2. Len(listed[a][at[a]]) \in Nat
  BY <1>1, LenProperties
<1>3. Page(library[at[a]], PageLimit, Len(listed[a][at[a]])) \in Seq(Items)
  BY <1>1, <1>2, PageTyped, PageAssumption
<1> QED
  BY <1>1, <1>3, ConcatProperties

\* The boundary request that brings one item brings an item of the library.
LEMMA BoundaryTyped ==
  ASSUME IInv, NEW a \in Actors, pc[a] = "probe",
         LET b == baselines[at[a]]
         IN  ~FitsWindow(b) /\ Len(Boundary(b, library[at[a]])) = 1
  PROVE  Boundary(baselines[at[a]], library[at[a]])[1].id \in Ids
<1> DEFINE s == at[a]
           b == baselines[s]
<1>1. s \in Sources /\ library[s] \in Seq(Items) /\ stored[s] \in Seq(Items)
  BY DEF IInv, TypeOK, Libraries
<1>2. ~Adopting
  BY ActorsAssumption DEF IInv, Serialized, InManager, Adopting
<1>3. b # NoBaseline
  BY DEF NoBaseline, FitsWindow
<1>4. b = BaselineFor(stored[s])
  BY <1>1, <1>2, <1>3 DEF IInv, BaselineMatchesStore
<1>5. b.count = Len(stored[s]) /\ b.window = WindowFor(stored[s])
  BY <1>4 DEF BaselineFor
<1>6. b.count - 1 \in Nat
  BY <1>1, <1>5, WindowMeaning, LenProperties DEF FitsWindow
<1>7. Page(library[s], 2, b.count - 1) \in Seq(Items)
  BY <1>1, <1>6, PageTyped
<1>8. Page(library[s], 2, b.count - 1)[1] \in Items
  BY <1>7, ElementOfSeq DEF Boundary
<1> QED
  BY <1>8 DEF Boundary, Items

\* After a source that is not the last comes another one.
LEMMA NextSource ==
  ASSUME TypeOK, NEW a \in Actors
  PROVE  at[a] < NumSources => at[a] + 1 \in Sources
<1>1. at[a] \in 1 .. NumSources
  BY DEF TypeOK, Sources
<1> QED
  BY <1>1, SourcesAssumption DEF Sources

\* The types that the end of a probe touches.
LEMMA ProbedTyped ==
  ASSUME TypeOK, NEW a \in Actors, NEW c \in BOOLEAN, Probed(a, c)
  PROVE  /\ hit' \in [Actors -> BOOLEAN] /\ at' \in [Actors -> Sources]
         /\ holder' \in Actors \cup {Nobody} /\ pc' \in [Actors -> Places]
         /\ notify' \in [Actors -> BOOLEAN]
<1>1. at[a] < NumSources => at[a] + 1 \in Sources
  BY NextSource
<1> QED
  BY <1>1 DEF Probed, TypeOK, Set, Goto, Places

\* Whether a probe wants a refresh is a truth value.
LEMMA ProbeBoolean ==
  /\ \A b, lib : ChangedShort(b, lib) \in BOOLEAN
  /\ \A b, lib, t : ChangedHead(b, lib, t) \in BOOLEAN
  BY DEF ChangedShort, ChangedHead

\* What a scan finds is media of the items.
LEMMA ScannedTyped ==
  ASSUME TypeOK, NEW scan
  PROVE  Scanned(scan) \in [Shelves -> [Sources -> SUBSET Ids]]
<1>1. \A s \in Sources : \A i \in DOMAIN tree[s] : tree[s][i].id \in Ids
  <2> TAKE s \in Sources
  <2> TAKE i \in DOMAIN tree[s]
  <2>1. tree[s] \in Seq(Items)
    BY DEF TypeOK, Libraries
  <2>2. tree[s][i] \in Items
    BY <2>1, ElementOfSeq, LenProperties
  <2> QED
    BY <2>2 DEF Items
<1>2. \A view : Shown(tree, view) \in [Sources -> SUBSET Ids]
  BY <1>1 DEF Shown
<1> QED
  BY <1>2 DEF Scanned, TypeOK

\* The steps of a notification keep the manager, the store and the tree, and
\* the only place they lead to is the rest.
LEMMA TellChanges ==
  ASSUME NEW a \in Actors, AskServer(a) \/ RequestScan(a)
  PROVE  /\ UNCHANGED <<library, changes, stored, baselines, hasRun, overtaken, tree, holder>>
         /\ UNCHANGED <<at, listed, tail, hit, notify>>
         /\ pc[a] = "notify" /\ (UNCHANGED pc \/ pc' = [pc EXCEPT ![a] = "idle"])
  BY DEF AskServer, RequestScan, ScanDone, ServerDone, Goto, remote, manager, work

\* The types that the steps of a notification touch.
LEMMA TellTyped ==
  ASSUME TypeOK, NEW a \in Actors, AskServer(a) \/ RequestScan(a)
  PROVE  TypeOK'
<1>0. ScanDone(a) \/ ServerDone(a)
  BY DEF AskServer, RequestScan
<1>1. turn' \in [Actors -> Nat] /\ request' \in [Actors -> Nat] /\ mounted' \in BOOLEAN
  <2>1. CASE ServerDone(a)
    <3>1. turn[a] + 1 \in Nat
      BY DEF TypeOK
    <3>2. turn' \in [Actors -> Nat] /\ request' \in [Actors -> Nat]
      BY <2>1, <3>1 DEF ServerDone, Set, TypeOK
    <3>3. mounted' \in BOOLEAN
      BY <2>1 DEF ServerDone, TypeOK
    <3> QED
      BY <3>2, <3>3
  <2>2. CASE /\ request' = Set(request, a, request[a] + 1)
             /\ UNCHANGED <<turn, pc, mounted>>
    BY <2>2 DEF Set, TypeOK
  <2> QED
    BY <1>0, <2>1, <2>2 DEF ScanDone
<1>2. scanned' \in [Shelves -> [Sources -> SUBSET Ids]]
  BY ScannedTyped DEF AskServer, RequestScan, TypeOK
<1>3. pc' \in [Actors -> Places]
  BY TellChanges DEF TypeOK, Places
<1> QED
  BY <1>1, <1>2, <1>3, TellChanges DEF TypeOK

\* Every step keeps the types.
LEMMA TypeStep == IInv /\ [Next]_vars => TypeOK'
<1> SUFFICES ASSUME IInv, [Next]_vars PROVE TypeOK'
  OBVIOUS
<1> USE SourcesAssumption DEF IInv, Goto, Set, remote, manager, work, servers, TypeOK, Places, Libraries, Sources
<1>1. ASSUME NEW a \in Actors, LockPoll(a) PROVE TypeOK'
  BY <1>1, NoListingTyped DEF LockPoll
<1>2. ASSUME NEW a \in Actors, Probe(a) PROVE TypeOK'
  <2> DEFINE b == baselines[at[a]]
             lib == library[at[a]]
  <2>1. CASE FitsWindow(b) /\ Probed(a, ChangedShort(b, lib)) /\ UNCHANGED tail
    <3>1. /\ hit' \in [Actors -> BOOLEAN] /\ at' \in [Actors -> Sources]
          /\ holder' \in Actors \cup {Nobody} /\ pc' \in [Actors -> Places]
          /\ notify' \in [Actors -> BOOLEAN]
      BY <2>1, ProbedTyped, ProbeBoolean
    <3> QED
      BY <1>2, <2>1, <3>1 DEF Probe
  <2>2. CASE Probed(a, TRUE) /\ UNCHANGED tail
    BY <1>2, <2>2, ProbedTyped DEF Probe
  <2>3. CASE /\ ~FitsWindow(b) /\ Len(Boundary(b, lib)) = 1
             /\ tail' = Set(tail, a, Boundary(b, lib)[1].id)
             /\ Goto(a, "head") /\ UNCHANGED <<at, hit, holder, notify>>
    BY <1>2, <2>3, BoundaryTyped DEF Probe
  <2> QED
    BY <1>2, <2>1, <2>2, <2>3 DEF Probe
<1>3. ASSUME NEW a \in Actors, ProbeHead(a) PROVE TypeOK'
  <2> DEFINE c == ChangedHead(baselines[at[a]], library[at[a]], tail[a])
  <2>1. c \in BOOLEAN
    BY ProbeBoolean
  <2>2. Probed(a, c)
    BY <1>3 DEF ProbeHead
  <2> HIDE DEF c
  <2>3. /\ hit' \in [Actors -> BOOLEAN] /\ at' \in [Actors -> Sources]
        /\ holder' \in Actors \cup {Nobody} /\ pc' \in [Actors -> Places]
        /\ notify' \in [Actors -> BOOLEAN]
    BY <2>1, <2>2, ProbedTyped
  <2> QED
    BY <1>3, <2>3 DEF ProbeHead
<1>4. ASSUME NEW a \in Actors, LockRun(a) PROVE TypeOK'
  BY <1>4, NoListingTyped, UnlistedTyped DEF LockRun
<1>5. ASSUME NEW a \in Actors, List(a) PROVE TypeOK'
  <2>1. at[a] < NumSources => at[a] + 1 \in Sources
    BY NextSource
  <2> DEFINE sofar == listed[a][at[a]]
             page  == Page(library[at[a]], PageLimit, Len(sofar))
  <2>2. sofar \o page \in Seq(Items)
    BY ListedTyped
  <2>3. listed' \in [Actors -> Libraries]
    <3>1. listed' = [listed EXCEPT ![a][at[a]] = sofar \o page]
      BY <1>5 DEF List
    <3> HIDE DEF sofar, page
    <3> QED
      BY <2>2, <3>1
  <2>4. /\ at' \in [Actors -> Sources] /\ pc' \in [Actors -> Places]
    BY <1>5, <2>1 DEF List
  <2>5. UNCHANGED <<remote, manager, tree, mounted, holder, tail, hit, notify, servers>>
    BY <1>5 DEF List
  <2> QED
    BY <2>3, <2>4, <2>5
<1>6. ASSUME NEW a \in Actors, Commit(a) PROVE TypeOK'
  BY <1>6 DEF Commit, ReplaceRecords
<1>7. ASSUME NEW a \in Actors, Adopt(a) PROVE TypeOK'
  BY <1>7 DEF Adopt
<1>8. ASSUME NEW a \in Actors, Swap(a) PROVE TypeOK'
  BY <1>8, UnlistedTyped DEF Swap
<1>9. ASSUME NEW a \in Actors, AskServer(a) \/ RequestScan(a) PROVE TypeOK'
  BY <1>9, TellTyped
<1>10. ASSUME NEW a \in Actors, PollFails(a) PROVE TypeOK'
  BY <1>10 DEF PollFails
<1>11. ASSUME NEW a \in Actors, RunFails(a) PROVE TypeOK'
  BY <1>11, UnlistedTyped DEF RunFails
<1>12. ASSUME NEW w \in Web, ManualRefresh(w) PROVE TypeOK'
  BY <1>12 DEF ManualRefresh, Requested
<1>13. ASSUME NEW w \in Web, AddTorrent(w) \/ DeleteTorrent(w) PROVE TypeOK'
  <2>1. PICK lib \in Added(library[1]) \cup Deleted(library[1]) :
          library' = [library EXCEPT ![1] = lib]
    BY <1>13 DEF AddTorrent, DeleteTorrent, Becomes
  <2>2. lib \in Seq(Items)
    BY <2>1, NoListingTyped, ChangedLibrary
  <2>3. Answered(w)
    BY <1>13 DEF AddTorrent, DeleteTorrent
  <2> QED
    BY <2>1, <2>2, <2>3, NoListingTyped DEF Answered
<1>14. CASE PollTick
  BY <1>14 DEF PollTick
<1>15. CASE ResyncTick
  BY <1>15 DEF ResyncTick
<1>16. CASE ExternalChange
  BY <1>16, ChangedLibrary DEF ExternalChange, Becomes
<1>17. CASE Crash
  BY <1>17, NoListingTyped, UnlistedTyped DEF Crash, Fresh, Idle
<1>18. CASE UNCHANGED vars
  BY <1>18 DEF vars
<1> QED
  BY <1>1, <1>2, <1>3, <1>4, <1>5, <1>6, <1>7, <1>8, <1>9, <1>10, <1>11, <1>12, <1>13, <1>14, <1>15, <1>16, <1>17, <1>18
     DEF Next, Progress

\* Every step keeps the mutex with the one who is inside the manager.
LEMMA SerializedStep == IInv /\ [Next]_vars => Serialized'
<1> SUFFICES ASSUME IInv, [Next]_vars PROVE Serialized'
  OBVIOUS
<1> USE ActorsAssumption DEF IInv, Goto, Set, remote, manager, work, servers, TypeOK, Serialized, InManager
<1>1. ASSUME NEW a \in Actors, LockPoll(a) PROVE Serialized'
  BY <1>1 DEF LockPoll
<1>2. ASSUME NEW a \in Actors, Probe(a) PROVE Serialized'
  BY <1>2 DEF Probe, Probed
<1>3. ASSUME NEW a \in Actors, ProbeHead(a) PROVE Serialized'
  BY <1>3 DEF ProbeHead, Probed
<1>4. ASSUME NEW a \in Actors, LockRun(a) PROVE Serialized'
  BY <1>4 DEF LockRun
<1>5. ASSUME NEW a \in Actors, List(a) PROVE Serialized'
  BY <1>5 DEF List
<1>6. ASSUME NEW a \in Actors, Commit(a) PROVE Serialized'
  BY <1>6 DEF Commit, ReplaceRecords
<1>7. ASSUME NEW a \in Actors, Adopt(a) PROVE Serialized'
  BY <1>7 DEF Adopt
<1>8. ASSUME NEW a \in Actors, Swap(a) PROVE Serialized'
  BY <1>8 DEF Swap
<1>9. ASSUME NEW a \in Actors, AskServer(a) \/ RequestScan(a) PROVE Serialized'
  BY <1>9, TellChanges
<1>10. ASSUME NEW a \in Actors, PollFails(a) PROVE Serialized'
  BY <1>10 DEF PollFails
<1>11. ASSUME NEW a \in Actors, RunFails(a) PROVE Serialized'
  BY <1>11 DEF RunFails
<1>12. ASSUME NEW w \in Web, ManualRefresh(w) PROVE Serialized'
  BY <1>12 DEF ManualRefresh, Requested
<1>13. ASSUME NEW w \in Web, AddTorrent(w) \/ DeleteTorrent(w) PROVE Serialized'
  BY <1>13 DEF AddTorrent, DeleteTorrent, Requested, Answered, Becomes
<1>14. CASE PollTick
  BY <1>14 DEF PollTick
<1>15. CASE ResyncTick
  BY <1>15 DEF ResyncTick
<1>16. CASE ExternalChange
  BY <1>16 DEF ExternalChange, Becomes
<1>17. CASE Crash
  BY <1>17 DEF Crash, Fresh, Idle
<1>18. CASE UNCHANGED vars
  BY <1>18 DEF vars
<1> QED
  BY <1>1, <1>2, <1>3, <1>4, <1>5, <1>6, <1>7, <1>8, <1>9, <1>10, <1>11, <1>12, <1>13, <1>14, <1>15, <1>16, <1>17, <1>18
     DEF Next, Progress

\* Every step keeps what a Run has stored until it adopts it.
LEMMA CarriedStep == IInv /\ [Next]_vars => Carried'
<1> SUFFICES ASSUME IInv, [Next]_vars PROVE Carried'
  OBVIOUS
<1> USE ActorsAssumption DEF IInv, Goto, Set, remote, manager, work, servers, TypeOK, Serialized, InManager, Carried, Actors
<1>1. ASSUME NEW a \in Actors, LockPoll(a) PROVE Carried'
  BY <1>1 DEF LockPoll
<1>2. ASSUME NEW a \in Actors, Probe(a) PROVE Carried'
  BY <1>2 DEF Probe, Probed
<1>3. ASSUME NEW a \in Actors, ProbeHead(a) PROVE Carried'
  BY <1>3 DEF ProbeHead, Probed
<1>4. ASSUME NEW a \in Actors, LockRun(a) PROVE Carried'
  BY <1>4 DEF LockRun
<1>5. ASSUME NEW a \in Actors, List(a) PROVE Carried'
  BY <1>5 DEF List
<1>6. ASSUME NEW a \in Actors, Commit(a) PROVE Carried'
  BY <1>6 DEF Commit, ReplaceRecords
<1>7. ASSUME NEW a \in Actors, Adopt(a) PROVE Carried'
  BY <1>7 DEF Adopt
<1>8. ASSUME NEW a \in Actors, Swap(a) PROVE Carried'
  BY <1>8 DEF Swap
<1>9. ASSUME NEW a \in Actors, AskServer(a) \/ RequestScan(a) PROVE Carried'
  BY <1>9, TellChanges
<1>10. ASSUME NEW a \in Actors, PollFails(a) PROVE Carried'
  BY <1>10 DEF PollFails
<1>11. ASSUME NEW a \in Actors, RunFails(a) PROVE Carried'
  BY <1>11 DEF RunFails
<1>12. ASSUME NEW w \in Web, ManualRefresh(w) PROVE Carried'
  BY <1>12 DEF ManualRefresh, Requested
<1>13. ASSUME NEW w \in Web, AddTorrent(w) \/ DeleteTorrent(w) PROVE Carried'
  BY <1>13 DEF AddTorrent, DeleteTorrent, Requested, Answered, Becomes
<1>14. CASE PollTick
  BY <1>14 DEF PollTick
<1>15. CASE ResyncTick
  BY <1>15 DEF ResyncTick
<1>16. CASE ExternalChange
  BY <1>16 DEF ExternalChange, Becomes
<1>17. CASE Crash
  BY <1>17 DEF Crash, Fresh, Idle
<1>18. CASE UNCHANGED vars
  BY <1>18 DEF vars
<1> QED
  BY <1>1, <1>2, <1>3, <1>4, <1>5, <1>6, <1>7, <1>8, <1>9, <1>10, <1>11, <1>12, <1>13, <1>14, <1>15, <1>16, <1>17, <1>18
     DEF Next, Progress

\* Every step keeps the baselines with the store.
LEMMA BaselineStep == IInv /\ [Next]_vars => BaselineMatchesStore'
<1> SUFFICES ASSUME IInv, [Next]_vars PROVE BaselineMatchesStore'
  OBVIOUS
<1> USE ActorsAssumption DEF IInv, Goto, Set, remote, manager, work, servers, TypeOK, Serialized, InManager, Carried, Adopting, BaselineMatchesStore, Libraries
<1>1. ASSUME NEW a \in Actors, LockPoll(a) PROVE BaselineMatchesStore'
  BY <1>1 DEF LockPoll
<1>2. ASSUME NEW a \in Actors, Probe(a) PROVE BaselineMatchesStore'
  BY <1>2 DEF Probe, Probed
<1>3. ASSUME NEW a \in Actors, ProbeHead(a) PROVE BaselineMatchesStore'
  BY <1>3 DEF ProbeHead, Probed
<1>4. ASSUME NEW a \in Actors, LockRun(a) PROVE BaselineMatchesStore'
  BY <1>4 DEF LockRun
<1>5. ASSUME NEW a \in Actors, List(a) PROVE BaselineMatchesStore'
  BY <1>5 DEF List
<1>6. ASSUME NEW a \in Actors, Commit(a) PROVE BaselineMatchesStore'
  BY <1>6 DEF Commit, ReplaceRecords
<1>7. ASSUME NEW a \in Actors, Adopt(a) PROVE BaselineMatchesStore'
  BY <1>7 DEF Adopt
<1>8. ASSUME NEW a \in Actors, Swap(a) PROVE BaselineMatchesStore'
  BY <1>8 DEF Swap
<1>9. ASSUME NEW a \in Actors, AskServer(a) \/ RequestScan(a) PROVE BaselineMatchesStore'
  <2>1. UNCHANGED <<stored, baselines, hasRun>>
    BY <1>9, TellChanges
  <2>2. Adopting' <=> Adopting
    BY <1>9, TellChanges
  <2> QED
    BY <2>1, <2>2
<1>10. ASSUME NEW a \in Actors, PollFails(a) PROVE BaselineMatchesStore'
  BY <1>10 DEF PollFails
<1>11. ASSUME NEW a \in Actors, RunFails(a) PROVE BaselineMatchesStore'
  BY <1>11 DEF RunFails
<1>12. ASSUME NEW w \in Web, ManualRefresh(w) PROVE BaselineMatchesStore'
  BY <1>12 DEF ManualRefresh, Requested
<1>13. ASSUME NEW w \in Web, AddTorrent(w) \/ DeleteTorrent(w) PROVE BaselineMatchesStore'
  BY <1>13 DEF AddTorrent, DeleteTorrent, Requested, Answered, Becomes
<1>14. CASE PollTick
  BY <1>14 DEF PollTick
<1>15. CASE ResyncTick
  BY <1>15 DEF ResyncTick
<1>16. CASE ExternalChange
  BY <1>16 DEF ExternalChange, Becomes
<1>17. CASE Crash
  BY <1>17 DEF Crash, Fresh, Idle
<1>18. CASE UNCHANGED vars
  BY <1>18 DEF vars
<1> QED
  BY <1>1, <1>2, <1>3, <1>4, <1>5, <1>6, <1>7, <1>8, <1>9, <1>10, <1>11, <1>12, <1>13, <1>14, <1>15, <1>16, <1>17, <1>18
     DEF Next, Progress

\* The initial states satisfy the inductive invariant.
LEMMA InitIInv == Init => IInv
<1> SUFFICES ASSUME Init PROVE IInv
  OBVIOUS
<1>1. TypeOK
  BY NoListingTyped, UnlistedTyped, LibsAssumption DEF Init, TypeOK, Libraries, Places, Idle
<1>2. Serialized /\ Carried /\ BaselineMatchesStore
  BY ActorsAssumption
     DEF Init, Serialized, InManager, Carried, BaselineMatchesStore, Idle
<1> QED
  BY <1>1, <1>2 DEF IInv

-----------------------------------------------------------------------------
\* The inductive invariant holds in every reachable state.
THEOREM Inductive == Spec => []IInv
<1>1. IInv /\ [Next]_vars => IInv'
  BY TypeStep, SerializedStep, CarriedStep, BaselineStep DEF IInv
<1> QED
  BY InitIInv, <1>1, PTL DEF Spec

\* The types of the state, for every value of the constants.
THEOREM TypeCorrect == Spec => []TypeOK
<1>1. IInv => TypeOK
  BY DEF IInv
<1> QED
  BY <1>1, Inductive, PTL

\* Run and Poll never overlap, with any number of web handlers.
THEOREM SerializedHolds == Spec => []Serialized
<1>1. IInv => Serialized
  BY DEF IInv
<1> QED
  BY <1>1, Inductive, PTL

\* Outside a Run the probe's baselines are those of the stored listing.
THEOREM BaselineMatchesStoreHolds == Spec => []BaselineMatchesStore
<1>1. IInv => BaselineMatchesStore
  BY DEF IInv
<1> QED
  BY <1>1, Inductive, PTL

\* A quiet probe has missed no completed download of the watched part and no
\* change of the number of items: the baseline is the store's, and QuietProbe
\* and CompletionNoticed say what a probe against it tells.
THEOREM QuietProbeIsSoundHolds == Spec => []QuietProbeIsSound
<1>1. IInv => QuietProbeIsSound
  <2> SUFFICES ASSUME IInv, NEW s \in Sources, ~Adopting, hasRun,
                      ~Changed(baselines[s], library[s])
               PROVE  /\ Len(library[s]) = Len(stored[s])
                      /\ \A i \in 1 .. Smaller(MaxWindow, Len(stored[s])) :
                           ~stored[s][i].cached =>
                             library[s][i].id = stored[s][i].id /\ ~library[s][i].cached
    BY DEF QuietProbeIsSound
  <2>1. library[s] \in Seq(Items) /\ stored[s] \in Seq(Items)
    BY DEF IInv, TypeOK, Libraries
  <2>2. ~Changed(BaselineFor(stored[s]), library[s])
    BY DEF IInv, BaselineMatchesStore
  <2>3. Len(library[s]) = Len(stored[s])
    BY <2>1, <2>2, QuietProbe
  <2>4. ASSUME NEW i \in 1 .. Smaller(MaxWindow, Len(stored[s])), ~stored[s][i].cached
        PROVE  library[s][i].id = stored[s][i].id /\ ~library[s][i].cached
    <3>1. Len(stored[s]) \in Nat /\ WindowFor(stored[s]) \in Nat
      BY <2>1, LenProperties, WindowMeaning
    <3>2. i \in 1 .. Len(stored[s]) /\ i <= MaxWindow
      BY <3>1, WindowAssumption DEF Smaller
    <3>3. i <= WindowFor(stored[s])
      BY <2>1, <2>4, <3>1, <3>2, DepthMeaning, WindowMeaning
    <3>4. i \in 1 .. Smaller(WindowFor(stored[s]), Len(stored[s]))
      BY <3>1, <3>2, <3>3 DEF Smaller
    <3> QED
      BY <2>1, <2>2, <2>4, <3>4, QuietProbe
  <2> QED
    BY <2>3, <2>4
<1> QED
  BY <1>1, Inductive, PTL

-----------------------------------------------------------------------------
(***************************************************************************)
(* With any number of web handlers, LastStoredIsMounted needs that a       *)
(* listing on its way to the mount is the one in the store, unless a later *)
(* one has overtaken it; and that the tree is behind the store only while  *)
(* a refresh is on that way.                                               *)
(***************************************************************************)
CarriedToMount == ~overtaken => \A a \in Actors : pc[a] = "swap" => listed[a] = stored

MountFollows ==
  /\ ~overtaken
  /\ mounted \/ pc[Main] = "notify"
  /\ \A a \in Actors : pc[a] \notin {"adopt", "swap"}
  => tree = stored

MountIInv == CarriedToMount /\ MountFollows

\* A notification that ends at startup is followed by the mount.
LEMMA TellMounts ==
  ASSUME NEW a \in Actors, AskServer(a) \/ RequestScan(a)
  PROVE  \/ UNCHANGED <<pc, mounted>>
         \/ pc' = [pc EXCEPT ![a] = "idle"] /\ mounted' = (mounted \/ a = Main)
  BY DEF AskServer, RequestScan, ScanDone, ServerDone, Goto

\* Every step keeps what is stored on its way to the mount.
LEMMA MountStep == IInv /\ MountIInv /\ [Next]_vars => MountIInv'
<1> SUFFICES ASSUME IInv, MountIInv, [Next]_vars PROVE MountIInv'
  OBVIOUS
<1>0. Main \in Actors /\ Web \subseteq Actors /\ Ticker \in Actors
  BY DEF Actors
<1> USE <1>0 DEF IInv, Goto, Set, remote, manager, work, servers, TypeOK, Carried, MountIInv, CarriedToMount, MountFollows
<1>1. ASSUME NEW a \in Actors, LockPoll(a) PROVE MountIInv'
  BY <1>1 DEF LockPoll
<1>2. ASSUME NEW a \in Actors, Probe(a) PROVE MountIInv'
  BY <1>2 DEF Probe, Probed
<1>3. ASSUME NEW a \in Actors, ProbeHead(a) PROVE MountIInv'
  BY <1>3 DEF ProbeHead, Probed
<1>4. ASSUME NEW a \in Actors, LockRun(a) PROVE MountIInv'
  BY <1>4 DEF LockRun
<1>5. ASSUME NEW a \in Actors, List(a) PROVE MountIInv'
  BY <1>5 DEF List
<1>6. ASSUME NEW a \in Actors, Commit(a) PROVE MountIInv'
  BY <1>6 DEF Commit, ReplaceRecords
<1>7. ASSUME NEW a \in Actors, Adopt(a) PROVE MountIInv'
  BY <1>7 DEF Adopt
<1>8. ASSUME NEW a \in Actors, Swap(a) PROVE MountIInv'
  BY <1>8 DEF Swap
<1>9. ASSUME NEW a \in Actors, AskServer(a) \/ RequestScan(a) PROVE MountIInv'
  BY <1>9, TellChanges, TellMounts
<1>10. ASSUME NEW a \in Actors, PollFails(a) PROVE MountIInv'
  BY <1>10 DEF PollFails
<1>11. ASSUME NEW a \in Actors, RunFails(a) PROVE MountIInv'
  BY <1>11 DEF RunFails
<1>12. ASSUME NEW w \in Web, ManualRefresh(w) PROVE MountIInv'
  BY <1>12 DEF ManualRefresh, Requested
<1>13. ASSUME NEW w \in Web, AddTorrent(w) \/ DeleteTorrent(w) PROVE MountIInv'
  BY <1>13 DEF AddTorrent, DeleteTorrent, Requested, Answered, Becomes
<1>14. CASE PollTick
  BY <1>14 DEF PollTick
<1>15. CASE ResyncTick
  BY <1>15 DEF ResyncTick
<1>16. CASE ExternalChange
  BY <1>16 DEF ExternalChange, Becomes
<1>17. CASE Crash
  BY <1>17 DEF Crash, Fresh, Idle
<1>18. CASE UNCHANGED vars
  BY <1>18 DEF vars
<1> QED
  BY <1>1, <1>2, <1>3, <1>4, <1>5, <1>6, <1>7, <1>8, <1>9, <1>10, <1>11, <1>12, <1>13, <1>14, <1>15, <1>16, <1>17, <1>18
     DEF Next, Progress

\* A process that starts has not mounted anything.
LEMMA InitMounts == Init => MountIInv
  BY ActorsAssumption DEF Init, Idle, Actors, MountIInv, CarriedToMount, MountFollows

\* With any number of web handlers beside the ticker, whatever fails and whenever
\* the process is restarted, the resting mount shows the store, unless the last
\* listing was stored while another one stood between its Run and its Swap: the
\* order of RefreshSwap is the only one that leaves an older tree mounted.
THEOREM LastStoredIsMountedHolds == Spec => []LastStoredIsMounted
<1>1. IInv /\ MountIInv /\ [Next]_vars => MountIInv'
  BY MountStep
<1>2. MountIInv => LastStoredIsMounted
  BY DEF MountIInv, MountFollows, LastStoredIsMounted, Resting
<1> QED
  BY InitMounts, <1>1, <1>2, Inductive, PTL DEF Spec
=============================================================================
