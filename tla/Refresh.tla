------------------------------ MODULE Refresh ------------------------------
(***************************************************************************)
(* Keeping the mount up to date: the startup, the ticker and the web       *)
(* handlers of cmd/torbox-fuse/main.go, over Manager.Run and Manager.Poll  *)
(* of internal/refresh/refresh.go, the store (internal/store/store.go),    *)
(* the swap of the tree (internal/fusefs/fs.go) and the notification of    *)
(* the media servers (module MediaServers).                                *)
(*                                                                         *)
(* The library of a source is a sequence of items (module Fingerprint).    *)
(* The store and the tree hold the media records of the cached items; the  *)
(* model keeps the listing the records were made from, and Visible says    *)
(* what of it shows under movies or series.  ListDownloads is one step per *)
(* page, and TorBox may change its library between two pages.              *)
(***************************************************************************)
EXTENDS Fingerprint, MediaServers, FiniteSets

CONSTANTS
  Main,        \* the startup in run()
  Ticker,      \* the goroutine that polls and resyncs
  Web,         \* the web handlers that may run at the same time
  Nobody,      \* the manager's mutex is free
  PageLimit,   \* limit in ListDownloads
  NumSources,  \* the configured libraries are 1 .. NumSources
  Ids,         \* the items TorBox can have
  ViewsOf,     \* [Ids -> the directories of the mount an item shows in]
  Servers,     \* the media servers with a token, in the order they are told
  InitialLibs, \* the libraries a source can start with
  MaxChanges,  \* bound: changes of the libraries
  MaxFaults    \* bound: failed requests, failed writes and crashes

Actors == {Main, Ticker} \cup Web
Sources == 1 .. NumSources

ASSUME ActorsAssumption ==
  /\ Main # Ticker /\ Main \notin Web /\ Ticker \notin Web
  /\ Nobody \notin Actors
ASSUME SourcesAssumption == NumSources \in Nat \ {0}
ASSUME PageAssumption == PageLimit \in Nat \ {0}

Items == [id : Ids, cached : BOOLEAN]

ASSUME ServersAssumption ==
  Servers \in {<<>>, <<"plex">>, <<"jellyfin">>, <<"plex", "jellyfin">>}
ASSUME LibsAssumption == InitialLibs \subseteq Seq(Items)

NoListing == <<>>
NoBaseline == [count |-> -1, window |-> 0, token |-> RenderFingerprint(-1, <<>>, NoId)]

VARIABLES
  library,    \* [Sources -> the items TorBox has]
  stored,     \* [Sources -> the listing whose records the store holds]
  tree,       \* [Sources -> the listing whose records are mounted]
  baselines,  \* [Sources -> the baseline of the probe]
  hasRun,     \* Run has succeeded in this process
  mounted,    \* the file system and the web server are up
  holder,     \* who holds the manager's mutex
  pc,         \* [Actors -> place]
  at,         \* [Actors -> the source being listed or probed]
  listed,     \* [Actors -> [Sources -> what its Run has listed]]
  tail,       \* [Actors -> the id the boundary request returned]
  hit,        \* [Actors -> its Poll wants a full refresh]
  notify,     \* [Actors -> its refresh notifies the media servers]
  turn,       \* [Actors -> which of Servers its notification is at]
  request,    \* [Actors -> 0: the list of libraries; then its scans]
  scanned,    \* [Shelves -> the media the server has found there]
  missed,     \* the servers whose last notification did not go through
  overtaken,  \* history: the last listing was stored while another one that
              \* had been stored was still to be mounted
  changes, faults

remote == <<library, changes>>
manager == <<stored, baselines, hasRun, overtaken>>
work == <<at, listed, tail, hit, notify>>
servers == <<turn, request, scanned, missed>>
vars == <<remote, manager, tree, mounted, holder, pc, work, servers, faults>>

Places == {"idle", "polling", "probe", "head", "refresh", "list", "commit",
           "adopt", "swap", "notify"}

\* What a Run has listed before its first request, and after its end.
Unlisted == [s \in Sources |-> NoListing]

\* The records in one directory of the mount: those of the cached items.
Shown(listing, view) ==
  [s \in Sources |-> {listing[s][i].id : i \in {j \in DOMAIN listing[s] :
                        listing[s][j].cached /\ view \in ViewsOf[listing[s][j].id]}}]

Visible(listing) == [v \in Views |-> Shown(listing, v)]

Goto(a, place) == pc' = [pc EXCEPT ![a] = place]
Set(f, a, v) == [f EXCEPT ![a] = v]
Fault == faults < MaxFaults /\ faults' = faults + 1

-----------------------------------------------------------------------------
(* Manager.Poll, called by the ticker *)

PollTick ==
  /\ mounted /\ pc[Ticker] = "idle"
  /\ Goto(Ticker, "polling")
  /\ UNCHANGED <<remote, manager, tree, mounted, holder, work, servers, faults>>

LockPoll(a) ==
  /\ pc[a] = "polling" /\ holder = Nobody
  /\ holder' = a
  /\ at' = Set(at, a, 1) /\ hit' = Set(hit, a, FALSE)
  /\ Goto(a, "probe")
  /\ UNCHANGED <<remote, manager, tree, mounted, listed, tail, notify, servers, faults>>

\* Mutant of Probed: the loop runs one source too far.
ProbedTooFar(a, changed) ==
  LET wanted == hit[a] \/ changed
  IN  /\ hit' = Set(hit, a, wanted)
      /\ \/ /\ at[a] <= NumSources
            /\ at' = Set(at, a, at[a] + 1) /\ Goto(a, "probe")
            /\ UNCHANGED <<holder, notify>>
         \/ /\ at[a] > NumSources /\ holder' = Nobody
            /\ Goto(a, IF wanted THEN "refresh" ELSE "idle")
            /\ notify' = Set(notify, a, FALSE)
            /\ UNCHANGED at

\* The source is probed: on with the next one, or the result of the poll.
Probed(a, changed) ==
  LET wanted == hit[a] \/ changed
  IN  /\ hit' = Set(hit, a, wanted)
      /\ \/ /\ at[a] < NumSources
            /\ at' = Set(at, a, at[a] + 1) /\ Goto(a, "probe")
            /\ UNCHANGED <<holder, notify>>
         \/ /\ at[a] = NumSources /\ holder' = Nobody
            /\ Goto(a, IF wanted THEN "refresh" ELSE "idle")
            /\ notify' = Set(notify, a, FALSE)
            /\ UNCHANGED at

\* A short library is probed by one request, a longer one at its boundary
\* first.  A source without a baseline (count -1) counts as changed.
Probe(a) ==
  /\ pc[a] = "probe"
  /\ LET b   == baselines[at[a]]
         lib == library[at[a]]
     IN  \/ FitsWindow(b) /\ Probed(a, ChangedShort(b, lib)) /\ UNCHANGED tail
         \/ /\ ~FitsWindow(b) /\ Len(Boundary(b, lib)) # 1
            /\ Probed(a, TRUE) /\ UNCHANGED tail
         \/ /\ ~FitsWindow(b) /\ Len(Boundary(b, lib)) = 1
            /\ tail' = Set(tail, a, Boundary(b, lib)[1].id)
            /\ Goto(a, "head") /\ UNCHANGED <<at, hit, holder, notify>>
  /\ UNCHANGED <<remote, manager, tree, mounted, listed, servers, faults>>

\* The head is requested after the boundary; TorBox may have moved on.
ProbeHead(a) ==
  /\ pc[a] = "head"
  /\ Probed(a, ChangedHead(baselines[at[a]], library[at[a]], tail[a]))
  /\ UNCHANGED <<remote, manager, tree, mounted, listed, tail, servers, faults>>

\* One failed request ends the poll, whatever it has found so far.
PollFails(a) ==
  /\ pc[a] \in {"probe", "head"}
  /\ Fault /\ holder' = Nobody /\ Goto(a, "idle")
  /\ UNCHANGED <<remote, manager, tree, mounted, work, servers>>

-----------------------------------------------------------------------------
(* Manager.Run, and refreshOnce around it *)

\* The web server is started once the file system is mounted; a handler runs
\* from its request to its answer.
Requested(w) == mounted /\ pc[w] = "idle"

\* The resync tick and the refresh button.
ResyncTick ==
  /\ mounted /\ pc[Ticker] = "idle"
  /\ Goto(Ticker, "refresh") /\ notify' = Set(notify, Ticker, FALSE)
  /\ UNCHANGED <<remote, manager, tree, mounted, holder, at, listed, tail, hit,
                 servers, faults>>

ManualRefresh(w) ==
  /\ Requested(w)
  /\ Goto(w, "refresh") /\ notify' = Set(notify, w, TRUE)
  /\ UNCHANGED <<remote, manager, tree, mounted, holder, at, listed, tail, hit,
                 servers, faults>>

\* Mutant of LockRun: Run does not lock.
RunUnlocked(a) ==
  /\ pc[a] = "refresh"
  /\ holder' = a
  /\ at' = Set(at, a, 1)
  /\ listed' = Set(listed, a, Unlisted)
  /\ Goto(a, "list")
  /\ UNCHANGED <<remote, manager, tree, mounted, tail, hit, notify, servers, faults>>

LockRun(a) ==
  /\ pc[a] = "refresh" /\ holder = Nobody
  /\ holder' = a
  /\ at' = Set(at, a, 1)
  /\ listed' = Set(listed, a, Unlisted)
  /\ Goto(a, "list")
  /\ UNCHANGED <<remote, manager, tree, mounted, tail, hit, notify, servers, faults>>

\* ListDownloads asks for the page behind what it has, up to a short one.
List(a) ==
  /\ pc[a] = "list"
  /\ LET sofar == listed[a][at[a]]
         page  == Page(library[at[a]], PageLimit, Len(sofar))
     IN  /\ listed' = [listed EXCEPT ![a][at[a]] = sofar \o page]
         /\ \/ Len(page) = PageLimit /\ UNCHANGED <<at, pc>>
            \/ /\ Len(page) < PageLimit /\ at[a] < NumSources
               /\ at' = Set(at, a, at[a] + 1) /\ UNCHANGED pc
            \/ /\ Len(page) < PageLimit /\ at[a] = NumSources
               /\ Goto(a, "commit") /\ UNCHANGED at
  /\ UNCHANGED <<remote, manager, tree, mounted, holder, tail, hit, notify,
                 servers, faults>>

\* store.All and store.ReplaceAll: one transaction each.
StoredRecords == stored
ReplaceRecords(listing) == stored' = listing

\* The old records are read and the store is replaced in one transaction;
\* whether the visible media changed is told by the two.
Commit(a) ==
  /\ pc[a] = "commit"
  /\ ReplaceRecords(listed[a])
  /\ notify' = Set(notify, a,
                 notify[a] \/ (hasRun /\ Visible(StoredRecords) # Visible(listed[a])))
  /\ overtaken' = \E b \in Actors : pc[b] = "swap"
  /\ Goto(a, "adopt")
  /\ UNCHANGED <<remote, baselines, hasRun, tree, mounted, holder, at, listed,
                 tail, hit, servers, faults>>

\* The manager takes over the baselines of the listing that it has stored.
Adopt(a) ==
  /\ pc[a] = "adopt"
  /\ hasRun' = TRUE
  /\ baselines' = [s \in Sources |-> BaselineFor(listed[a][s])]
  /\ holder' = Nobody
  /\ Goto(a, "swap")
  /\ UNCHANGED <<remote, stored, overtaken, tree, mounted, work, servers, faults>>

\* Mutant of RunFails: the baselines are taken over before the store is written.
FailsWithNewBaselines(a) ==
  /\ pc[a] \in {"list", "commit"}
  /\ Fault /\ holder' = Nobody
  /\ IF pc[a] = "commit"
     THEN baselines' = [s \in Sources |-> BaselineFor(listed[a][s])]
     ELSE UNCHANGED baselines
  /\ Goto(a, IF a = Main THEN "refresh" ELSE "idle")
  /\ listed' = Set(listed, a, Unlisted)
  /\ UNCHANGED <<remote, stored, hasRun, overtaken, tree, mounted, at, tail, hit,
                 notify, servers>>

\* Mutant of RunFails: an error leaves the mutex locked.
FailsLocked(a) ==
  /\ pc[a] \in {"list", "commit"}
  /\ Fault
  /\ Goto(a, IF a = Main THEN "refresh" ELSE "idle")
  /\ listed' = Set(listed, a, Unlisted)
  /\ UNCHANGED <<remote, manager, tree, mounted, holder, at, tail, hit, notify, servers>>

\* A failed listing, read or transaction leaves the store and the manager as
\* they were.  A failed startup ends the process, which is started again.
RunFails(a) ==
  /\ pc[a] \in {"list", "commit"}
  /\ Fault /\ holder' = Nobody
  /\ Goto(a, IF a = Main THEN "refresh" ELSE "idle")
  /\ listed' = Set(listed, a, Unlisted)
  /\ UNCHANGED <<remote, manager, tree, mounted, at, tail, hit, notify, servers>>

\* The servers are told of the tree that was just mounted.
Tells(a) == notify[a] /\ Servers # <<>>

\* Mutant of Swap: a refresh that needs no notification swaps nothing.
SwapIfNotified(a) ==
  /\ pc[a] = "swap"
  /\ tree' = IF notify[a] THEN listed[a] ELSE tree
  /\ Goto(a, IF Tells(a) THEN "notify" ELSE "idle")
  /\ mounted' = (mounted \/ (a = Main /\ ~Tells(a)))
  /\ listed' = Set(listed, a, Unlisted)
  /\ UNCHANGED <<remote, manager, holder, at, tail, hit, notify, servers, faults>>

\* FS.Swap, after the mutex was released; at startup, New and Mount.
Swap(a) ==
  /\ pc[a] = "swap"
  /\ tree' = listed[a]
  /\ Goto(a, IF Tells(a) THEN "notify" ELSE "idle")
  /\ mounted' = (mounted \/ (a = Main /\ ~Tells(a)))
  /\ listed' = Set(listed, a, Unlisted)
  /\ UNCHANGED <<remote, manager, holder, at, tail, hit, notify, servers, faults>>

-----------------------------------------------------------------------------
(* RefreshMountPaths, then NotifyMountPaths *)

\* On with the next server, or the notification ends.
ServerDone(a) ==
  /\ request' = Set(request, a, 0)
  /\ \/ /\ turn[a] < Len(Servers)
        /\ turn' = Set(turn, a, turn[a] + 1) /\ UNCHANGED <<pc, mounted>>
     \/ /\ turn[a] >= Len(Servers)
        /\ turn' = Set(turn, a, 1) /\ Goto(a, "idle")
        /\ mounted' = (mounted \/ a = Main)

\* On with the next of the scans of this server.
ScanDone(a) ==
  IF request[a] < Len(Scans(Servers[turn[a]]))
  THEN request' = Set(request, a, request[a] + 1) /\ UNCHANGED <<turn, pc, mounted>>
  ELSE ServerDone(a)

\* Mutant of AskServer: a server that does not answer ends the notification.
AskOrGiveUp(a) ==
  /\ pc[a] = "notify" /\ request[a] = 0
  /\ \/ ScanDone(a) /\ missed' = missed \ {Servers[turn[a]]} /\ UNCHANGED faults
     \/ /\ Fault /\ missed' = missed \cup {Servers[turn[a]]}
        /\ turn' = Set(turn, a, 1) /\ Goto(a, "idle") /\ UNCHANGED request
        /\ mounted' = (mounted \/ a = Main)
  /\ UNCHANGED <<remote, manager, tree, holder, work, scanned>>

\* A server is asked for its libraries; without an answer it is left alone.
AskServer(a) ==
  /\ pc[a] = "notify" /\ request[a] = 0
  /\ \/ ScanDone(a) /\ missed' = missed \ {Servers[turn[a]]} /\ UNCHANGED faults
     \/ Fault /\ missed' = missed \cup {Servers[turn[a]]} /\ ServerDone(a)
  /\ UNCHANGED <<remote, manager, tree, holder, work, scanned>>

Scanned(scan) ==
  [sh \in Shelves |-> IF sh \in ShelvesOf(scan) THEN Shown(tree, sh.view) ELSE scanned[sh]]

\* A scan reads what is mounted by then.  A request that fails is logged, and
\* may have reached the server; the timeout of 15 s takes the rest with it.
RequestScan(a) ==
  /\ pc[a] = "notify" /\ request[a] # 0
  /\ LET found == Scanned(Scans(Servers[turn[a]])[request[a]])
     IN  \/ scanned' = found /\ ScanDone(a) /\ UNCHANGED <<missed, faults>>
        \/ /\ Fault /\ scanned' \in {scanned, found}
           /\ missed' = missed \cup {Servers[turn[a]]}
           /\ ScanDone(a) \/ ServerDone(a)
  /\ UNCHANGED <<remote, manager, tree, holder, work>>

-----------------------------------------------------------------------------
(* TorBox, and the mutations the web handlers ask it for *)

IdsIn(items) == {items[i].id : i \in DOMAIN items}

Added(items) ==
  {InsertAt(items, i, x) : i \in 1 .. Len(items) + 1, x \in {y \in Items : y.id \notin IdsIn(items)}}
Deleted(items) == {RemoveAt(items, i) : i \in DOMAIN items}
Completed(items) ==
  {[items EXCEPT ![i].cached = TRUE] : i \in {j \in DOMAIN items : ~items[j].cached}}

Becomes(s, libs) ==
  /\ changes < MaxChanges /\ changes' = changes + 1
  /\ \E lib \in libs : library' = [library EXCEPT ![s] = lib]

\* A download is added elsewhere, removed elsewhere, or completes.
ExternalChange ==
  /\ \E s \in Sources :
       Becomes(s, Added(library[s]) \cup Deleted(library[s]) \cup Completed(library[s]))
  /\ UNCHANGED <<manager, tree, mounted, holder, pc, work, servers, faults>>

\* doMutation: the request may take effect and still fail, and then no
\* refresh follows.
Answered(w) ==
  /\ \/ Goto(w, "refresh") /\ notify' = Set(notify, w, TRUE) /\ UNCHANGED faults
     \/ Fault /\ UNCHANGED <<pc, notify>>
  /\ UNCHANGED <<manager, tree, mounted, holder, at, listed, tail, hit, servers>>

\* Torrents are source 1.
AddTorrent(w) == Requested(w) /\ Becomes(1, Added(library[1])) /\ Answered(w)

DeleteTorrent(w) == Requested(w) /\ Becomes(1, Deleted(library[1])) /\ Answered(w)

-----------------------------------------------------------------------------
Idle == [a \in Actors |-> IF a = Main THEN "refresh" ELSE "idle"]

\* What a process starts with: an empty manager, and Run called by Main,
\* whose notification is unconditional.
Fresh ==
  /\ baselines' = [s \in Sources |-> NoBaseline]
  /\ hasRun' = FALSE /\ mounted' = FALSE
  /\ tree' = Unlisted
  /\ holder' = Nobody
  /\ pc' = Idle
  /\ notify' = [a \in Actors |-> a = Main]

\* The process stops anywhere and is started again; the store stays.
Crash ==
  /\ Fault /\ Fresh
  /\ listed' = [a \in Actors |-> Unlisted]
  /\ turn' = [a \in Actors |-> 1] /\ request' = [a \in Actors |-> 0]
  /\ UNCHANGED <<remote, stored, overtaken, at, tail, hit, scanned, missed>>

Init ==
  /\ library \in [Sources -> InitialLibs]
  /\ stored = Unlisted
  /\ tree = Unlisted
  /\ baselines = [s \in Sources |-> NoBaseline]
  /\ hasRun = FALSE /\ mounted = FALSE /\ overtaken = FALSE
  /\ holder = Nobody
  /\ pc = Idle
  /\ at = [a \in Actors |-> 1]
  /\ listed = [a \in Actors |-> Unlisted]
  /\ tail = [a \in Actors |-> NoId]
  /\ hit = [a \in Actors |-> FALSE]
  /\ notify = [a \in Actors |-> a = Main]
  /\ turn = [a \in Actors |-> 1] /\ request = [a \in Actors |-> 0]
  /\ scanned = [sh \in Shelves |-> [s \in Sources |-> {}]] /\ missed = {}
  /\ changes = 0 /\ faults = 0

Progress(a) ==
  \/ LockPoll(a) \/ Probe(a) \/ ProbeHead(a) \/ LockRun(a) \/ List(a)
  \/ Commit(a) \/ Adopt(a) \/ Swap(a) \/ AskServer(a) \/ RequestScan(a)

Next ==
  \/ \E a \in Actors : Progress(a) \/ PollFails(a) \/ RunFails(a)
  \/ \E w \in Web : ManualRefresh(w) \/ AddTorrent(w) \/ DeleteTorrent(w)
  \/ PollTick \/ ResyncTick
  \/ ExternalChange \/ Crash

Spec == Init /\ [][Next]_vars

\* Every request has a timeout and Go's mutex starves nobody; both tickers
\* fire for ever, and select picks a ready one at random.
Fairness ==
  /\ \A a \in Actors : SF_vars(Progress(a))
  /\ SF_vars(PollTick) /\ SF_vars(ResyncTick)

FairSpec == Spec /\ Fairness

-----------------------------------------------------------------------------
(* Properties *)

Libraries == [Sources -> Seq(Items)]

TypeOK ==
  /\ library \in Libraries /\ stored \in Libraries /\ tree \in Libraries
  /\ hasRun \in BOOLEAN /\ mounted \in BOOLEAN /\ overtaken \in BOOLEAN
  /\ holder \in Actors \cup {Nobody}
  /\ pc \in [Actors -> Places]
  /\ at \in [Actors -> Sources]
  /\ listed \in [Actors -> Libraries]
  /\ tail \in [Actors -> Ids \cup {NoId}]
  /\ hit \in [Actors -> BOOLEAN] /\ notify \in [Actors -> BOOLEAN]
  /\ turn \in [Actors -> Nat] /\ request \in [Actors -> Nat]
  /\ scanned \in [Shelves -> [Sources -> SUBSET Ids]]

\* refresh.go:46-47: Run and Poll are serialized.  Whoever lists, probes or
\* commits holds the mutex, so there is at most one of them.
InManager(a) == pc[a] \in {"probe", "head", "list", "commit", "adopt"}

Serialized == \A a \in Actors : InManager(a) <=> holder = a

\* The baseline the probe compares with is the one of the listing that is in
\* the store, through failed refreshes, failed polls and restarts: a change
\* between the store and TorBox is never hidden by a newer or older baseline.
\* Only within a Run, between the transaction and its end, do they differ.
Adopting == \E a \in Actors : pc[a] = "adopt"

BaselineMatchesStore ==
  ~Adopting =>
    IF hasRun THEN \A s \in Sources : baselines[s] = BaselineFor(stored[s])
              ELSE \A s \in Sources : baselines[s] = NoBaseline

\* A probe that finds nothing while TorBox is still has missed no change of
\* the number of items and no completed download of the watched part.
QuietProbeIsSound ==
  \A s \in Sources : ~Adopting /\ hasRun /\ ~Changed(baselines[s], library[s]) =>
    /\ Len(library[s]) = Len(stored[s])
    /\ \A i \in 1 .. Smaller(MaxWindow, Len(stored[s])) :
         ~stored[s][i].cached =>
           library[s][i].id = stored[s][i].id /\ ~library[s][i].cached

\* README.md:64: "A detected change triggers a full mount refresh".  When every
\* refresh is over, the mount shows what is stored.
Resting == mounted /\ \A a \in Actors : pc[a] = "idle"

MountShowsStore == Resting => tree = stored

\* Every refresh mounts what it has stored, with web handlers and the ticker at
\* work together and whatever fails.  Only a listing that was stored while
\* another refresh stood between its Run and its Swap may lose the mount to it.
LastStoredIsMounted == Resting /\ ~overtaken => tree = stored

\* README.md:65: the resync closes what the probe misses.  Once TorBox is
\* still, the mount shows its library for good.
MountConverges == <>[](mounted /\ tree = library)

\* README.md:66-71: the media servers are told of every change of the visible
\* media, and a server that fails is no matter of the other one.  Once TorBox
\* is still, every server whose last notification went through shows what is
\* mounted, in a section of Plex and in every folder of Jellyfin.
UpToDate(sh) == scanned[sh] = Shown(tree, sh.view)

PlexShows(view) ==
  \E s \in ToSet(SectionsAt(view)) :
    UpToDate([server |-> "plex", library |-> s.key, view |-> view])

JellyfinShows(view) ==
  \A f \in ToSet(FoldersAt(view)) :
    UpToDate([server |-> "jellyfin", library |-> f.itemID, view |-> view])

ServersConverge ==
  <>[](/\ mounted
       /\ \A s \in ToSet(Servers) \ missed, v \in Views :
            \/ s = "plex" /\ (SectionsAt(v) = <<>> \/ PlexShows(v))
            \/ s = "jellyfin" /\ JellyfinShows(v))
=============================================================================
