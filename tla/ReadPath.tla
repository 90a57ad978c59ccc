------------------------------ MODULE ReadPath ------------------------------
(***************************************************************************)
(* Reading one remote file: fileHandle.Read (internal/fusefs/fs.go) over   *)
(* BlockCache.Read and its shared calls (internal/cache/block_cache.go),   *)
(* the table of resolved URLs (internal/fusefs/url_resolver.go) and the    *)
(* two requests to TorBox (internal/torbox/client.go).                     *)
(*                                                                         *)
(* A resolved URL is a generation: TorBox serves the newest one and        *)
(* refuses the older ones.  The disk and the eviction are those of         *)
(* BlockCache, reduced to how many bytes of each block are stored.         *)
(***************************************************************************)
EXTENDS Integers, Sequences

CONSTANTS
  Readers,      \* the FUSE reads under way at the same time
  NoCall,       \* "no call is registered for this block"
  BlockSize, FileLen,
  Reported,     \* whether TorBox reports the size: TRUE, FALSE (as 0), or both
  Sizes,        \* the sizes a read can ask for
  MaxExpiries,  \* bound: how often TorBox retires the resolved URL
  MaxFaults     \* bound: how many requests fail for another reason, or are
                \* answered with fewer bytes than TorBox has

ASSUME NoCallAssumption == NoCall \notin Readers
ASSUME SizesAssumption ==
  /\ BlockSize \in Nat \ {0} /\ FileLen \in Nat \ {0}
  /\ Sizes \subseteq Nat \ {0} /\ Reported \subseteq BOOLEAN
ASSUME BoundsAssumption == MaxExpiries \in Nat /\ MaxFaults \in Nat

NoUrl == -1

VARIABLES
  known,     \* the record of the file has its size
  pc,        \* [Readers -> place in Read]
  off, size, \* [Readers -> what is asked, clipped to the file]
  attempt,   \* [Readers -> 1, or 2 after Invalidate]
  pos, out,  \* [Readers -> the loop of BlockCache.Read]
  ans,       \* [Readers -> result of getBlock; for a leader, of its call: how
             \* many bytes of the block, an error, or None]
  url,       \* [Readers -> the URL a leader fetches with]
  inflight,  \* [Blocks -> the leader of the registered call, or NoCall]
  cached,    \* [Blocks -> how many bytes of it are on disk; 0: no entry]
  urlCache,  \* the entry of the table of resolved URLs, or NoUrl
  origin,    \* the generation TorBox serves
  faults,    \* how many other failures have happened
  cut        \* history: the blocks TorBox has sent too few bytes of, ever

loop == <<known, off, size, attempt, pos, out>>
vars == <<pc, loop, ans, url, inflight, cached, urlCache, origin, faults, cut>>

Smaller(m, n) == IF m < n THEN m ELSE n

Blocks == 0 .. (FileLen + BlockSize) \div BlockSize
BlockAt(p) == p \div BlockSize
Start(b) == b * BlockSize
LenOf(b) == Smaller(BlockSize, FileLen - Start(b))  \* the bytes TorBox has of it

None    == -1  \* no answer yet
Expired == -2  \* an error with status 0, 401, 403 or 404
Other   == -3  \* an error with another status
Answers == Other .. BlockSize

Places == {"idle", "block", "join", "wait", "resolve", "ask", "remember",
           "range", "publish", "leave", "invalidate", "done", "eio"}

TypeOK ==
  /\ known \in BOOLEAN
  /\ pc \in [Readers -> Places]
  /\ off \in [Readers -> 0 .. FileLen + BlockSize]
  /\ size \in [Readers -> Nat]
  /\ attempt \in [Readers -> {1, 2}]
  /\ pos \in [Readers -> Nat]
  /\ out \in [Readers -> Seq(0 .. FileLen - 1)]
  /\ ans \in [Readers -> Answers]
  /\ url \in [Readers -> NoUrl .. MaxExpiries]
  /\ inflight \in [Blocks -> Readers \cup {NoCall}]
  /\ cached \in [Blocks -> 0 .. BlockSize]
  /\ urlCache \in NoUrl .. MaxExpiries
  /\ origin \in 0 .. MaxExpiries
  /\ faults \in 0 .. MaxFaults
  /\ cut \subseteq Blocks

Goto(r, place) == pc' = [pc EXCEPT ![r] = place]
Set(f, r, v) == [f EXCEPT ![r] = v]
Block(r) == BlockAt(pos[r])

\* The bytes of the file from one position up to another.
Bytes(from, to) == [i \in 1 .. to - from |-> from + i - 1]

-----------------------------------------------------------------------------
(* fileHandle.Read and the loop of BlockCache.Read *)

\* Where a read starts, and starts again: an empty buffer at its offset.
Restart(r, o) == pos' = Set(pos, r, o) /\ out' = Set(out, r, <<>>)

\* Mutant of Begin: a read behind the end does not end at once.
BeginUnclamped(r) ==
  /\ pc[r] \in {"idle", "done", "eio"}
  /\ \E o \in 0 .. FileLen + BlockSize - 1, n \in Sizes :
       /\ off' = Set(off, r, o)
       /\ size' = Set(size, r, IF ~known THEN n ELSE Smaller(n, FileLen - o))
       /\ Goto(r, "block")
       /\ Restart(r, o)
  /\ attempt' = Set(attempt, r, 1)
  /\ ans' = Set(ans, r, None) /\ url' = Set(url, r, NoUrl)
  /\ UNCHANGED <<known, inflight, cached, urlCache, origin, faults, cut>>

\* A known size bounds what is asked for, and a read behind it ends at once.
Begin(r) ==
  /\ pc[r] \in {"idle", "done", "eio"}
  /\ \E o \in 0 .. FileLen + BlockSize - 1, n \in Sizes :
       /\ off' = Set(off, r, o)
       /\ size' = Set(size, r, IF ~known THEN n
                               ELSE IF o >= FileLen THEN 0
                               ELSE Smaller(n, FileLen - o))
       /\ Goto(r, IF known /\ o >= FileLen THEN "done" ELSE "block")
       /\ Restart(r, o)
  /\ attempt' = Set(attempt, r, 1)
  /\ ans' = Set(ans, r, None) /\ url' = Set(url, r, NoUrl)
  /\ UNCHANGED <<known, inflight, cached, urlCache, origin, faults, cut>>

\* The loop body with the n bytes that are stored or were sent of block b:
\* append what overlaps, then stop at the end asked for, behind a short block,
\* or go on with the next block.
Take(r, b, n) ==
  LET from == pos[r] - Start(b)
      k    == Smaller(n - from, off[r] + size[r] - pos[r])
  IN  IF from >= n
      THEN Goto(r, "done") /\ UNCHANGED <<pos, out>>
      ELSE /\ out' = Set(out, r, out[r] \o Bytes(pos[r], pos[r] + k))
           /\ pos' = Set(pos, r, pos[r] + k)
           /\ Goto(r, IF n < BlockSize \/ pos[r] + k >= off[r] + size[r]
                      THEN "done" ELSE "block")

\* The result of getBlock reaches fileHandle.Read.  A failure that may be an
\* expired URL is tried again, once.
Receive(r, a) ==
  CASE a >= 0 -> Take(r, Block(r), a)
    [] a = Expired /\ attempt[r] = 1 -> Goto(r, "invalidate") /\ UNCHANGED <<pos, out>>
    [] OTHER -> Goto(r, "eio") /\ UNCHANGED <<pos, out>>

\* Mutant of Invalidate: the bytes of the first attempt are kept.
RetryAppends(r) ==
  /\ pc[r] = "invalidate"
  /\ urlCache' = NoUrl
  /\ attempt' = Set(attempt, r, 2)
  /\ pos' = Set(pos, r, off[r])
  /\ Goto(r, "block")
  /\ UNCHANGED <<known, off, size, out, ans, url, inflight, cached, origin, faults, cut>>

\* Mutant of Invalidate: the table keeps the URL.
RetryWithSameUrl(r) ==
  /\ pc[r] = "invalidate"
  /\ attempt' = Set(attempt, r, 2)
  /\ Restart(r, off[r])
  /\ Goto(r, "block")
  /\ UNCHANGED <<known, off, size, ans, url, inflight, cached, urlCache, origin, faults, cut>>

\* URLResolver.Invalidate, and the read from its first byte again.
Invalidate(r) ==
  /\ pc[r] = "invalidate"
  /\ urlCache' = NoUrl
  /\ attempt' = Set(attempt, r, 2)
  /\ Restart(r, off[r])
  /\ Goto(r, "block")
  /\ UNCHANGED <<known, off, size, ans, url, inflight, cached, origin, faults, cut>>

-----------------------------------------------------------------------------
(* getBlock *)

ReadCached(r) ==
  /\ pc[r] = "block"
  /\ LET n == cached[Block(r)] IN
     \/ n > 0 /\ Take(r, Block(r), n)
     \/ n = 0 /\ Goto(r, "join") /\ UNCHANGED <<pos, out>>
  /\ UNCHANGED <<known, off, size, attempt, ans, url, inflight, cached, urlCache,
                 origin, faults, cut>>

\* A call whose leader is at "leave" is closed but still registered.
Join(r) ==
  /\ pc[r] = "join"
  /\ LET leader == inflight[Block(r)] IN
     \/ /\ leader = NoCall
        /\ inflight' = Set(inflight, Block(r), r)
        /\ Goto(r, "resolve") /\ ans' = Set(ans, r, None)
     \/ /\ leader # NoCall
        /\ Goto(r, "wait") /\ UNCHANGED inflight
        /\ ans' = Set(ans, r, IF pc[leader] = "leave" THEN ans[leader] ELSE None)
  /\ UNCHANGED <<loop, url, cached, urlCache, origin, faults, cut>>

Wake(r) ==
  /\ pc[r] = "wait" /\ ans[r] # None
  /\ Receive(r, ans[r]) /\ ans' = Set(ans, r, None)
  /\ UNCHANGED <<known, off, size, attempt, url, inflight, cached, urlCache,
                 origin, faults, cut>>

\* The kernel interrupts the read: the waiter returns status 0.
Cancel(r) ==
  /\ pc[r] = "wait" /\ faults < MaxFaults
  /\ faults' = faults + 1
  /\ Receive(r, Expired) /\ ans' = Set(ans, r, None)
  /\ UNCHANGED <<known, off, size, attempt, url, inflight, cached, urlCache, origin, cut>>

\* Mutant of Publish: the channel of the call is not closed.
PublishNothing(r) ==
  /\ pc[r] = "publish"
  /\ Goto(r, "leave")
  /\ UNCHANGED <<ans, loop, url, inflight, cached, urlCache, origin, faults, cut>>

\* close(cl.done)
Publish(r) ==
  /\ pc[r] = "publish"
  /\ Goto(r, "leave")
  /\ ans' = [w \in Readers |->
               IF pc[w] = "wait" /\ Block(w) = Block(r) /\ ans[w] = None
               THEN ans[r] ELSE ans[w]]
  /\ UNCHANGED <<loop, url, inflight, cached, urlCache, origin, faults, cut>>

Leave(r) ==
  /\ pc[r] = "leave"
  /\ inflight' = Set(inflight, Block(r), NoCall)
  /\ Receive(r, ans[r]) /\ ans' = Set(ans, r, None)
  /\ UNCHANGED <<known, off, size, attempt, url, cached, urlCache, origin, faults, cut>>

-----------------------------------------------------------------------------
(* The leader's fetch: URLResolver.Resolve, then ReadRange *)

Resolve(r) ==
  /\ pc[r] = "resolve"
  /\ \/ urlCache # NoUrl /\ Goto(r, "range") /\ url' = Set(url, r, urlCache)
     \/ urlCache = NoUrl /\ Goto(r, "ask") /\ UNCHANGED url
  /\ UNCHANGED <<loop, ans, inflight, cached, urlCache, origin, faults, cut>>

\* The answer of the leader's call; its URL is of no more use.
Settle(r, a) ==
  Goto(r, "publish") /\ ans' = Set(ans, r, a) /\ url' = Set(url, r, NoUrl)

Fault == faults < MaxFaults /\ faults' = faults + 1

\* ResolveDownloadURL, with no lock held; any error of it has status 0.
AskUrl(r) ==
  /\ pc[r] = "ask"
  /\ \/ /\ url' = Set(url, r, origin) /\ Goto(r, "remember")
        /\ UNCHANGED <<ans, faults>>
     \/ Fault /\ Settle(r, Expired)
  /\ UNCHANGED <<loop, inflight, cached, urlCache, origin, cut>>

\* Whatever happened in the table meanwhile, the URL is stored.
Remember(r) ==
  /\ pc[r] = "remember"
  /\ urlCache' = url[r]
  /\ Goto(r, "range")
  /\ UNCHANGED <<loop, ans, url, inflight, cached, origin, faults, cut>>

\* The n bytes of a body: writeCached, unless there are none.
Store(r, n) ==
  /\ Settle(r, n)
  /\ cached' = IF n > 0 THEN Set(cached, Block(r), n) ELSE cached

\* ReadRange.  A retired URL is refused with 401, 403 or 404; a range behind
\* the end of the file with 416.  The length of a 206 body is not looked at: one
\* that is short of the range, or empty, is the block.
ReadRange(r) ==
  /\ pc[r] = "range"
  /\ LET b == Block(r) IN
     \/ /\ url[r] = origin /\ Start(b) < FileLen
        /\ \/ Store(r, LenOf(b)) /\ UNCHANGED <<faults, cut>>
           \/ /\ Fault /\ \E n \in 0 .. LenOf(b) - 1 : Store(r, n)
              /\ cut' = cut \cup {b}
     \/ /\ url[r] = origin /\ Start(b) >= FileLen
        /\ Settle(r, Other) /\ UNCHANGED <<cached, faults, cut>>
     \/ url[r] # origin /\ Settle(r, Expired) /\ UNCHANGED <<cached, faults, cut>>
     \/ /\ Fault /\ \E a \in {Expired, Other} : Settle(r, a)
        /\ UNCHANGED <<cached, cut>>
  /\ UNCHANGED <<loop, inflight, urlCache, origin>>

-----------------------------------------------------------------------------
(* What happens around the reads *)

\* evictLocked, for other files' blocks.
Evict ==
  /\ \E b \in Blocks : cached[b] > 0 /\ cached' = Set(cached, b, 0)
  /\ UNCHANGED <<pc, loop, ans, url, inflight, urlCache, origin, faults, cut>>

\* The five minutes of a table entry are over.
Ttl ==
  /\ urlCache # NoUrl /\ urlCache' = NoUrl
  /\ UNCHANGED <<pc, loop, ans, url, inflight, cached, origin, faults, cut>>

\* TorBox retires the URL it has handed out.
Retire ==
  /\ origin < MaxExpiries /\ origin' = origin + 1
  /\ UNCHANGED <<pc, loop, ans, url, inflight, cached, urlCache, faults, cut>>

Init ==
  /\ known \in Reported
  /\ pc = [r \in Readers |-> "idle"]
  /\ off = [r \in Readers |-> 0]
  /\ size = [r \in Readers |-> 0]
  /\ attempt = [r \in Readers |-> 1]
  /\ pos = [r \in Readers |-> 0]
  /\ out = [r \in Readers |-> <<>>]
  /\ ans = [r \in Readers |-> None]
  /\ url = [r \in Readers |-> NoUrl]
  /\ inflight = [b \in Blocks |-> NoCall]
  /\ cached = [b \in Blocks |-> 0]
  /\ urlCache = NoUrl
  /\ origin = 0
  /\ faults = 0
  /\ cut = {}

Progress(r) ==
  \/ ReadCached(r) \/ Join(r) \/ Wake(r) \/ Resolve(r) \/ AskUrl(r)
  \/ Remember(r) \/ ReadRange(r) \/ Publish(r) \/ Leave(r) \/ Invalidate(r)

Next ==
  \/ \E r \in Readers : Begin(r) \/ Cancel(r) \/ Progress(r)
  \/ Evict \/ Ttl \/ Retire

Spec == Init /\ [][Next]_vars

\* The scheduler runs every goroutine, and both requests have a timeout.
FairSpec == Spec /\ \A r \in Readers : WF_vars(Progress(r))

-----------------------------------------------------------------------------
(* Properties *)

\* A read that succeeds returns bytes of the file from its offset on: no hole,
\* no byte twice after a retry, none behind what was asked.  It returns all that
\* were asked for, as far as the file has them, unless it ends in a block that
\* TorBox has sent cut short.
ReturnsWhatTorBoxSent ==
  \A r \in Readers : pc[r] = "done" =>
    LET end == off[r] + Len(out[r]) IN
    /\ out[r] = Bytes(off[r], end)
    /\ end <= off[r] + size[r]
    /\ end = off[r] + size[r] \/ end >= FileLen \/ BlockAt(end) \in cut

\* block_cache.go:20: "FetchFunc fetches exactly size bytes at off when
\* available".  If it does, a read that succeeds returns exactly the bytes that
\* were asked for, as far as the file has them.  With short bodies it does not
\* (ReadPathProofs has the theorem on the reads for which it holds).
ReturnsWhatWasAsked ==
  \A r \in Readers : pc[r] = "done" =>
    out[r] = Bytes(off[r], Smaller(off[r] + size[r], FileLen))

\* Every read returns, with bytes or with EIO.
EveryReadReturns ==
  \A r \in Readers : (pc[r] # "idle") ~> (pc[r] \in {"idle", "done", "eio"})

\* A URL table that holds a dead URL heals: once TorBox has stopped retiring
\* URLs and failing, reads of the file sooner or later stop failing for good.
ReadsRecover ==
  <>[][\A r \in Readers : pc[r] # "eio" => pc'[r] # "eio"]_vars

\* block_cache.go:20-21: the status reaches the caller "so auth/expiry
\* failures can invalidate resolved URLs".  One retirement of the URL and no
\* other failure fails no read of bytes the file has.
OneExpiryIsAbsorbed ==
  faults = 0 /\ origin <= 1 =>
    \A r \in Readers : off[r] < FileLen => pc[r] # "eio"

\* fs.go:193-195: with no size known, "Read keeps fetching ranges until the
\* HTTP source ends/errors".  With no failure and no retired URL, a read that
\* begins inside the file returns its bytes.
TailIsReadable ==
  faults = 0 /\ origin = 0 =>
    \A r \in Readers : off[r] < FileLen => pc[r] # "eio"
=============================================================================
