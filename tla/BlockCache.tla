----------------------------- MODULE BlockCache -----------------------------
(***************************************************************************)
(* The disk block cache, internal/cache/block_cache.go: what happens to    *)
(* the calls of getBlock that the FUSE threads and the read-ahead          *)
(* goroutines make at the same time, to the entries in memory, and to the  *)
(* files on disk, across crashes of the process.                           *)
(*                                                                         *)
(* A block's bytes are abstracted to their length.  Every action is one    *)
(* step another thread can observe: one critical section of the mutex mu,  *)
(* one call of the operating system, or one request upstream.  Eviction    *)
(* runs inside a critical section and removes one entry per step, so the   *)
(* mutex is "held" while a thread is at "evict".                           *)
(***************************************************************************)
EXTENDS Integers, FiniteSets, FiniteSetsExt

CONSTANTS
  Threads,    \* the goroutines that call getBlock
  Keys,       \* the blocks, named by blockKey
  Lengths,    \* the lengths a block can have (the last of a file is short)
  MaxBytes,   \* the configured CACHE_SIZE
  NoCall,     \* "no call is registered for this key"
  MaxLeft     \* bound: how many files os.Remove fails on between two starts

ASSUME LengthsAssumption == Lengths \subseteq Nat \ {0}
ASSUME KeysAssumption == IsFiniteSet(Keys)
ASSUME MaxBytesAssumption == MaxBytes \in Nat \ {0}
ASSUME NoCallAssumption == NoCall \notin Threads
ASSUME MaxLeftAssumption == MaxLeft \in Nat

None   == -1   \* no entry, no file, no answer yet
Failed == -2   \* getBlock returned an error
Torn   == -3   \* a file created or cut off before its bytes were written
Empty  == 0    \* getBlock returned no bytes and no error

VARIABLES
  pc,        \* [Threads -> place in getBlock]
  key,       \* [Threads -> the block the thread asks for]
  res,       \* [Threads -> its answer; for a leader, what its call carries]
  inflight,  \* [Keys -> the leader of the registered call, or NoCall]
  entries,   \* [Keys -> size of the entry, or None]
  rank,      \* [Keys -> recency of the entry's atime, larger is newer]
  used,      \* the sum the cache keeps of the sizes of its entries
  file,      \* [Keys -> length of <key>.blk, or None]
  tmp,       \* [Keys -> length of <key>.blk.tmp, Torn, or None]
  left,      \* the .blk files os.Remove has failed on since the start
  booting    \* New has not returned: scan and the first eviction are running

vars == <<pc, key, res, inflight, entries, rank, used, file, tmp, left, booting>>
disk == <<file, tmp, left>>
index == <<entries, rank, used>>

Places == {"idle", "lookup", "read", "drop", "join", "wait", "fetch", "open",
           "fill", "rename", "register", "evict", "publish", "leave"}

TypeOK ==
  /\ pc \in [Threads -> Places]
  /\ key \in [Threads -> Keys]
  /\ res \in [Threads -> Lengths \cup {None, Failed, Torn, Empty}]
  /\ inflight \in [Keys -> Threads \cup {NoCall}]
  /\ entries \in [Keys -> Lengths \cup {None, Torn}]
  /\ rank \in [Keys -> Int]
  /\ used \in Int
  /\ file \in [Keys -> Lengths \cup {None, Torn}]
  /\ tmp \in [Keys -> Lengths \cup {None, Torn}]
  /\ left \subseteq Keys
  /\ booting \in BOOLEAN

-----------------------------------------------------------------------------
(* The index in memory *)

\* mu can be locked: no pass of evictLocked is under way.
MutexFree == ~booting /\ \A t \in Threads : pc[t] # "evict"

\* k becomes the most recently used of the blocks.
Touch(k) ==
  rank' = [j \in Keys |-> IF j = k THEN Cardinality(Keys)
                          ELSE IF rank[j] > rank[k] THEN rank[j] - 1
                          ELSE rank[j]]

\* os.Remove, whose error is ignored: a file may stay.
Remove(k) ==
  \/ file' = [file EXCEPT ![k] = None] /\ UNCHANGED left
  \/ /\ file[k] # None /\ Cardinality(left) < MaxLeft
     /\ left' = left \cup {k} /\ UNCHANGED file

\* Mutant of RemoveLocked: only the entry goes, and the file is not removed.
RemoveEntryOnly(k) ==
  /\ entries' = [entries EXCEPT ![k] = None]
  /\ used' = IF entries[k] = None THEN used ELSE used - entries[k]
  /\ UNCHANGED <<rank, disk>>

\* Mutant of RemoveLocked: an error of os.Remove leaves the entry, whose size
\* is no longer counted.
RemoveOrKeepEntry(k) ==
  /\ used' = IF entries[k] = None THEN used ELSE used - entries[k]
  /\ \/ entries[k] = None /\ UNCHANGED <<entries, file, left>>
     \/ /\ entries[k] # None /\ Remove(k)
        /\ entries' = IF k \in left' THEN entries ELSE [entries EXCEPT ![k] = None]
  /\ UNCHANGED <<rank, tmp>>

\* removeLocked: nothing without an entry, else the file goes if it can be
\* removed, and the entry whether it can or not.
RemoveLocked(k) ==
  /\ entries' = [entries EXCEPT ![k] = None]
  /\ used' = IF entries[k] = None THEN used ELSE used - entries[k]
  /\ \/ entries[k] = None /\ UNCHANGED <<file, left>>
     \/ entries[k] # None /\ Remove(k)
  /\ UNCHANGED <<rank, tmp>>

Registered == {k \in Keys : entries[k] # None}

\* The loop of evictLocked stops when the rest fits or nothing is left.
Fits == used <= MaxBytes \/ Registered = {}

\* Mutant of EvictOldest: the times are sorted the other way round.
EvictNewest ==
  /\ ~Fits
  /\ \E k \in Registered :
       /\ \A j \in Registered : rank[k] >= rank[j]
       /\ RemoveLocked(k)

\* One turn of that loop: the least recently used entry is removed.
EvictOldest ==
  /\ ~Fits
  /\ \E k \in Registered :
       /\ \A j \in Registered : rank[k] <= rank[j]
       /\ RemoveLocked(k)

-----------------------------------------------------------------------------
(* getBlock, one action per observable step of thread t *)

Goto(t, place) == pc' = [pc EXCEPT ![t] = place]
Answer(t, r) == res' = [res EXCEPT ![t] = r]
Return(t, r) == Goto(t, "idle") /\ Answer(t, r)

Begin(t) ==
  /\ pc[t] = "idle" /\ ~booting
  /\ \E k \in Keys : key' = [key EXCEPT ![t] = k]
  /\ Goto(t, "lookup") /\ Answer(t, None)
  /\ UNCHANGED <<inflight, index, disk, booting>>

\* readCached looks the block up and touches it under the mutex ...
Lookup(t) ==
  /\ pc[t] = "lookup" /\ MutexFree
  /\ \/ entries[key[t]] = None /\ Goto(t, "join") /\ UNCHANGED rank
     \/ entries[key[t]] # None /\ Goto(t, "read") /\ Touch(key[t])
  /\ UNCHANGED <<key, res, inflight, entries, used, disk, booting>>

\* Mutant of ReadFile: a file that is gone is not noticed.
ReadBlindly(t) ==
  /\ pc[t] = "read"
  /\ Return(t, file[key[t]])
  /\ UNCHANGED <<key, inflight, index, disk, booting>>

\* ... reads the file without it, which may fail also if it is there ...
ReadFile(t) ==
  /\ pc[t] = "read"
  /\ \/ file[key[t]] # None /\ Return(t, file[key[t]])
     \/ Goto(t, "drop") /\ UNCHANGED res
  /\ UNCHANGED <<key, inflight, index, disk, booting>>

\* ... and drops the entry, whichever it is by now, after an error.
Drop(t) ==
  /\ pc[t] = "drop" /\ MutexFree
  /\ RemoveLocked(key[t])
  /\ Goto(t, "join")
  /\ UNCHANGED <<key, res, inflight, booting>>

\* Mutant of Join: the table of calls is not looked at.
AlwaysLead(t) ==
  /\ pc[t] = "join" /\ MutexFree
  /\ inflight' = [inflight EXCEPT ![key[t]] = t]
  /\ Goto(t, "fetch")
  /\ UNCHANGED <<key, res, index, disk, booting>>

\* Join the registered call or become the leader of a new one.  A call whose
\* leader is at "leave" is done: its answer is there at once.
Join(t) ==
  /\ pc[t] = "join" /\ MutexFree
  /\ LET leader == inflight[key[t]] IN
     \/ /\ leader = NoCall
        /\ inflight' = [inflight EXCEPT ![key[t]] = t]
        /\ Goto(t, "fetch") /\ UNCHANGED res
     \/ /\ leader # NoCall
        /\ Goto(t, "wait") /\ UNCHANGED inflight
        /\ Answer(t, IF pc[leader] = "leave" THEN res[leader] ELSE None)
  /\ UNCHANGED <<key, index, disk, booting>>

\* The call is done: the waiter takes its answer.
Wake(t) ==
  /\ pc[t] = "wait" /\ res[t] # None
  /\ Goto(t, "idle")
  /\ UNCHANGED <<key, res, inflight, index, disk, booting>>

\* The waiter's context is done: it leaves with an error, even if the call
\* is done as well.
Cancel(t) ==
  /\ pc[t] = "wait"
  /\ Return(t, Failed)
  /\ UNCHANGED <<key, inflight, index, disk, booting>>

\* The request upstream: an error (the leader's own context included), no
\* bytes, or the block, which writeCached then stores.
Fetch(t) ==
  /\ pc[t] = "fetch"
  /\ \/ \E r \in {Failed, Empty} : Goto(t, "publish") /\ Answer(t, r)
     \/ \E n \in Lengths : Goto(t, "open") /\ Answer(t, n)
  /\ UNCHANGED <<key, inflight, index, disk, booting>>

\* An error of writeCached is the answer of the call.
StoreFails(t) == Goto(t, "publish") /\ Answer(t, Failed)

\* Mutant of OpenTmp: the block is written to its final name.
OpenInPlace(t) ==
  /\ pc[t] = "open"
  /\ \/ StoreFails(t) /\ UNCHANGED file
     \/ Goto(t, "fill") /\ UNCHANGED res /\ file' = [file EXCEPT ![key[t]] = Torn]
  /\ UNCHANGED <<key, inflight, index, tmp, left, booting>>

\* os.WriteFile creates or truncates the temporary file ...
OpenTmp(t) ==
  /\ pc[t] = "open"
  /\ \/ StoreFails(t) /\ UNCHANGED tmp
     \/ Goto(t, "fill") /\ UNCHANGED res /\ tmp' = [tmp EXCEPT ![key[t]] = Torn]
  /\ UNCHANGED <<key, inflight, index, file, left, booting>>

\* ... and writes the bytes; an error here (disk full) leaves the torn file.
FillTmp(t) ==
  /\ pc[t] = "fill"
  /\ \/ StoreFails(t) /\ UNCHANGED tmp
     \/ Goto(t, "rename") /\ UNCHANGED res /\ tmp' = [tmp EXCEPT ![key[t]] = res[t]]
  /\ UNCHANGED <<key, inflight, index, file, left, booting>>

\* The block gets its final name, or the temporary file is removed, an error
\* of which is ignored.
RenameTmp(t) ==
  /\ pc[t] = "rename"
  /\ \/ /\ StoreFails(t) /\ UNCHANGED <<file, left>>
        /\ tmp' \in {tmp, [tmp EXCEPT ![key[t]] = None]}
     \/ /\ Goto(t, "register") /\ UNCHANGED res
        /\ file' = [file EXCEPT ![key[t]] = tmp[key[t]]]
        /\ tmp' = [tmp EXCEPT ![key[t]] = None]
        /\ left' = left \ {key[t]}
  /\ UNCHANGED <<key, inflight, index, booting>>

\* Mutant of Register: the size of an older entry stays counted.
RegisterAgain(t) ==
  /\ pc[t] = "register" /\ MutexFree
  /\ used' = used + res[t]
  /\ entries' = [entries EXCEPT ![key[t]] = res[t]]
  /\ Touch(key[t])
  /\ Goto(t, "evict")
  /\ UNCHANGED <<key, res, inflight, disk, booting>>

\* The entry replaces an older one; the eviction that follows keeps the mutex.
Register(t) ==
  /\ pc[t] = "register" /\ MutexFree
  /\ used' = used + res[t]
             - (IF entries[key[t]] = None THEN 0 ELSE entries[key[t]])
  /\ entries' = [entries EXCEPT ![key[t]] = res[t]]
  /\ Touch(key[t])
  /\ Goto(t, "evict")
  /\ UNCHANGED <<key, res, inflight, disk, booting>>

Evict(t) ==
  /\ pc[t] = "evict"
  /\ \/ EvictOldest /\ UNCHANGED pc
     \/ Fits /\ Goto(t, "publish") /\ UNCHANGED <<index, disk>>
  /\ UNCHANGED <<key, res, inflight, booting>>

\* Mutant of Publish: the channel of the call is not closed.
PublishNothing(t) ==
  /\ pc[t] = "publish"
  /\ Goto(t, "leave")
  /\ UNCHANGED <<key, res, inflight, index, disk, booting>>

\* close(cl.done): the waiters of this call have their answer.
Publish(t) ==
  /\ pc[t] = "publish"
  /\ Goto(t, "leave")
  /\ res' = [w \in Threads |->
               IF pc[w] = "wait" /\ key[w] = key[t] /\ res[w] = None
               THEN res[t] ELSE res[w]]
  /\ UNCHANGED <<key, inflight, index, disk, booting>>

\* Mutant of Leave: the call is set to nil, not deleted.
LeaveNil(t) ==
  /\ pc[t] = "leave" /\ MutexFree
  /\ inflight' = [inflight EXCEPT ![key[t]] = None]
  /\ Goto(t, "idle")
  /\ UNCHANGED <<key, res, index, disk, booting>>

\* Only then is the call taken out of the table.
Leave(t) ==
  /\ pc[t] = "leave" /\ MutexFree
  /\ inflight' = [inflight EXCEPT ![key[t]] = NoCall]
  /\ Goto(t, "idle")
  /\ UNCHANGED <<key, res, index, disk, booting>>

-----------------------------------------------------------------------------
(* A crash of the process, and New *)

\* Memory is lost, the files stay.  The modification times that scan takes
\* for access times put the blocks in some other order.
Crash ==
  /\ pc' = [t \in Threads |-> "idle"]
  /\ res' = [t \in Threads |-> None]
  /\ inflight' = [k \in Keys |-> NoCall]
  /\ entries' = [k \in Keys |-> None]
  /\ used' = 0
  /\ rank' \in {r \in [Keys -> 1..Cardinality(Keys)] : IsInjective(r)}
  /\ left' = {}
  /\ booting' = TRUE
  /\ UNCHANGED <<key, file, tmp>>

\* scan runs once: a file that the first eviction could not remove stays out.
Unscanned == {k \in Keys \ left : file[k] # None /\ entries[k] = None}

\* scan takes every .blk file for an entry, and looks at no other file.
Scan ==
  /\ booting
  /\ \E k \in Unscanned :
       /\ entries' = [entries EXCEPT ![k] = file[k]]
       /\ used' = used + file[k]
  /\ UNCHANGED <<pc, key, res, inflight, rank, disk, booting>>

\* Mutant of BootEvict: New does not wait for the end of the scan.
BootEvictEarly ==
  /\ booting
  /\ \/ EvictOldest /\ UNCHANGED booting
     \/ Fits /\ booting' = FALSE /\ UNCHANGED <<index, disk>>
  /\ UNCHANGED <<pc, key, res, inflight>>

BootEvict ==
  /\ booting /\ Unscanned = {}
  /\ \/ EvictOldest /\ UNCHANGED booting
     \/ Fits /\ booting' = FALSE /\ UNCHANGED <<index, disk>>
  /\ UNCHANGED <<pc, key, res, inflight>>

-----------------------------------------------------------------------------
Init ==
  /\ pc = [t \in Threads |-> "idle"]
  /\ key \in [Threads -> Keys]
  /\ res = [t \in Threads |-> None]
  /\ inflight = [k \in Keys |-> NoCall]
  /\ entries = [k \in Keys |-> None]
  /\ rank \in {r \in [Keys -> 1..Cardinality(Keys)] : IsInjective(r)}
  /\ used = 0
  /\ file = [k \in Keys |-> None]
  /\ tmp = [k \in Keys |-> None]
  /\ left = {}
  /\ booting = TRUE

\* What a thread does once it has called getBlock, its caller permitting.
Progress(t) ==
  \/ Lookup(t) \/ ReadFile(t) \/ Drop(t) \/ Join(t) \/ Wake(t) \/ Fetch(t)
  \/ OpenTmp(t) \/ FillTmp(t) \/ RenameTmp(t) \/ Register(t) \/ Evict(t)
  \/ Publish(t) \/ Leave(t)

Boot == Scan \/ BootEvict

Next ==
  \/ \E t \in Threads : Begin(t) \/ Cancel(t) \/ Progress(t)
  \/ Boot
  \/ Crash

Spec == Init /\ [][Next]_vars

\* Go hands a contended mutex to every goroutine that waits for it (strong
\* fairness), and every request upstream has a timeout, so Fetch ends.
Fairness == WF_vars(Boot) /\ \A t \in Threads : SF_vars(Progress(t))

FairSpec == Spec /\ Fairness

-----------------------------------------------------------------------------
(* Properties *)

Leading(t) == pc[t] \in {"fetch", "open", "fill", "rename", "register",
                         "evict", "publish", "leave"}

\* getBlock promises one request at a time per block: two threads are never
\* both between registering a call and removing it for the same key, and a
\* waiter waits for a thread that will answer it.
SingleFlight ==
  /\ \A t, u \in Threads : Leading(t) /\ Leading(u) /\ key[t] = key[u] => t = u
  /\ \A t \in Threads :
       pc[t] = "wait" /\ res[t] = None
         => \E u \in Threads : Leading(u) /\ key[u] = key[t] /\ pc[u] # "leave"

\* The rename in writeCached publishes whole blocks only: whatever crash or
\* write error happened, no .blk file is torn, so scan (which believes every
\* .blk file) and ReadFile never hand out a cut-off block.
WholeBlocks ==
  /\ \A k \in Keys : file[k] # Torn /\ entries[k] # Torn
  /\ \A t \in Threads : res[t] # Torn

\* A .blk file without an entry is never evicted.  The code ignores the errors
\* of os.Remove, so such files exist; but they are the only ones, they are
\* accounted for again when their block is stored again, and a restart finds
\* them: any other file has an entry, or the thread that has just renamed it is
\* about to register it, or New is still scanning.
NoOrphan ==
  \A k \in Keys : file[k] # None =>
    \/ booting
    \/ entries[k] # None
    \/ k \in left
    \/ \E t \in Threads : pc[t] = "register" /\ key[t] = k

\* used is the sum of the sizes of the entries whenever the mutex is free,
\* and then the entries fit in the configured size.
UsedAccounting ==
  MutexFree =>
    /\ used = SumFunctionOnSet(entries, Registered)
    /\ used <= MaxBytes

\* The block being stored is the newest: the eviction it triggers does not
\* remove it unless it exceeds the whole cache by itself.
NewestSurvives ==
  \A t \in Threads :
    pc[t] = "evict" /\ res[t] <= MaxBytes => entries[key[t]] = res[t]

\* Every call of getBlock returns, whatever the other threads do.
EveryCallReturns == \A t \in Threads : (pc[t] # "idle") ~> (pc[t] = "idle")

\* The calls of getBlock, seen by their callers.
Phase == [t \in Threads |-> IF pc[t] = "idle" THEN "idle"
                            ELSE IF Leading(t) THEN "fetching" ELSE "asking"]
Reply == [t \in Threads |-> IF pc[t] = "idle" THEN res[t] ELSE None]

Service == INSTANCE SharedFetch
  WITH phase <- Phase, want <- key, reply <- Reply, NoReply <- None,
       Replies <- Lengths \cup {Empty, Failed}

\* The calls of getBlock, with the disk, the index and the eviction hidden,
\* behave as SharedFetch says: one whole answer per call, one fetch per block.
ImplementsSharedFetch == Service!SafeSpec
=============================================================================
