------------------------------ MODULE ReadAhead ------------------------------
(***************************************************************************)
(* The read-ahead of one file: maybePrefetch in                            *)
(* internal/cache/block_cache.go, the goroutines it starts, the slots of   *)
(* prefetchSem they compete for and the generation that a seek moves.      *)
(*                                                                         *)
(* getBlock is the one of BlockCache, reduced to hit, join, lead and end.  *)
(* The number prefetchGen is represented by what sameGeneration answers: a *)
(* goroutine is "stale" once a seek came after its generation was read.    *)
(* A read lies within one block here; ReadPath has the reads that do not.  *)
(***************************************************************************)
EXTENDS Integers, FiniteSets, Functions

BagOps == INSTANCE BagsExt

CONSTANTS
  Readers,    \* the FUSE reads under way at the same time
  MaxTasks,   \* bound: the read-ahead goroutines alive at the same time
  Slots,      \* the capacity of prefetchSem
  BlockSize, FileLen,
  Ahead,      \* the configured read-ahead, in bytes
  Reads,      \* what can be read: <<offset, end>>, in the file
  Reported    \* whether TorBox reports the size: TRUE, FALSE (as 0), or both

ASSUME ReadersAssumption == IsFiniteSet(Readers)
ASSUME SizesAssumption ==
  /\ BlockSize \in Nat \ {0} /\ FileLen \in Nat \ {0}
  /\ Ahead \in Nat \ {0} /\ Slots \in Nat \ {0}
  /\ Reported \subseteq BOOLEAN /\ MaxTasks \in Nat
  /\ Reads \subseteq Nat \X Nat
  /\ \A p \in Reads : /\ p[1] < p[2] /\ p[2] <= FileLen
                      /\ p[1] \div BlockSize = (p[2] - 1) \div BlockSize

VARIABLES
  known,    \* the record of the file has its size
  reader,   \* [Readers -> its place, where it starts, where its bytes end,
            \*  the block it is about, whether its generation is stale]
  work,     \* the goroutines: a bag of [at, block, stale]
  lastEnd,  \* where the last read ended
  taken,    \* the slots of prefetchSem in use
  calls,    \* the blocks for which a call is registered
  cached,   \* the blocks on disk
  span      \* the least and the largest end of a read since the last seek;
            \* only the properties look at it

vars == <<known, reader, work, lastEnd, taken, calls, cached, span>>

CeilBlock(n) == (n + BlockSize - 1) \div BlockSize
AheadBlocks == CeilBlock(Ahead)
Blocks == 0 .. CeilBlock(FileLen) + AheadBlocks
Behind(b) == b * BlockSize >= FileLen

Rest == [at |-> "idle", off |-> 0, end |-> 0, block |-> 0, stale |-> FALSE]

Busy == {r \in Readers : reader[r].at # "idle"}
Tasks == DOMAIN work

\* Those that have taken a slot, and not given it back.
Holding == {"recheck", "get", "wait", "fetch", "release"}
Holders == {x \in Tasks : x.at \in Holding}

Goto(r, place) ==
  reader' = [reader EXCEPT ![r] = IF place = "idle" THEN Rest ELSE [@ EXCEPT !.at = place]]
Moves(x, place) == work' = BagOps!BagAdd(BagOps!BagRemove(work, x), [x EXCEPT !.at = place])
Ends(x) == work' = BagOps!BagRemove(work, x)

\* Every goroutine becomes what f says of those like it.
Becomes(f) == work' = [y \in Range(f) |-> SumFunctionOnSet(work, {x \in Tasks : f[x] = y})]

TypeOK ==
  /\ known \in BOOLEAN
  /\ reader \in [Readers ->
       [at : {"idle", "wait", "fetch", "note", "spawn"}, off : 0 .. FileLen,
        end : 0 .. FileLen, block : Blocks, stale : BOOLEAN]]
  /\ work \in [Tasks -> Nat \ {0}]
  /\ Tasks \subseteq [at : {"check", "slot"} \cup Holding, block : Blocks, stale : BOOLEAN]
  /\ SumFunction(work) <= MaxTasks
  /\ lastEnd \in 0 .. FileLen /\ taken \in 0 .. Slots
  /\ calls \subseteq Blocks /\ cached \subseteq Blocks
  /\ span \in (0 .. FileLen) \X (0 .. FileLen)

-----------------------------------------------------------------------------
(* getBlock, for a read and for a goroutine *)

\* The block is cached, a call for it is under way, or one is registered.
Found(b) == IF b \in cached THEN "have" ELSE IF b \in calls THEN "wait" ELSE "fetch"
Register(b) == calls' = IF Found(b) = "fetch" THEN calls \cup {b} ELSE calls

TaskGet(x) ==
  /\ x.at = "get"
  /\ Moves(x, IF Found(x.block) = "have" THEN "release" ELSE Found(x.block))
  /\ Register(x.block)
  /\ UNCHANGED <<known, reader, lastEnd, taken, cached, span>>

Served(x, b) == x.block = b /\ x.at \in {"fetch", "wait"}

\* Mutant of EndCall: those that joined the call are not woken.
EndCallAlone(b) ==
  /\ b \in calls
  /\ \E ok \in BOOLEAN :
       /\ reader' = [r \in Readers |->
            IF reader[r].block # b \/ reader[r].at # "fetch" THEN reader[r]
            ELSE IF ok THEN [reader[r] EXCEPT !.at = "note"] ELSE Rest]
       /\ cached' = cached \cup {c \in {b} : ok /\ ~Behind(c)}
  /\ Becomes([x \in Tasks |-> IF Served(x, b) THEN [x EXCEPT !.at = "release"] ELSE x])
  /\ calls' = calls \ {b}
  /\ UNCHANGED <<known, lastEnd, taken, span>>

\* The call ends: its leader and all that joined it have the block, or its
\* error.  There is nothing to store behind the end of the file.
EndCall(b) ==
  /\ b \in calls
  /\ \E ok \in BOOLEAN :
       /\ reader' = [r \in Readers |->
            IF ~Served(reader[r], b) THEN reader[r]
            ELSE IF ok THEN [reader[r] EXCEPT !.at = "note"] ELSE Rest]
       /\ cached' = cached \cup {c \in {b} : ok /\ ~Behind(c)}
  /\ Becomes([x \in Tasks |-> IF Served(x, b) THEN [x EXCEPT !.at = "release"] ELSE x])
  /\ calls' = calls \ {b}
  /\ UNCHANGED <<known, lastEnd, taken, span>>

\* A waiter's context is done: the read was interrupted, or two minutes are
\* over.
Cancel ==
  /\ \/ \E r \in Readers : reader[r].at = "wait" /\ Goto(r, "idle") /\ UNCHANGED work
     \/ \E x \in Tasks : x.at = "wait" /\ Moves(x, "release") /\ UNCHANGED reader
  /\ UNCHANGED <<known, lastEnd, taken, calls, cached, span>>

\* evictLocked, for a block stored elsewhere.
Evict ==
  /\ \E b \in cached : cached' = cached \ {b}
  /\ UNCHANGED <<known, reader, work, lastEnd, taken, calls, span>>

-----------------------------------------------------------------------------
(* A read, and maybePrefetch at its end *)

\* The bound leaves goroutines for the reads under way and for this one.
WithinBound == SumFunction(work) + AheadBlocks * (Cardinality(Busy) + 1) <= MaxTasks

\* The read comes to its block.
Begin(r) ==
  /\ reader[r].at = "idle" /\ WithinBound
  /\ \E p \in Reads :
       LET b == p[1] \div BlockSize
       IN  /\ reader' = [reader EXCEPT ![r] =
                [at |-> IF Found(b) = "have" THEN "note" ELSE Found(b),
                 off |-> p[1], end |-> p[2], block |-> b, stale |-> FALSE]]
           /\ Register(b)
  /\ UNCHANGED <<known, work, lastEnd, taken, cached, span>>

Lesser(m, n) == IF m < n THEN m ELSE n
Greater(m, n) == IF m > n THEN m ELSE n

\* The read goes on where the last one ended, or starts the file.
Sequential(r) == reader[r].off \in {0, lastEnd}

\* It has the generation, and the window behind its end to go through.
Follow(r) ==
  /\ reader' = [reader EXCEPT ![r].at = "spawn", ![r].block = CeilBlock(reader[r].end)]
  /\ span' = <<Lesser(span[1], reader[r].end), Greater(span[2], reader[r].end)>>
  /\ UNCHANGED work

\* Whatever has been started, or is about to be, is stale.
Seek(r) ==
  /\ reader' = [q \in Readers |-> IF q = r THEN Rest
                 ELSE [reader[q] EXCEPT !.stale = reader[q].at = "spawn"]]
  /\ Becomes([x \in Tasks |-> [x EXCEPT !.stale = TRUE]])
  /\ span' = <<reader[r].end, reader[r].end>>

\* The critical section of maybePrefetch.
Note(r) ==
  /\ reader[r].at = "note"
  /\ lastEnd' = reader[r].end
  /\ \/ Sequential(r) /\ Follow(r)
     \/ ~Sequential(r) /\ Seek(r)
  /\ UNCHANGED <<known, taken, calls, cached>>

\* Mutant of Started: the goroutine reads the generation when it runs.
StartedFresh(r) == [at |-> "check", block |-> reader[r].block, stale |-> FALSE]

Started(r) == [at |-> "check", block |-> reader[r].block, stale |-> reader[r].stale]

\* One turn of the loop: the end of the window or of the file, a block that
\* hasOrInflight, or a goroutine for it.
Spawn(r) ==
  /\ reader[r].at = "spawn"
  /\ LET b    == reader[r].block
         over == b >= CeilBlock(reader[r].end) + AheadBlocks \/ (known /\ Behind(b))
     IN  \/ over /\ Goto(r, "idle") /\ UNCHANGED work
         \/ /\ ~over
            /\ reader' = [reader EXCEPT ![r].block = b + 1]
            /\ work' = IF b \in cached \cup calls THEN work ELSE BagOps!BagAdd(work, Started(r))
  /\ UNCHANGED <<known, lastEnd, taken, calls, cached, span>>

-----------------------------------------------------------------------------
(* A goroutine of the read-ahead *)

Check(x) ==
  /\ x.at = "check"
  /\ IF x.stale THEN Ends(x) ELSE Moves(x, "slot")
  /\ UNCHANGED <<known, reader, lastEnd, taken, calls, cached, span>>

\* Mutant of TakeSlot: the release is deferred before the slot is taken.
TakeOrRelease(x) ==
  /\ x.at = "slot"
  /\ \/ taken < Slots /\ taken' = taken + 1 /\ Moves(x, "recheck")
     \/ taken = Slots /\ Moves(x, "release") /\ UNCHANGED taken
  /\ UNCHANGED <<known, reader, lastEnd, calls, cached, span>>

\* It takes a slot or, when there is none, gives up.
TakeSlot(x) ==
  /\ x.at = "slot"
  /\ \/ taken < Slots /\ taken' = taken + 1 /\ Moves(x, "recheck")
     \/ taken = Slots /\ Ends(x) /\ UNCHANGED taken
  /\ UNCHANGED <<known, reader, lastEnd, calls, cached, span>>

\* Mutant of Recheck: a stale goroutine returns before it defers the release.
RecheckLeaks(x) ==
  /\ x.at = "recheck"
  /\ IF x.stale THEN Ends(x) ELSE Moves(x, "get")
  /\ UNCHANGED <<known, reader, lastEnd, taken, calls, cached, span>>

Recheck(x) ==
  /\ x.at = "recheck"
  /\ Moves(x, IF x.stale THEN "release" ELSE "get")
  /\ UNCHANGED <<known, reader, lastEnd, taken, calls, cached, span>>

\* The deferred receive from prefetchSem.
Release(x) ==
  /\ x.at = "release"
  /\ taken' = taken - 1 /\ Ends(x)
  /\ UNCHANGED <<known, reader, lastEnd, calls, cached, span>>

-----------------------------------------------------------------------------
Init ==
  /\ known \in Reported
  /\ reader = [r \in Readers |-> Rest] /\ work = [x \in {} |-> 0]
  /\ lastEnd = 0 /\ taken = 0 /\ span = <<0, 0>>
  /\ calls = {} /\ cached = {}

ReaderStep(r) == Note(r) \/ Spawn(r)
TaskStep(x) == Check(x) \/ TakeSlot(x) \/ Recheck(x) \/ TaskGet(x) \/ Release(x)

Next ==
  \/ \E r \in Readers : Begin(r) \/ ReaderStep(r)
  \/ \E x \in Tasks : TaskStep(x)
  \/ \E b \in Blocks : EndCall(b)
  \/ Cancel \/ Evict

Spec == Init /\ [][Next]_vars

\* Goroutines are scheduled, and a request upstream has a timeout.  Nobody
\* owes a new read, an interruption or an eviction.
Fairness ==
  /\ \A r \in Readers : WF_vars(ReaderStep(r))
  /\ \A place \in {"check", "slot", "recheck", "get", "release"} :
       WF_vars(\E x \in Tasks : x.at = place /\ TaskStep(x))
  /\ \A b \in Blocks : WF_vars(EndCall(b))

FairSpec == Spec /\ Fairness

-----------------------------------------------------------------------------
(* Properties *)

\* block_cache.go:193-198: the slots in use are those of the goroutines that
\* have taken one and not returned yet, whichever way they return.  So there
\* are never more fetches for a position that a seek has left than slots.
SlotsAreHeld == taken = SumFunctionOnSet(work, Holders) /\ taken <= Slots

\* block_cache.go:165-186: a goroutine that no seek has made stale is about a
\* block within the window of a read since the last seek, and no goroutine is
\* about a block behind the end of a file whose size is known.
WorkFollowsReader ==
  \A x \in Tasks :
    /\ known => ~Behind(x.block)
    /\ ~x.stale => x.block \in CeilBlock(span[1]) .. CeilBlock(span[2]) + AheadBlocks - 1

\* block_cache.go:189-206: every read returns, also one that waits for the
\* call of a goroutine.
ReadsReturn == \A r \in Readers : (reader[r].at # "idle") ~> (reader[r].at = "idle")

\* block_cache.go:193-205: read-ahead is never over for good: while all slots
\* are in use, one will come back.
SlotsComeBack == (taken = Slots) ~> (taken < Slots)
=============================================================================
