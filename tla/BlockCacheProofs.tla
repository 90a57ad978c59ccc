-------------------------- MODULE BlockCacheProofs --------------------------
(***************************************************************************)
(* The safety of BlockCache for every set of threads and blocks, every     *)
(* cache size and every set of block lengths: its calls and files, what it *)
(* implements, and the size that it keeps to.                              *)
(***************************************************************************)
EXTENDS BlockCache, Sums

(***************************************************************************)
(* The inductive invariant.  SingleFlight alone is not inductive: that two *)
(* leaders of one key cannot coexist follows from the table of calls       *)
(* naming each leader (CallTable).  WholeBlocks needs that the temporary   *)
(* file about to be renamed holds the leader's own block (Carried), which  *)
(* again rests on there being one leader per key.                          *)
(***************************************************************************)
CallTable ==
  /\ \A t \in Threads : Leading(t) => inflight[key[t]] = t
  /\ \A k \in Keys : inflight[k] # NoCall =>
       Leading(inflight[k]) /\ key[inflight[k]] = k

Carried ==
  \A t \in Threads :
    /\ pc[t] \in {"open", "fill", "rename", "register", "evict"} => res[t] \in Lengths
    /\ pc[t] = "rename" => tmp[key[t]] = res[t]
    /\ pc[t] \in {"publish", "leave"} => res[t] # None

Waiting ==
  \A t \in Threads : pc[t] = "wait" /\ res[t] = None =>
    inflight[key[t]] # NoCall /\ pc[inflight[key[t]]] # "leave"

IInv == TypeOK /\ CallTable /\ Carried /\ Waiting /\ WholeBlocks /\ NoOrphan

Invariants == TypeOK /\ SingleFlight /\ WholeBlocks /\ NoOrphan

-----------------------------------------------------------------------------
(* The numbers that stand for "no length" are none. *)
LEMMA Codes == None \notin Lengths /\ Failed \notin Lengths
               /\ Torn \notin Lengths /\ Empty \notin Lengths
               /\ None # Failed /\ None # Torn /\ None # Empty
               /\ Torn # Failed /\ Torn # Empty /\ Failed # Empty
               /\ Lengths \subseteq Int /\ None \in Int /\ Torn \in Int
  BY LengthsAssumption DEF None, Failed, Torn, Empty

\* The initial states satisfy the inductive invariant.
LEMMA InitIInv == Init => IInv
<1> SUFFICES ASSUME Init PROVE IInv
  OBVIOUS
<1> USE Codes DEF Init
<1>1. TypeOK
  BY DEF TypeOK, Places
<1>2. CallTable /\ Carried /\ Waiting
  BY DEF CallTable, Carried, Waiting, Leading
<1>3. WholeBlocks /\ NoOrphan
  BY DEF WholeBlocks, NoOrphan
<1> QED
  BY <1>1, <1>2, <1>3 DEF IInv

\* Touch counts the blocks.
LEMMA KeysCounted == Cardinality(Keys) \in Int
  BY FS_CardinalityType, KeysAssumption

\* One turn of the eviction keeps the types of what it changes.
LEMMA EvictionTyped ==
  TypeOK /\ EvictOldest =>
    /\ entries' \in [Keys -> Lengths \cup {None, Torn}] /\ used' \in Int
    /\ file' \in [Keys -> Lengths \cup {None, Torn}] /\ left' \subseteq Keys
    /\ rank' = rank /\ tmp' = tmp
<1> SUFFICES ASSUME TypeOK, NEW k \in Keys, RemoveLocked(k)
    PROVE /\ entries' \in [Keys -> Lengths \cup {None, Torn}] /\ used' \in Int
          /\ file' \in [Keys -> Lengths \cup {None, Torn}] /\ left' \subseteq Keys
          /\ rank' = rank /\ tmp' = tmp
  BY DEF EvictOldest, Registered
<1>1. entries[k] \in Int /\ used \in Int
  BY Codes DEF TypeOK
<1> QED
  BY <1>1 DEF TypeOK, RemoveLocked, Remove

\* Every step keeps the types.
LEMMA TypeStep == IInv /\ [Next]_vars => TypeOK'
<1> SUFFICES ASSUME IInv, [Next]_vars PROVE TypeOK'
  OBVIOUS
<1> USE Codes DEF IInv, Goto, Answer, Return, index, disk, TypeOK, Places
<1>1. ASSUME NEW t \in Threads, Begin(t) PROVE TypeOK'
  BY <1>1 DEF Begin
<1>2. ASSUME NEW t \in Threads, Cancel(t) PROVE TypeOK'
  BY <1>2 DEF Cancel
<1>3. ASSUME NEW t \in Threads, Lookup(t) PROVE TypeOK'
  BY <1>3, KeysCounted DEF Lookup, Touch
<1>4. ASSUME NEW t \in Threads, ReadFile(t) PROVE TypeOK'
  BY <1>4 DEF ReadFile
<1>5. ASSUME NEW t \in Threads, Drop(t) PROVE TypeOK'
  BY <1>5 DEF Drop, RemoveLocked, Remove
<1>6. ASSUME NEW t \in Threads, Join(t) PROVE TypeOK'
  BY <1>6, NoCallAssumption DEF Join
<1>7. ASSUME NEW t \in Threads, Wake(t) PROVE TypeOK'
  BY <1>7 DEF Wake
<1>8. ASSUME NEW t \in Threads, Fetch(t) PROVE TypeOK'
  BY <1>8 DEF Fetch
<1>9. ASSUME NEW t \in Threads, OpenTmp(t) PROVE TypeOK'
  BY <1>9 DEF OpenTmp, StoreFails
<1>10. ASSUME NEW t \in Threads, FillTmp(t) PROVE TypeOK'
  BY <1>10 DEF FillTmp, StoreFails, Carried
<1>11. ASSUME NEW t \in Threads, RenameTmp(t) PROVE TypeOK'
  BY <1>11 DEF RenameTmp, StoreFails
<1>12. ASSUME NEW t \in Threads, Register(t) PROVE TypeOK'
  BY <1>12, KeysCounted DEF Register, Touch, Carried
<1>13. ASSUME NEW t \in Threads, Evict(t) PROVE TypeOK'
  BY <1>13, EvictionTyped DEF Evict
<1>14. ASSUME NEW t \in Threads, Publish(t) PROVE TypeOK'
  BY <1>14 DEF Publish
<1>15. ASSUME NEW t \in Threads, Leave(t) PROVE TypeOK'
  BY <1>15 DEF Leave
<1>16. CASE Scan
  BY <1>16 DEF Scan, Unscanned, WholeBlocks
<1>17. CASE BootEvict
  BY <1>17, EvictionTyped DEF BootEvict
<1>18. CASE Crash
  BY <1>18, KeysCounted DEF Crash
<1>19. CASE UNCHANGED vars
  BY <1>19 DEF vars
<1> QED
  BY <1>1, <1>2, <1>3, <1>4, <1>5, <1>6, <1>7, <1>8, <1>9, <1>10, <1>11, <1>12, <1>13, <1>14, <1>15, <1>16, <1>17, <1>18, <1>19
     DEF Next, Progress, Boot

\* Every step keeps the table of calls and its leaders in agreement.
LEMMA CallStep == IInv /\ [Next]_vars => CallTable'
<1> SUFFICES ASSUME IInv, [Next]_vars PROVE CallTable'
  OBVIOUS
<1> USE Codes DEF IInv, Goto, Answer, Return, index, disk, TypeOK, CallTable, Leading, Places
<1>1. ASSUME NEW t \in Threads, Begin(t) PROVE CallTable'
  BY <1>1 DEF Begin
<1>2. ASSUME NEW t \in Threads, Cancel(t) PROVE CallTable'
  BY <1>2 DEF Cancel
<1>3. ASSUME NEW t \in Threads, Lookup(t) PROVE CallTable'
  BY <1>3 DEF Lookup, Touch
<1>4. ASSUME NEW t \in Threads, ReadFile(t) PROVE CallTable'
  BY <1>4 DEF ReadFile
<1>5. ASSUME NEW t \in Threads, Drop(t) PROVE CallTable'
  BY <1>5 DEF Drop, RemoveLocked
<1>6. ASSUME NEW t \in Threads, Join(t) PROVE CallTable'
  BY <1>6, NoCallAssumption DEF Join
<1>7. ASSUME NEW t \in Threads, Wake(t) PROVE CallTable'
  BY <1>7 DEF Wake
<1>8. ASSUME NEW t \in Threads, Fetch(t) PROVE CallTable'
  BY <1>8 DEF Fetch
<1>9. ASSUME NEW t \in Threads, OpenTmp(t) PROVE CallTable'
  BY <1>9 DEF OpenTmp, StoreFails
<1>10. ASSUME NEW t \in Threads, FillTmp(t) PROVE CallTable'
  BY <1>10 DEF FillTmp, StoreFails
<1>11. ASSUME NEW t \in Threads, RenameTmp(t) PROVE CallTable'
  BY <1>11 DEF RenameTmp, StoreFails
<1>12. ASSUME NEW t \in Threads, Register(t) PROVE CallTable'
  BY <1>12 DEF Register, Touch
<1>13. ASSUME NEW t \in Threads, Evict(t) PROVE CallTable'
  BY <1>13 DEF Evict, EvictOldest, RemoveLocked
<1>14. ASSUME NEW t \in Threads, Publish(t) PROVE CallTable'
  BY <1>14 DEF Publish
<1>15. ASSUME NEW t \in Threads, Leave(t) PROVE CallTable'
  BY <1>15, NoCallAssumption DEF Leave
<1>16. CASE Scan
  BY <1>16 DEF Scan, Unscanned
<1>17. CASE BootEvict
  BY <1>17 DEF BootEvict, EvictOldest, RemoveLocked, Unscanned
<1>18. CASE Crash
  BY <1>18, NoCallAssumption DEF Crash
<1>19. CASE UNCHANGED vars
  BY <1>19 DEF vars
<1> QED
  BY <1>1, <1>2, <1>3, <1>4, <1>5, <1>6, <1>7, <1>8, <1>9, <1>10, <1>11, <1>12, <1>13, <1>14, <1>15, <1>16, <1>17, <1>18, <1>19
     DEF Next, Progress, Boot

\* Every step keeps what a leader carries.
LEMMA CarriedStep == IInv /\ [Next]_vars => Carried'
<1> SUFFICES ASSUME IInv, [Next]_vars PROVE Carried'
  OBVIOUS
<1> USE Codes DEF IInv, Goto, Answer, Return, index, disk, TypeOK, Carried, CallTable, Leading
<1>1. ASSUME NEW t \in Threads, Begin(t) PROVE Carried'
  BY <1>1 DEF Begin
<1>2. ASSUME NEW t \in Threads, Cancel(t) PROVE Carried'
  BY <1>2 DEF Cancel
<1>3. ASSUME NEW t \in Threads, Lookup(t) PROVE Carried'
  BY <1>3 DEF Lookup, Touch
<1>4. ASSUME NEW t \in Threads, ReadFile(t) PROVE Carried'
  BY <1>4 DEF ReadFile
<1>5. ASSUME NEW t \in Threads, Drop(t) PROVE Carried'
  BY <1>5 DEF Drop, RemoveLocked
<1>6. ASSUME NEW t \in Threads, Join(t) PROVE Carried'
  BY <1>6 DEF Join
<1>7. ASSUME NEW t \in Threads, Wake(t) PROVE Carried'
  BY <1>7 DEF Wake
<1>8. ASSUME NEW t \in Threads, Fetch(t) PROVE Carried'
  BY <1>8 DEF Fetch
<1>9. ASSUME NEW t \in Threads, OpenTmp(t) PROVE Carried'
  BY <1>9 DEF OpenTmp, StoreFails
<1>10. ASSUME NEW t \in Threads, FillTmp(t) PROVE Carried'
  BY <1>10 DEF FillTmp, StoreFails
<1>11. ASSUME NEW t \in Threads, RenameTmp(t) PROVE Carried'
  BY <1>11 DEF RenameTmp, StoreFails
<1>12. ASSUME NEW t \in Threads, Register(t) PROVE Carried'
  BY <1>12 DEF Register, Touch
<1>13. ASSUME NEW t \in Threads, Evict(t) PROVE Carried'
  BY <1>13 DEF Evict, EvictOldest, RemoveLocked
<1>14. ASSUME NEW t \in Threads, Publish(t) PROVE Carried'
  BY <1>14 DEF Publish
<1>15. ASSUME NEW t \in Threads, Leave(t) PROVE Carried'
  BY <1>15 DEF Leave
<1>16. CASE Scan
  BY <1>16 DEF Scan, Unscanned
<1>17. CASE BootEvict
  BY <1>17 DEF BootEvict, EvictOldest, RemoveLocked, Unscanned
<1>18. CASE Crash
  BY <1>18 DEF Crash
<1>19. CASE UNCHANGED vars
  BY <1>19 DEF vars
<1> QED
  BY <1>1, <1>2, <1>3, <1>4, <1>5, <1>6, <1>7, <1>8, <1>9, <1>10, <1>11, <1>12, <1>13, <1>14, <1>15, <1>16, <1>17, <1>18, <1>19
     DEF Next, Progress, Boot

\* Every step keeps the waiters behind a call that is still to be answered.
LEMMA WaitingStep == IInv /\ [Next]_vars => Waiting'
<1> SUFFICES ASSUME IInv, [Next]_vars PROVE Waiting'
  OBVIOUS
<1> USE Codes DEF IInv, Goto, Answer, Return, index, disk, TypeOK, Waiting, CallTable, Carried, Leading
<1>1. ASSUME NEW t \in Threads, Begin(t) PROVE Waiting'
  BY <1>1 DEF Begin
<1>2. ASSUME NEW t \in Threads, Cancel(t) PROVE Waiting'
  BY <1>2 DEF Cancel
<1>3. ASSUME NEW t \in Threads, Lookup(t) PROVE Waiting'
  BY <1>3 DEF Lookup, Touch
<1>4. ASSUME NEW t \in Threads, ReadFile(t) PROVE Waiting'
  BY <1>4 DEF ReadFile
<1>5. ASSUME NEW t \in Threads, Drop(t) PROVE Waiting'
  BY <1>5 DEF Drop, RemoveLocked
<1>6. ASSUME NEW t \in Threads, Join(t) PROVE Waiting'
  BY <1>6 DEF Join
<1>7. ASSUME NEW t \in Threads, Wake(t) PROVE Waiting'
  BY <1>7 DEF Wake
<1>8. ASSUME NEW t \in Threads, Fetch(t) PROVE Waiting'
  BY <1>8 DEF Fetch
<1>9. ASSUME NEW t \in Threads, OpenTmp(t) PROVE Waiting'
  BY <1>9 DEF OpenTmp, StoreFails
<1>10. ASSUME NEW t \in Threads, FillTmp(t) PROVE Waiting'
  BY <1>10 DEF FillTmp, StoreFails
<1>11. ASSUME NEW t \in Threads, RenameTmp(t) PROVE Waiting'
  BY <1>11 DEF RenameTmp, StoreFails
<1>12. ASSUME NEW t \in Threads, Register(t) PROVE Waiting'
  BY <1>12 DEF Register, Touch
<1>13. ASSUME NEW t \in Threads, Evict(t) PROVE Waiting'
  BY <1>13 DEF Evict, EvictOldest, RemoveLocked
<1>14. ASSUME NEW t \in Threads, Publish(t) PROVE Waiting'
  BY <1>14 DEF Publish
<1>15. ASSUME NEW t \in Threads, Leave(t) PROVE Waiting'
  BY <1>15 DEF Leave
<1>16. CASE Scan
  BY <1>16 DEF Scan, Unscanned
<1>17. CASE BootEvict
  BY <1>17 DEF BootEvict, EvictOldest, RemoveLocked, Unscanned
<1>18. CASE Crash
  BY <1>18 DEF Crash
<1>19. CASE UNCHANGED vars
  BY <1>19 DEF vars
<1> QED
  BY <1>1, <1>2, <1>3, <1>4, <1>5, <1>6, <1>7, <1>8, <1>9, <1>10, <1>11, <1>12, <1>13, <1>14, <1>15, <1>16, <1>17, <1>18, <1>19
     DEF Next, Progress, Boot

\* Every step keeps torn files out of sight.
LEMMA WholeStep == IInv /\ [Next]_vars => WholeBlocks'
<1> SUFFICES ASSUME IInv, [Next]_vars PROVE WholeBlocks'
  OBVIOUS
<1> USE Codes DEF IInv, Goto, Answer, Return, index, disk, TypeOK, WholeBlocks, Carried
<1>1. ASSUME NEW t \in Threads, Begin(t) PROVE WholeBlocks'
  BY <1>1 DEF Begin
<1>2. ASSUME NEW t \in Threads, Cancel(t) PROVE WholeBlocks'
  BY <1>2 DEF Cancel
<1>3. ASSUME NEW t \in Threads, Lookup(t) PROVE WholeBlocks'
  BY <1>3 DEF Lookup, Touch
<1>4. ASSUME NEW t \in Threads, ReadFile(t) PROVE WholeBlocks'
  BY <1>4 DEF ReadFile
<1>5. ASSUME NEW t \in Threads, Drop(t) PROVE WholeBlocks'
  BY <1>5 DEF Drop, RemoveLocked, Remove
<1>6. ASSUME NEW t \in Threads, Join(t) PROVE WholeBlocks'
  BY <1>6 DEF Join
<1>7. ASSUME NEW t \in Threads, Wake(t) PROVE WholeBlocks'
  BY <1>7 DEF Wake
<1>8. ASSUME NEW t \in Threads, Fetch(t) PROVE WholeBlocks'
  BY <1>8 DEF Fetch
<1>9. ASSUME NEW t \in Threads, OpenTmp(t) PROVE WholeBlocks'
  BY <1>9 DEF OpenTmp, StoreFails
<1>10. ASSUME NEW t \in Threads, FillTmp(t) PROVE WholeBlocks'
  BY <1>10 DEF FillTmp, StoreFails
<1>11. ASSUME NEW t \in Threads, RenameTmp(t) PROVE WholeBlocks'
  BY <1>11 DEF RenameTmp, StoreFails
<1>12. ASSUME NEW t \in Threads, Register(t) PROVE WholeBlocks'
  BY <1>12 DEF Register, Touch
<1>13. ASSUME NEW t \in Threads, Evict(t) PROVE WholeBlocks'
  BY <1>13 DEF Evict, EvictOldest, RemoveLocked, Remove
<1>14. ASSUME NEW t \in Threads, Publish(t) PROVE WholeBlocks'
  BY <1>14 DEF Publish
<1>15. ASSUME NEW t \in Threads, Leave(t) PROVE WholeBlocks'
  BY <1>15 DEF Leave
<1>16. CASE Scan
  BY <1>16 DEF Scan, Unscanned
<1>17. CASE BootEvict
  BY <1>17 DEF BootEvict, EvictOldest, RemoveLocked, Remove, Unscanned
<1>18. CASE Crash
  BY <1>18 DEF Crash
<1>19. CASE UNCHANGED vars
  BY <1>19 DEF vars
<1> QED
  BY <1>1, <1>2, <1>3, <1>4, <1>5, <1>6, <1>7, <1>8, <1>9, <1>10, <1>11, <1>12, <1>13, <1>14, <1>15, <1>16, <1>17, <1>18, <1>19
     DEF Next, Progress, Boot

\* Every step keeps each file accounted for.
LEMMA OrphanStep == IInv /\ [Next]_vars => NoOrphan'
<1> SUFFICES ASSUME IInv, [Next]_vars PROVE NoOrphan'
  OBVIOUS
<1> USE Codes DEF IInv, Goto, Answer, Return, index, disk, TypeOK, NoOrphan, MutexFree, Leading, CallTable
<1>1. ASSUME NEW t \in Threads, Begin(t) PROVE NoOrphan'
  BY <1>1 DEF Begin
<1>2. ASSUME NEW t \in Threads, Cancel(t) PROVE NoOrphan'
  BY <1>2 DEF Cancel
<1>3. ASSUME NEW t \in Threads, Lookup(t) PROVE NoOrphan'
  BY <1>3 DEF Lookup, Touch
<1>4. ASSUME NEW t \in Threads, ReadFile(t) PROVE NoOrphan'
  BY <1>4 DEF ReadFile
<1>5. ASSUME NEW t \in Threads, Drop(t) PROVE NoOrphan'
  BY <1>5 DEF Drop, RemoveLocked, Remove
<1>6. ASSUME NEW t \in Threads, Join(t) PROVE NoOrphan'
  BY <1>6 DEF Join
<1>7. ASSUME NEW t \in Threads, Wake(t) PROVE NoOrphan'
  BY <1>7 DEF Wake
<1>8. ASSUME NEW t \in Threads, Fetch(t) PROVE NoOrphan'
  BY <1>8 DEF Fetch
<1>9. ASSUME NEW t \in Threads, OpenTmp(t) PROVE NoOrphan'
  BY <1>9 DEF OpenTmp, StoreFails
<1>10. ASSUME NEW t \in Threads, FillTmp(t) PROVE NoOrphan'
  BY <1>10 DEF FillTmp, StoreFails
<1>11. ASSUME NEW t \in Threads, RenameTmp(t) PROVE NoOrphan'
  BY <1>11 DEF RenameTmp, StoreFails
<1>12. ASSUME NEW t \in Threads, Register(t) PROVE NoOrphan'
  BY <1>12 DEF Register, Touch, Carried
<1>13. ASSUME NEW t \in Threads, Evict(t) PROVE NoOrphan'
  BY <1>13 DEF Evict, EvictOldest, RemoveLocked, Remove
<1>14. ASSUME NEW t \in Threads, Publish(t) PROVE NoOrphan'
  BY <1>14 DEF Publish
<1>15. ASSUME NEW t \in Threads, Leave(t) PROVE NoOrphan'
  BY <1>15 DEF Leave
<1>16. CASE Scan
  BY <1>16 DEF Scan, Unscanned
<1>17. CASE BootEvict
  BY <1>17 DEF BootEvict, EvictOldest, RemoveLocked, Remove, Unscanned
<1>18. CASE Crash
  BY <1>18 DEF Crash
<1>19. CASE UNCHANGED vars
  BY <1>19 DEF vars
<1> QED
  BY <1>1, <1>2, <1>3, <1>4, <1>5, <1>6, <1>7, <1>8, <1>9, <1>10, <1>11, <1>12, <1>13, <1>14, <1>15, <1>16, <1>17, <1>18, <1>19
     DEF Next, Progress, Boot

-----------------------------------------------------------------------------
\* The inductive invariant holds in every reachable state.
THEOREM Inductive == Spec => []IInv
<1>1. IInv /\ [Next]_vars => IInv'
  BY TypeStep, CallStep, CarriedStep, WaitingStep, WholeStep, OrphanStep DEF IInv
<1> QED
  BY InitIInv, <1>1, PTL DEF Spec

\* The types of the state, for every value of the constants.
THEOREM TypeCorrect == Spec => []TypeOK
<1>1. IInv => TypeOK
  BY DEF IInv
<1> QED
  BY <1>1, Inductive, PTL

\* One fetch at a time per block, and no waiter left behind a call that is
\* gone: the table of calls names every leader, so two leaders of one key are
\* the same thread.
THEOREM SingleFlightHolds == Spec => []SingleFlight
<1>1. IInv => SingleFlight
  <2> SUFFICES ASSUME IInv PROVE SingleFlight
    OBVIOUS
  <2>1. ASSUME NEW t \in Threads, NEW u \in Threads,
               Leading(t), Leading(u), key[t] = key[u]
        PROVE  t = u
    BY <2>1 DEF IInv, CallTable
  <2>2. ASSUME NEW t \in Threads, pc[t] = "wait", res[t] = None
        PROVE  \E u \in Threads : Leading(u) /\ key[u] = key[t] /\ pc[u] # "leave"
    <3>1. inflight[key[t]] \in Threads
      BY <2>2 DEF IInv, TypeOK, Waiting
    <3>2. Leading(inflight[key[t]]) /\ key[inflight[key[t]]] = key[t]
          /\ pc[inflight[key[t]]] # "leave"
      BY <2>2 DEF IInv, TypeOK, Waiting, CallTable
    <3> QED
      BY <3>1, <3>2
  <2> QED
    BY <2>1, <2>2 DEF SingleFlight
<1> QED
  BY <1>1, Inductive, PTL

\* No torn block is ever served or believed, through crashes and write errors.
THEOREM WholeBlocksHold == Spec => []WholeBlocks
<1>1. IInv => WholeBlocks
  BY DEF IInv
<1> QED
  BY <1>1, Inductive, PTL

\* Every block file without an entry is one that the operating system would not
\* remove, until its block is stored again or the process is started again: no
\* race of a store, a drop and an eviction makes another.
THEOREM NoOrphanHolds == Spec => []NoOrphan
<1>1. IInv => NoOrphan
  BY DEF IInv
<1> QED
  BY <1>1, Inductive, PTL
-----------------------------------------------------------------------------
\* A step that moves no thread into or out of idle or leading, and changes no
\* answer that was given, is not seen by the callers.
LEMMA Unseen ==
  ASSUME key' = key,
         \A t \in Threads : (pc'[t] = "idle") = (pc[t] = "idle"),
         \A t \in Threads : Leading(t)' = Leading(t),
         \A t \in Threads : pc[t] = "idle" => res'[t] = res[t]
  PROVE  UNCHANGED Service!vars
<1>1. Phase' = Phase
  BY DEF Phase
<1>2. Reply' = Reply
  BY DEF Reply
<1> QED
  BY <1>1, <1>2 DEF Service!vars

\* A step that takes thread t back to idle with an answer is a reply to it.
LEMMA Replies ==
  ASSUME TypeOK, NEW t \in Threads, pc[t] # "idle",
         pc' = [pc EXCEPT ![t] = "idle"], key' = key,
         res'[t] \in Lengths \cup {Empty, Failed},
         \A u \in Threads \ {t} : res'[u] = res[u]
  PROVE  Service!Reply(t)
<1>1. Phase[t] # "idle"
  BY DEF Phase
<1>2. Phase' = [Phase EXCEPT ![t] = "idle"]
  BY DEF Phase, Leading, TypeOK
<1>3. Reply' = [Reply EXCEPT ![t] = res'[t]]
  BY DEF Reply, TypeOK
<1> QED
  BY <1>1, <1>2, <1>3 DEF Service!Reply

\* The cache implements SharedFetch: the initial states are its initial
\* states, and every step, the disk and the index forgotten, is one of its
\* steps or none.
THEOREM Implements == Spec => ImplementsSharedFetch
<1> USE Codes DEF TypeOK, Leading, Goto, Answer, Return
<1>1. Init => Service!Init
  BY DEF Init, Service!Init, Phase, Reply
<1>2. IInv /\ [Next]_vars => [Service!Next]_(Service!vars)
  <2> SUFFICES ASSUME IInv, [Next]_vars
               PROVE  [Service!Next]_(Service!vars)
    OBVIOUS
  <2> DEFINE Stutter == UNCHANGED Service!vars
  <2> USE DEF IInv
  <2>1. ASSUME NEW t \in Threads, Begin(t) PROVE \E k \in Keys : Service!Ask(t, k)
    BY <2>1 DEF Begin, Service!Ask, Phase, Reply
  <2>2. ASSUME NEW t \in Threads, Cancel(t) PROVE Service!Reply(t)
    BY <2>2, Replies DEF Cancel
  <2>3. ASSUME NEW t \in Threads, ReadFile(t) PROVE Service!Reply(t) \/ Stutter
    <3>1. CASE file[key[t]] # None /\ Return(t, file[key[t]])
      BY <2>3, <3>1, Replies DEF ReadFile, WholeBlocks
    <3>2. CASE Goto(t, "drop") /\ UNCHANGED res
      BY <2>3, <3>2, Unseen DEF ReadFile
    <3> QED
      BY <2>3, <3>1, <3>2 DEF ReadFile
  <2>4. ASSUME NEW t \in Threads, Wake(t) PROVE Service!Reply(t)
    BY <2>4, Replies DEF Wake, WholeBlocks
  <2>5. ASSUME NEW t \in Threads, Leave(t) PROVE Service!Reply(t)
    BY <2>5, Replies DEF Leave, WholeBlocks, Carried
  <2>6. ASSUME NEW t \in Threads, Join(t) PROVE Service!StartFetch(t) \/ Stutter
    <3>1. CASE inflight[key[t]] = NoCall
      <4>1. \A u \in Threads : Phase[u] = "fetching" => key[u] # key[t]
        BY <3>1, NoCallAssumption DEF Phase, CallTable
      <4>2. Phase[t] = "asking" /\ Phase' = [Phase EXCEPT ![t] = "fetching"]
        <5>1. pc[t] = "join" /\ pc' = [pc EXCEPT ![t] = "fetch"]
          BY <2>6, <3>1, NoCallAssumption DEF Join
        <5> QED
          BY <5>1 DEF Phase
      <4>3. Reply' = Reply
        BY <2>6, <3>1, NoCallAssumption DEF Join, Reply
      <4> QED
        BY <2>6, <4>1, <4>2, <4>3 DEF Join, Service!StartFetch
    <3>2. CASE inflight[key[t]] # NoCall
      BY <2>6, <3>2, Unseen DEF Join
    <3> QED
      BY <3>1, <3>2
  <2>7. ASSUME NEW t \in Threads, Lookup(t) \/ Drop(t) PROVE Stutter
    BY <2>7, Unseen DEF Lookup, Drop
  <2>8. ASSUME NEW t \in Threads, Fetch(t) PROVE Stutter
    BY <2>8, Unseen DEF Fetch
  <2>9. ASSUME NEW t \in Threads, OpenTmp(t) \/ FillTmp(t) \/ RenameTmp(t) PROVE Stutter
    BY <2>9, Unseen DEF OpenTmp, FillTmp, RenameTmp, StoreFails
  <2>10. ASSUME NEW t \in Threads, Register(t) \/ Evict(t) PROVE Stutter
    BY <2>10, Unseen DEF Register, Evict
  <2>11. ASSUME NEW t \in Threads, Publish(t) PROVE Stutter
    BY <2>11, Unseen DEF Publish
  <2>12. CASE Crash
    <3>1. Phase' = [u \in Threads |-> "idle"] /\ Reply' = [u \in Threads |-> None]
      BY <2>12 DEF Crash, Phase, Reply
    <3>2. key' = key
      BY <2>12 DEF Crash
    <3>3. Service!Crash
      BY <3>1, <3>2 DEF Service!Crash
    <3> QED
      BY <3>3 DEF Service!Next
  <2>13. CASE Boot
    BY <2>13, Unseen DEF Boot, Scan, BootEvict
  <2>14. CASE UNCHANGED vars
    BY <2>14, Unseen DEF vars
  <2> QED
    BY <2>1, <2>2, <2>3, <2>4, <2>5, <2>6, <2>7, <2>8, <2>9, <2>10, <2>11,
       <2>12, <2>13, <2>14
       DEF Next, Progress, Service!Next
<1> QED
  BY <1>1, <1>2, Inductive, PTL DEF Spec, ImplementsSharedFetch, Service!SafeSpec

-----------------------------------------------------------------------------
(***************************************************************************)
(* What the cache counts.  used is the sum of the entries in every state;  *)
(* the bound holds while nobody evicts.  That the evicted entry is not the *)
(* one just stored needs the ranks to be distinct (Ranked) and the thread  *)
(* that evicts to be the only one, with its block at the top (Evictor).    *)
(***************************************************************************)
Accounted == used = SumFunctionOnSet(entries, Registered)

Bounded == MutexFree => used <= MaxBytes

Ranked ==
  /\ \A k \in Keys : rank[k] <= Cardinality(Keys)
  /\ \A j, k \in Keys : rank[j] = rank[k] => j = k

Booting == booting => \A t \in Threads : pc[t] = "idle"

Evictor ==
  \A t \in Threads : pc[t] = "evict" =>
    /\ \A u \in Threads : pc[u] = "evict" => u = t
    /\ \A k \in Keys \ {key[t]} : rank[k] < rank[key[t]]

SizeIInv == Accounted /\ Bounded /\ Ranked /\ Booting /\ Evictor /\ NewestSurvives

\* The sizes of the entries of e, and what a size adds to them.
SizeOf(e) == SumFunctionOnSet(e, {k \in Keys : e[k] # None})
Counts(n) == IF n = None THEN 0 ELSE n

LEMMA AccountedMeans ==
  /\ Accounted <=> used = SizeOf(entries)
  /\ Accounted' <=> used' = SizeOf(entries')
  BY DEF Accounted, SizeOf, Registered

\* One entry and the others.
LEMMA SizeSplits ==
  ASSUME NEW e \in [Keys -> Int], NEW k \in Keys
  PROVE  /\ SizeOf(e) = Counts(e[k]) + SumFunctionOnSet(e, {j \in Keys \ {k} : e[j] # None})
         /\ SizeOf(e) \in Int
         /\ SumFunctionOnSet(e, {j \in Keys \ {k} : e[j] # None}) \in Int
<1> DEFINE all == {j \in Keys : e[j] # None}
           rest == {j \in Keys \ {k} : e[j] # None}
<1>1. IsFiniteSet(all) /\ IsFiniteSet(rest)
  BY KeysAssumption, FS_Subset
<1>2. (\A j \in all : e[j] \in Int) /\ (\A j \in rest : e[j] \in Int)
  OBVIOUS
<1>3. rest = all \ {k}
  OBVIOUS
<1>4. e[k] # None <=> k \in all
  OBVIOUS
<1> HIDE DEF all, rest
<1>5. SumFunctionOnSet(e, all) \in Int /\ SumFunctionOnSet(e, rest) \in Int
  BY <1>1, <1>2, SumInteger
<1>6. CASE e[k] = None
  <2>1. rest = all
    BY <1>3, <1>4, <1>6
  <2> QED
    BY <1>5, <1>6, <2>1 DEF SizeOf, Counts, all, rest
<1>7. CASE e[k] # None
  <2>1. SumFunctionOnSet(e, all) = e[k] + SumFunctionOnSet(e, all \ {k})
    BY <1>1, <1>2, <1>4, <1>7, SumRemove
  <2> QED
    BY <1>3, <1>5, <1>7, <2>1 DEF SizeOf, Counts, all, rest
<1> QED
  BY <1>6, <1>7

\* The sum after one entry has changed.
LEMMA SizeChanges ==
  ASSUME NEW e \in [Keys -> Int], NEW k \in Keys, NEW n \in Int
  PROVE  SizeOf([e EXCEPT ![k] = n]) = SizeOf(e) + Counts(n) - Counts(e[k])
<1> DEFINE h == [e EXCEPT ![k] = n]
           others(f) == {j \in Keys \ {k} : f[j] # None}
<1>1. h \in [Keys -> Int] /\ h[k] = n
  OBVIOUS
<1>2. others(h) = others(e) /\ \A j \in others(e) : e[j] = h[j]
  OBVIOUS
<1>3. IsFiniteSet(others(e))
  BY KeysAssumption, FS_Subset
<1>4. SumFunctionOnSet(e, others(e)) = SumFunctionOnSet(h, others(e))
  <2> HIDE DEF h, others
  <2> QED
    BY <1>2, <1>3, SumSame
<1> HIDE DEF h
<1>5. SizeOf(h) = Counts(n) + SumFunctionOnSet(h, others(h))
  BY <1>1, SizeSplits
<1>6. SizeOf(e) = Counts(e[k]) + SumFunctionOnSet(e, others(e))
  BY SizeSplits
<1>7. SumFunctionOnSet(e, others(e)) \in Int
  BY SizeSplits
<1>8. Counts(n) \in Int /\ Counts(e[k]) \in Int
  BY DEF Counts
<1>9. SizeOf(h) = SizeOf(e) + Counts(n) - Counts(e[k])
  <2> HIDE DEF others
  <2>1. SumFunctionOnSet(h, others(h)) = SumFunctionOnSet(e, others(e))
    BY <1>2, <1>4
  <2> QED
    BY <1>5, <1>6, <1>7, <1>8, <2>1
<1> QED
  BY <1>9 DEF h

\* The sizes of the entries are numbers.
LEMMA EntriesTyped == TypeOK => entries \in [Keys -> Int]
  BY Codes DEF TypeOK

\* An entry that is removed is no longer counted.
LEMMA RemovalCounted ==
  ASSUME TypeOK, WholeBlocks, Accounted, NEW k \in Keys, RemoveLocked(k)
  PROVE  Accounted' /\ used' <= used
<1>1. entries \in [Keys -> Int] /\ used \in Int
  BY EntriesTyped DEF TypeOK
<1>2. SizeOf(entries') = SizeOf(entries) + Counts(None) - Counts(entries[k])
  BY <1>1, SizeChanges, Codes DEF RemoveLocked
<1>3. entries[k] # None => entries[k] \in Nat
  BY LengthsAssumption DEF TypeOK, WholeBlocks
<1>4. used' = used - Counts(entries[k]) /\ Counts(entries[k]) \in Nat
  BY <1>1, <1>3 DEF RemoveLocked, Counts
<1>5. Counts(None) = 0
  BY DEF Counts
<1>6. used = SizeOf(entries)
  BY AccountedMeans
<1> QED
  BY <1>1, <1>2, <1>4, <1>5, <1>6, AccountedMeans

\* A block that is registered or scanned is counted instead of what was there.
LEMMA EntryCounted ==
  ASSUME TypeOK, Accounted, NEW k \in Keys, NEW n \in Lengths,
         entries' = [entries EXCEPT ![k] = n], used' = used + n - Counts(entries[k])
  PROVE  Accounted'
<1>1. entries \in [Keys -> Int] /\ n \in Int /\ n # None
  BY EntriesTyped, Codes
<1>2. SizeOf(entries') = SizeOf(entries) + Counts(n) - Counts(entries[k])
  BY <1>1, SizeChanges
<1>3. Counts(n) = n
  BY <1>1 DEF Counts
<1>4. used = SizeOf(entries)
  BY AccountedMeans
<1> QED
  BY <1>2, <1>3, <1>4, AccountedMeans

\* Every step keeps the count.
LEMMA AccountedStep == IInv /\ SizeIInv /\ [Next]_vars => Accounted'
<1> SUFFICES ASSUME IInv, SizeIInv, [Next]_vars PROVE Accounted'
  OBVIOUS
<1>0. TypeOK /\ Accounted /\ WholeBlocks /\ Carried
  BY DEF IInv, SizeIInv
<1>20. UNCHANGED <<entries, used>> => Accounted'
  BY <1>0, AccountedMeans
<1>21. ASSUME EvictOldest PROVE Accounted'
  BY <1>0, <1>21, RemovalCounted DEF EvictOldest, Registered
<1> USE DEF index
<1>1. ASSUME NEW t \in Threads, Begin(t) PROVE Accounted'
  BY <1>20, <1>1 DEF Begin
<1>2. ASSUME NEW t \in Threads, Cancel(t) PROVE Accounted'
  BY <1>20, <1>2 DEF Cancel
<1>3. ASSUME NEW t \in Threads, Lookup(t) PROVE Accounted'
  BY <1>20, <1>3 DEF Lookup
<1>4. ASSUME NEW t \in Threads, ReadFile(t) PROVE Accounted'
  BY <1>20, <1>4 DEF ReadFile
<1>5. ASSUME NEW t \in Threads, Drop(t) PROVE Accounted'
  BY <1>0, <1>5, RemovalCounted DEF Drop, TypeOK
<1>6. ASSUME NEW t \in Threads, Join(t) PROVE Accounted'
  BY <1>20, <1>6 DEF Join
<1>7. ASSUME NEW t \in Threads, Wake(t) PROVE Accounted'
  BY <1>20, <1>7 DEF Wake
<1>8. ASSUME NEW t \in Threads, Fetch(t) PROVE Accounted'
  BY <1>20, <1>8 DEF Fetch
<1>9. ASSUME NEW t \in Threads, OpenTmp(t) PROVE Accounted'
  BY <1>20, <1>9 DEF OpenTmp, StoreFails
<1>10. ASSUME NEW t \in Threads, FillTmp(t) PROVE Accounted'
  BY <1>20, <1>10 DEF FillTmp, StoreFails
<1>11. ASSUME NEW t \in Threads, RenameTmp(t) PROVE Accounted'
  BY <1>20, <1>11 DEF RenameTmp, StoreFails
<1>12. ASSUME NEW t \in Threads, Register(t) PROVE Accounted'
  <2>1. key[t] \in Keys /\ res[t] \in Lengths
    BY <1>0, <1>12 DEF Register, TypeOK, Carried
  <2>2. entries' = [entries EXCEPT ![key[t]] = res[t]]
    BY <1>12 DEF Register
  <2>3. used' = used + res[t] - Counts(entries[key[t]])
    BY <1>12 DEF Register, Counts
  <2> QED
    BY <1>0, <2>1, <2>2, <2>3, EntryCounted
<1>13. ASSUME NEW t \in Threads, Evict(t) PROVE Accounted'
  BY <1>13, <1>20, <1>21 DEF Evict
<1>14. ASSUME NEW t \in Threads, Publish(t) PROVE Accounted'
  BY <1>20, <1>14 DEF Publish
<1>15. ASSUME NEW t \in Threads, Leave(t) PROVE Accounted'
  BY <1>20, <1>15 DEF Leave
<1>16. CASE Scan
  <2>1. PICK k \in Unscanned : entries' = [entries EXCEPT ![k] = file[k]] /\ used' = used + file[k]
    BY <1>16 DEF Scan
  <2>2. k \in Keys /\ file[k] \in Lengths /\ entries[k] = None
    BY <1>0 DEF Unscanned, TypeOK, WholeBlocks
  <2>3. used \in Int /\ file[k] \in Int
    BY <1>0, <2>2, Codes DEF TypeOK
  <2>4. used' = used + file[k] - Counts(entries[k])
    BY <2>1, <2>2, <2>3 DEF Counts
  <2> QED
    BY <1>0, <2>1, <2>2, <2>4, EntryCounted
<1>17. CASE BootEvict
  BY <1>17, <1>20, <1>21 DEF BootEvict
<1>18. CASE Crash
  <2>1. used' = 0 /\ {k \in Keys : entries'[k] # None} = {}
    BY <1>18 DEF Crash
  <2> QED
    BY <2>1, SumEmpty, AccountedMeans DEF SizeOf
<1>19. CASE UNCHANGED vars
  BY <1>19, <1>20 DEF vars
<1> QED
  BY <1>1, <1>2, <1>3, <1>4, <1>5, <1>6, <1>7, <1>8, <1>9, <1>10, <1>11, <1>12, <1>13, <1>14, <1>15, <1>16, <1>17, <1>18, <1>19
     DEF Next, Progress, Boot

\* Every step keeps the entries within the bound while nobody evicts.
LEMMA BoundedStep == IInv /\ SizeIInv /\ [Next]_vars => Bounded'
<1> SUFFICES ASSUME IInv, SizeIInv, [Next]_vars PROVE Bounded'
  OBVIOUS
<1>0. TypeOK /\ Accounted /\ WholeBlocks /\ Bounded
  BY DEF IInv, SizeIInv
<1>20. Fits => used <= MaxBytes
  <2>1. SumFunctionOnSet(entries, {}) <= MaxBytes
    BY SumEmpty, MaxBytesAssumption
  <2> QED
    BY <1>0, <2>1 DEF Fits, Accounted
<1>21. UNCHANGED used /\ (MutexFree' => MutexFree) => Bounded'
  BY <1>0 DEF Bounded
<1> USE DEF index, Goto, Return, MutexFree, TypeOK
<1>1. ASSUME NEW t \in Threads, Begin(t) PROVE Bounded'
  BY <1>0, <1>21, <1>1 DEF Begin
<1>2. ASSUME NEW t \in Threads, Cancel(t) PROVE Bounded'
  BY <1>0, <1>21, <1>2 DEF Cancel
<1>3. ASSUME NEW t \in Threads, Lookup(t) PROVE Bounded'
  BY <1>0, <1>21, <1>3 DEF Lookup
<1>4. ASSUME NEW t \in Threads, ReadFile(t) PROVE Bounded'
  BY <1>0, <1>21, <1>4 DEF ReadFile
<1>5. ASSUME NEW t \in Threads, Drop(t) PROVE Bounded'
  <2>1. used' <= used /\ used <= MaxBytes /\ used \in Int /\ used' \in Int
    <3>1. RemoveLocked(key[t]) /\ key[t] \in Keys /\ TypeOK'
      BY <1>0, <1>5, TypeStep DEF Drop
    <3> QED
      BY <1>0, <1>5, <3>1, RemovalCounted DEF Drop, Bounded
  <2> QED
    BY <2>1, MaxBytesAssumption DEF Bounded
<1>6. ASSUME NEW t \in Threads, Join(t) PROVE Bounded'
  BY <1>0, <1>21, <1>6 DEF Join
<1>7. ASSUME NEW t \in Threads, Wake(t) PROVE Bounded'
  BY <1>0, <1>21, <1>7 DEF Wake
<1>8. ASSUME NEW t \in Threads, Fetch(t) PROVE Bounded'
  BY <1>0, <1>21, <1>8 DEF Fetch
<1>9. ASSUME NEW t \in Threads, OpenTmp(t) PROVE Bounded'
  BY <1>0, <1>21, <1>9 DEF OpenTmp, StoreFails
<1>10. ASSUME NEW t \in Threads, FillTmp(t) PROVE Bounded'
  BY <1>0, <1>21, <1>10 DEF FillTmp, StoreFails
<1>11. ASSUME NEW t \in Threads, RenameTmp(t) PROVE Bounded'
  BY <1>0, <1>21, <1>11 DEF RenameTmp, StoreFails
<1>12. ASSUME NEW t \in Threads, Register(t) PROVE Bounded'
  BY <1>0, <1>12 DEF Register, Bounded
<1>13. ASSUME NEW t \in Threads, Evict(t) PROVE Bounded'
  <2>1. CASE EvictOldest /\ UNCHANGED pc
    BY <1>13, <2>1 DEF Evict, Bounded
  <2>2. CASE Fits /\ Goto(t, "publish") /\ UNCHANGED <<index, disk>>
    BY <1>20, <2>2 DEF Bounded
  <2> QED
    BY <1>13, <2>1, <2>2 DEF Evict
<1>14. ASSUME NEW t \in Threads, Publish(t) PROVE Bounded'
  BY <1>0, <1>21, <1>14 DEF Publish
<1>15. ASSUME NEW t \in Threads, Leave(t) PROVE Bounded'
  BY <1>0, <1>21, <1>15 DEF Leave
<1>16. CASE Scan
  BY <1>0, <1>16 DEF Scan, Bounded
<1>17. CASE BootEvict
  <2>1. CASE EvictOldest /\ UNCHANGED booting
    BY <1>17, <2>1 DEF BootEvict, Bounded
  <2>2. CASE Fits /\ booting' = FALSE /\ UNCHANGED <<index, disk>>
    BY <1>20, <2>2 DEF Bounded
  <2> QED
    BY <1>17, <2>1, <2>2 DEF BootEvict
<1>18. CASE Crash
  BY <1>0, <1>18 DEF Crash, Bounded
<1>19. CASE UNCHANGED vars
  BY <1>0, <1>21, <1>19 DEF vars
<1> QED
  BY <1>1, <1>2, <1>3, <1>4, <1>5, <1>6, <1>7, <1>8, <1>9, <1>10, <1>11, <1>12, <1>13, <1>14, <1>15, <1>16, <1>17, <1>18, <1>19
     DEF Next, Progress, Boot

\* Touch keeps the ranks apart and puts the block at the top.
LEMMA TouchRanks ==
  ASSUME TypeOK, Ranked, NEW k \in Keys, Touch(k)
  PROVE  Ranked' /\ \A j \in Keys \ {k} : rank'[j] < rank'[k]
<1>1. rank \in [Keys -> Int] /\ Cardinality(Keys) \in Int
  BY KeysCounted DEF TypeOK
<1>2. \A j \in Keys : rank'[j] = IF j = k THEN Cardinality(Keys)
                                 ELSE IF rank[j] > rank[k] THEN rank[j] - 1 ELSE rank[j]
  BY DEF Touch
<1>3. \A j \in Keys : rank[j] <= Cardinality(Keys)
  BY DEF Ranked
<1>4. \A i, j \in Keys : rank[i] = rank[j] => i = j
  BY DEF Ranked
<1>5. \A j \in Keys \ {k} : rank'[j] < rank'[k]
  BY <1>1, <1>2, <1>3, <1>4
<1>6. \A i, j \in Keys : rank'[i] = rank'[j] => i = j
  <2> SUFFICES ASSUME NEW i \in Keys, NEW j \in Keys, rank'[i] = rank'[j] PROVE i = j
    OBVIOUS
  <2>1. rank[i] \in Int /\ rank[j] \in Int /\ rank[k] \in Int
    BY <1>1
  <2>2. CASE i = k \/ j = k
    BY <1>1, <1>2, <1>5, <2>2
  <2>3. CASE i # k /\ j # k
    BY <1>2, <1>4, <2>1, <2>3
  <2> QED
    BY <2>2, <2>3
<1>7. \A j \in Keys : rank'[j] <= Cardinality(Keys)
  BY <1>1, <1>2, <1>3
<1> QED
  BY <1>5, <1>6, <1>7 DEF Ranked

\* Every step keeps the ranks apart.
LEMMA RankedStep == IInv /\ SizeIInv /\ [Next]_vars => Ranked'
<1> SUFFICES ASSUME IInv, SizeIInv, [Next]_vars PROVE Ranked'
  OBVIOUS
<1>0. TypeOK /\ Ranked
  BY DEF IInv, SizeIInv
<1>20. UNCHANGED rank => Ranked'
  BY <1>0 DEF Ranked
<1>21. EvictOldest => Ranked'
  BY <1>20 DEF EvictOldest, RemoveLocked
<1>22. \A t \in Threads : key[t] \in Keys
  BY <1>0 DEF TypeOK
<1> USE DEF index
<1>1. ASSUME NEW t \in Threads, Begin(t) PROVE Ranked'
  BY <1>20, <1>1 DEF Begin
<1>2. ASSUME NEW t \in Threads, Cancel(t) PROVE Ranked'
  BY <1>20, <1>2 DEF Cancel
<1>3. ASSUME NEW t \in Threads, Lookup(t) PROVE Ranked'
  BY <1>0, <1>3, <1>20, <1>22, TouchRanks DEF Lookup
<1>4. ASSUME NEW t \in Threads, ReadFile(t) PROVE Ranked'
  BY <1>20, <1>4 DEF ReadFile
<1>5. ASSUME NEW t \in Threads, Drop(t) PROVE Ranked'
  BY <1>5, <1>20 DEF Drop, RemoveLocked
<1>6. ASSUME NEW t \in Threads, Join(t) PROVE Ranked'
  BY <1>20, <1>6 DEF Join
<1>7. ASSUME NEW t \in Threads, Wake(t) PROVE Ranked'
  BY <1>20, <1>7 DEF Wake
<1>8. ASSUME NEW t \in Threads, Fetch(t) PROVE Ranked'
  BY <1>20, <1>8 DEF Fetch
<1>9. ASSUME NEW t \in Threads, OpenTmp(t) PROVE Ranked'
  BY <1>20, <1>9 DEF OpenTmp, StoreFails
<1>10. ASSUME NEW t \in Threads, FillTmp(t) PROVE Ranked'
  BY <1>20, <1>10 DEF FillTmp, StoreFails
<1>11. ASSUME NEW t \in Threads, RenameTmp(t) PROVE Ranked'
  BY <1>20, <1>11 DEF RenameTmp, StoreFails
<1>12. ASSUME NEW t \in Threads, Register(t) PROVE Ranked'
  BY <1>0, <1>12, <1>22, TouchRanks DEF Register
<1>13. ASSUME NEW t \in Threads, Evict(t) PROVE Ranked'
  BY <1>13, <1>20, <1>21 DEF Evict
<1>14. ASSUME NEW t \in Threads, Publish(t) PROVE Ranked'
  BY <1>20, <1>14 DEF Publish
<1>15. ASSUME NEW t \in Threads, Leave(t) PROVE Ranked'
  BY <1>20, <1>15 DEF Leave
<1>16. CASE Scan
  BY <1>20, <1>16 DEF Scan, Unscanned
<1>17. CASE BootEvict
  BY <1>17, <1>20, <1>21 DEF BootEvict
<1>18. CASE Crash
  BY <1>18, KeysCounted DEF Crash, Ranked, IsInjective
<1>19. CASE UNCHANGED vars
  BY <1>20, <1>19 DEF vars
<1> QED
  BY <1>1, <1>2, <1>3, <1>4, <1>5, <1>6, <1>7, <1>8, <1>9, <1>10, <1>11, <1>12, <1>13, <1>14, <1>15, <1>16, <1>17, <1>18, <1>19
     DEF Next, Progress, Boot

\* Every step leaves at most one thread to evict, for the block at the top.
LEMMA EvictorStep == IInv /\ SizeIInv /\ [Next]_vars => Booting' /\ Evictor'
<1> SUFFICES ASSUME IInv, SizeIInv, [Next]_vars PROVE Booting' /\ Evictor'
  OBVIOUS
<1>0. TypeOK /\ Ranked /\ Booting /\ Evictor
  BY DEF IInv, SizeIInv
<1>20. pc \in [Threads -> Places] /\ key \in [Threads -> Keys]
  BY <1>0 DEF TypeOK
<1>21. EvictOldest => UNCHANGED rank
  BY DEF EvictOldest, RemoveLocked
<1> USE DEF index, Goto, Return, MutexFree, Booting, Evictor
<1>1. ASSUME NEW t \in Threads, Begin(t) PROVE Booting' /\ Evictor'
  BY <1>0, <1>20, <1>1 DEF Begin
<1>2. ASSUME NEW t \in Threads, Cancel(t) PROVE Booting' /\ Evictor'
  BY <1>0, <1>20, <1>2 DEF Cancel
<1>3. ASSUME NEW t \in Threads, Lookup(t) PROVE Booting' /\ Evictor'
  BY <1>0, <1>20, <1>3 DEF Lookup
<1>4. ASSUME NEW t \in Threads, ReadFile(t) PROVE Booting' /\ Evictor'
  BY <1>0, <1>20, <1>4 DEF ReadFile
<1>5. ASSUME NEW t \in Threads, Drop(t) PROVE Booting' /\ Evictor'
  BY <1>0, <1>5, <1>20 DEF Drop, RemoveLocked
<1>6. ASSUME NEW t \in Threads, Join(t) PROVE Booting' /\ Evictor'
  BY <1>0, <1>20, <1>6 DEF Join
<1>7. ASSUME NEW t \in Threads, Wake(t) PROVE Booting' /\ Evictor'
  BY <1>0, <1>20, <1>7 DEF Wake
<1>8. ASSUME NEW t \in Threads, Fetch(t) PROVE Booting' /\ Evictor'
  BY <1>0, <1>20, <1>8 DEF Fetch
<1>9. ASSUME NEW t \in Threads, OpenTmp(t) PROVE Booting' /\ Evictor'
  BY <1>0, <1>20, <1>9 DEF OpenTmp, StoreFails
<1>10. ASSUME NEW t \in Threads, FillTmp(t) PROVE Booting' /\ Evictor'
  BY <1>0, <1>20, <1>10 DEF FillTmp, StoreFails
<1>11. ASSUME NEW t \in Threads, RenameTmp(t) PROVE Booting' /\ Evictor'
  BY <1>0, <1>20, <1>11 DEF RenameTmp, StoreFails
<1>12. ASSUME NEW t \in Threads, Register(t) PROVE Booting' /\ Evictor'
  BY <1>0, <1>12, <1>20, TouchRanks DEF Register
<1>13. ASSUME NEW t \in Threads, Evict(t) PROVE Booting' /\ Evictor'
  BY <1>0, <1>13, <1>20, <1>21 DEF Evict
<1>14. ASSUME NEW t \in Threads, Publish(t) PROVE Booting' /\ Evictor'
  BY <1>0, <1>20, <1>14 DEF Publish
<1>15. ASSUME NEW t \in Threads, Leave(t) PROVE Booting' /\ Evictor'
  BY <1>0, <1>20, <1>15 DEF Leave
<1>16. CASE Scan
  BY <1>0, <1>20, <1>16 DEF Scan, Unscanned
<1>17. CASE BootEvict
  BY <1>0, <1>17, <1>20, <1>21 DEF BootEvict
<1>18. CASE Crash
  BY <1>0, <1>20, <1>18 DEF Crash
<1>19. CASE UNCHANGED vars
  BY <1>0, <1>20, <1>19 DEF vars
<1> QED
  BY <1>1, <1>2, <1>3, <1>4, <1>5, <1>6, <1>7, <1>8, <1>9, <1>10, <1>11, <1>12, <1>13, <1>14, <1>15, <1>16, <1>17, <1>18, <1>19
     DEF Next, Progress, Boot

\* The eviction for a block that fits removes another one.
LEMMA EvictionSpares ==
  ASSUME TypeOK, WholeBlocks, Carried, Accounted, Ranked, Evictor, NewestSurvives,
         NEW t \in Threads, pc[t] = "evict", res[t] <= MaxBytes, EvictOldest
  PROVE  entries'[key[t]] = res[t]
<1>1. /\ entries[key[t]] = res[t] /\ key[t] \in Keys /\ entries \in [Keys -> Int]
      /\ res[t] \in Lengths /\ res[t] # None /\ res[t] \in Int
  BY Codes, EntriesTyped DEF NewestSurvives, TypeOK, Carried
<1>2. PICK k \in Registered : (\A j \in Registered : rank[k] <= rank[j]) /\ RemoveLocked(k)
  BY DEF EvictOldest
<1>3. CASE k # key[t]
  BY <1>1, <1>2, <1>3 DEF RemoveLocked
<1>4. CASE k = key[t]
  <2>1. rank \in [Keys -> Int]
    BY DEF TypeOK
  <2>2. \A j \in Keys \ {key[t]} : rank[j] < rank[key[t]]
    BY DEF Evictor
  <2>3. Registered = {key[t]}
    BY <1>2, <1>4, <2>1, <2>2 DEF Registered
  <2>4. IsFiniteSet({key[t]}) /\ {key[t]} \ {key[t]} = {}
    BY FS_Singleton
  <2>5. SumFunctionOnSet(entries, {key[t]})
          = entries[key[t]] + SumFunctionOnSet(entries, {key[t]} \ {key[t]})
    BY <1>1, <2>4, SumRemove
  <2>6. SumFunctionOnSet(entries, {key[t]}) = res[t] + 0
    BY <1>1, <2>4, <2>5, SumEmpty
  <2>7. used = res[t]
    BY <1>1, <2>3, <2>6 DEF Accounted
  <2> QED
    BY <2>7 DEF EvictOldest, Fits
<1> QED
  BY <1>3, <1>4

\* Every step keeps the block that is being stored.
LEMMA NewestStep == IInv /\ SizeIInv /\ [Next]_vars => NewestSurvives'
<1> SUFFICES ASSUME IInv, SizeIInv, [Next]_vars PROVE NewestSurvives'
  OBVIOUS
<1>0. /\ TypeOK /\ WholeBlocks /\ Carried
      /\ Accounted /\ Ranked /\ Booting /\ Evictor /\ NewestSurvives
  BY DEF IInv, SizeIInv
<1>20. /\ pc \in [Threads -> Places] /\ key \in [Threads -> Keys]
       /\ res \in [Threads -> Lengths \cup {None, Failed, Torn, Empty}]
       /\ DOMAIN entries = Keys
  BY <1>0 DEF TypeOK
<1>21. \A t \in Threads : pc[t] = "evict" /\ res[t] <= MaxBytes => entries[key[t]] = res[t]
  BY <1>0 DEF NewestSurvives
<1> USE DEF index, Goto, Answer, Return, MutexFree, NewestSurvives
<1>1. ASSUME NEW t \in Threads, Begin(t) PROVE NewestSurvives'
  BY <1>20, <1>21, <1>1 DEF Begin
<1>2. ASSUME NEW t \in Threads, Cancel(t) PROVE NewestSurvives'
  BY <1>20, <1>21, <1>2 DEF Cancel
<1>3. ASSUME NEW t \in Threads, Lookup(t) PROVE NewestSurvives'
  BY <1>20, <1>21, <1>3 DEF Lookup
<1>4. ASSUME NEW t \in Threads, ReadFile(t) PROVE NewestSurvives'
  BY <1>20, <1>21, <1>4 DEF ReadFile
<1>5. ASSUME NEW t \in Threads, Drop(t) PROVE NewestSurvives'
  BY <1>5, <1>20 DEF Drop
<1>6. ASSUME NEW t \in Threads, Join(t) PROVE NewestSurvives'
  BY <1>20, <1>21, <1>6 DEF Join
<1>7. ASSUME NEW t \in Threads, Wake(t) PROVE NewestSurvives'
  BY <1>20, <1>21, <1>7 DEF Wake
<1>8. ASSUME NEW t \in Threads, Fetch(t) PROVE NewestSurvives'
  BY <1>20, <1>21, <1>8 DEF Fetch
<1>9. ASSUME NEW t \in Threads, OpenTmp(t) PROVE NewestSurvives'
  BY <1>20, <1>21, <1>9 DEF OpenTmp, StoreFails
<1>10. ASSUME NEW t \in Threads, FillTmp(t) PROVE NewestSurvives'
  BY <1>20, <1>21, <1>10 DEF FillTmp, StoreFails
<1>11. ASSUME NEW t \in Threads, RenameTmp(t) PROVE NewestSurvives'
  BY <1>20, <1>21, <1>11 DEF RenameTmp, StoreFails
<1>12. ASSUME NEW t \in Threads, Register(t) PROVE NewestSurvives'
  BY <1>20, <1>21, <1>12 DEF Register
<1>13. ASSUME NEW t \in Threads, Evict(t) PROVE NewestSurvives'
  <2>1. UNCHANGED <<key, res>>
    BY <1>13 DEF Evict
  <2>2. CASE EvictOldest /\ UNCHANGED pc
    BY <1>0, <2>1, <2>2, EvictionSpares
  <2>3. CASE Fits /\ Goto(t, "publish") /\ UNCHANGED entries
    BY <1>20, <1>21, <2>1, <2>3
  <2> QED
    BY <1>13, <2>2, <2>3 DEF Evict
<1>14. ASSUME NEW t \in Threads, Publish(t) PROVE NewestSurvives'
  BY <1>20, <1>21, <1>14 DEF Publish
<1>15. ASSUME NEW t \in Threads, Leave(t) PROVE NewestSurvives'
  BY <1>20, <1>21, <1>15 DEF Leave
<1>16. CASE Scan
  BY <1>0, <1>16 DEF Scan, Booting
<1>17. CASE BootEvict
  BY <1>0, <1>17 DEF BootEvict, Booting
<1>18. CASE Crash
  BY <1>20, <1>21, <1>18 DEF Crash
<1>19. CASE UNCHANGED vars
  BY <1>20, <1>21, <1>19 DEF vars
<1> QED
  BY <1>1, <1>2, <1>3, <1>4, <1>5, <1>6, <1>7, <1>8, <1>9, <1>10, <1>11, <1>12, <1>13, <1>14, <1>15, <1>16, <1>17, <1>18, <1>19
     DEF Next, Progress, Boot

\* An empty index is counted, whatever the ranks.
LEMMA InitSize == Init => SizeIInv
<1> SUFFICES ASSUME Init PROVE SizeIInv
  OBVIOUS
<1>1. Accounted
  <2>1. Registered = {} /\ used = 0
    BY DEF Init, Registered
  <2> QED
    BY <2>1, SumEmpty DEF Accounted
<1>2. Ranked
  BY KeysCounted DEF Init, Ranked, IsInjective
<1>3. Bounded /\ Booting /\ Evictor /\ NewestSurvives
  BY DEF Init, Bounded, MutexFree, Booting, Evictor, NewestSurvives
<1> QED
  BY <1>1, <1>2, <1>3 DEF SizeIInv

\* What the cache counts and evicts, in every reachable state.
THEOREM SizeInductive == Spec => []SizeIInv
<1>1. IInv /\ SizeIInv /\ [Next]_vars => SizeIInv'
  BY AccountedStep, BoundedStep, RankedStep, EvictorStep, NewestStep DEF SizeIInv
<1> QED
  BY InitSize, <1>1, Inductive, PTL DEF Spec

\* The cache knows its size and keeps to it, for every size and every number
\* of blocks, threads and restarts.
THEOREM UsedAccountingHolds == Spec => []UsedAccounting
<1>1. SizeIInv => UsedAccounting
  BY DEF SizeIInv, Accounted, Bounded, UsedAccounting
<1> QED
  BY <1>1, SizeInductive, PTL

\* A block that fits is not removed by the eviction that it triggers.
THEOREM NewestSurvivesHolds == Spec => []NewestSurvives
<1>1. SizeIInv => NewestSurvives
  BY DEF SizeIInv
<1> QED
  BY <1>1, SizeInductive, PTL
=============================================================================
