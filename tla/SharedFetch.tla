----------------------------- MODULE SharedFetch -----------------------------
(***************************************************************************)
(* What BlockCache.getBlock promises its callers, whatever the disk, the   *)
(* index and the eviction do: a caller asks for one block and gets one     *)
(* answer, a whole block, no bytes or an error; at any moment at most one  *)
(* caller is fetching a given block; every call is answered.               *)
(***************************************************************************)
CONSTANTS Threads, Keys, Replies, NoReply

VARIABLES
  phase,  \* [Threads -> "idle", "asking" or "fetching"]
  want,   \* [Threads -> the block asked for]
  reply   \* [Threads -> the last answer, NoReply while there is none]

vars == <<phase, want, reply>>

Init ==
  /\ phase = [t \in Threads |-> "idle"]
  /\ want \in [Threads -> Keys]
  /\ reply = [t \in Threads |-> NoReply]

Ask(t, k) ==
  /\ phase[t] = "idle"
  /\ phase' = [phase EXCEPT ![t] = "asking"]
  /\ want' = [want EXCEPT ![t] = k]
  /\ reply' = [reply EXCEPT ![t] = NoReply]

StartFetch(t) ==
  /\ phase[t] = "asking"
  /\ \A u \in Threads : phase[u] = "fetching" => want[u] # want[t]
  /\ phase' = [phase EXCEPT ![t] = "fetching"]
  /\ UNCHANGED <<want, reply>>

\* From the cache, from another caller's fetch, or from its own.
Reply(t) ==
  /\ phase[t] # "idle"
  /\ phase' = [phase EXCEPT ![t] = "idle"]
  /\ \E r \in Replies : reply' = [reply EXCEPT ![t] = r]
  /\ UNCHANGED want

Crash ==
  /\ phase' = [t \in Threads |-> "idle"]
  /\ reply' = [t \in Threads |-> NoReply]
  /\ UNCHANGED want

Next ==
  \/ \E t \in Threads : (\E k \in Keys : Ask(t, k)) \/ StartFetch(t) \/ Reply(t)
  \/ Crash

SafeSpec == Init /\ [][Next]_vars

Spec == SafeSpec /\ \A t \in Threads : WF_vars(Reply(t))
=============================================================================
