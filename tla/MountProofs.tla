----------------------------- MODULE MountProofs -----------------------------
(***************************************************************************)
(* What a handle of the mount has, for every library, every number of      *)
(* callers and whatever paths they use, while refreshes swap trees.        *)
(*                                                                         *)
(* Nothing is assumed of the trees: the steps of MediaRecords matter only  *)
(* in that they leave the inodes and the requests alone.                   *)
(***************************************************************************)
EXTENDS Mount, TLAPS

(***************************************************************************)
(* The inductive invariant.  That a handle gets one whole record rests on  *)
(* what is true while records are copied part by part: the requests on an  *)
(* inode that have not clashed have loaded the same (Agreed), so that each *)
(* finds the parts that it has written (Written) or copied (Copied) as     *)
(* they were, and parts of two records are only seen while somebody has    *)
(* still to write (MixedIsWritten).                                        *)
(***************************************************************************)
Pair(p) == p = [i \in Parts |-> p[i]]

\* Nothing, or something in both parts.
Full(p) == Pair(p) /\ (p = NoRecord \/ (p[1] # NoNumber /\ p[2] # NoNumber))

Shaped(r) ==
  /\ r = [op |-> r.op, path |-> r.path, loaded |-> r.loaded, write |-> r.write,
          copy |-> r.copy, rec |-> r.rec]
  /\ r.op \in {"none", "open", "getattr"}
  /\ r.write \subseteq Parts /\ r.copy \subseteq Parts
  /\ Full(r.loaded) /\ r.loaded[1] = r.loaded[2] /\ Pair(r.rec)
  /\ r.op = "none" => Done(r)
  /\ r.op # "none" => r.path \in Watched
  /\ r.loaded = NoRecord => r.write = {}
  /\ r.copy # Parts /\ r.op = "open" => r.write = {}

Nodes == node = [p \in Watched |-> node[p]] /\ \A p \in Watched : Full(node[p])
Requests == request = [c \in Callers |-> request[c]] /\ \A c \in Callers : Shaped(request[c])

\* The kernel keeps the inodes that are in use.
Kept == \A c \in Callers : request[c].op # "none" => node[request[c].path] # NoRecord

Fair(r) == ~Done(r) /\ r.path \notin clashed

\* Requests that have not clashed have loaded the same.
Agreed ==
  \A c, d \in Callers :
    Fair(request[c]) /\ ~Done(request[d]) /\ request[d].path = request[c].path
      => request[d].loaded = request[c].loaded

Written ==
  \A c \in Callers : LET r == request[c] IN
    Fair(r) /\ r.loaded # NoRecord
      => \A i \in Parts \ r.write : node[r.path][i] = r.loaded[i]

Copied ==
  \A c \in Callers : LET r == request[c] IN
    Fair(r) /\ r.op = "open" => \A i \in Parts \ r.copy : r.rec[i] = node[r.path][i]

\* An inode with the parts of two records is being written.
MixedIsWritten ==
  \A p \in Watched \ clashed : node[p][1] # node[p][2] =>
    \E c \in Callers : request[c].path = p /\ request[c].write # {}

IInv ==
  /\ Nodes /\ Requests /\ Kept /\ Agreed /\ Written /\ Copied /\ MixedIsWritten
  /\ OpenServesMount

-----------------------------------------------------------------------------
(* Records, and the requests that carry them *)

LEMMA FoundFull ==
  ASSUME NEW path
  PROVE  Full(Found(path)) /\ Found(path)[1] = Found(path)[2]
<1>1. Full(NoRecord) /\ NoRecord[1] = NoRecord[2]
  BY DEF Full, Pair, NoRecord, Parts
<1>2. ASSUME NEW k PROVE LET p == [i \in Parts |-> k] IN Full(p) /\ p[1] = p[2]
  <2> DEFINE p == [i \in Parts |-> k]
  <2>1. Pair(p) /\ p[1] = k /\ p[2] = k
    BY DEF Pair, Parts
  <2>2. k = NoNumber => p = NoRecord
    BY DEF Parts, NoRecord
  <2> QED
    BY <2>1, <2>2 DEF Full
<1>3. \/ Found(path) = NoRecord
      \/ Found(path) = [i \in Parts |-> tree.files[path]]
  BY DEF Found
<1> QED
  BY <1>1, <1>2, <1>3

LEMMA RestingShaped == Shaped(Resting) /\ Done(Resting) /\ Resting.op = "none"
<1>1. Full(NoRecord) /\ NoRecord[1] = NoRecord[2] /\ Pair(NoRecord)
  BY DEF Full, Pair, NoRecord, Parts
<1> QED
  BY <1>1 DEF Shaped, Resting, Done

\* A request that has less to write.
LEMMA Writing ==
  ASSUME NEW r, Shaped(r), NEW S
  PROVE  [r EXCEPT !.write = S] =
           [op |-> r.op, path |-> r.path, loaded |-> r.loaded, write |-> S,
            copy |-> r.copy, rec |-> r.rec]
<1>1. r = [op |-> r.op, path |-> r.path, loaded |-> r.loaded, write |-> r.write,
           copy |-> r.copy, rec |-> r.rec]
  BY DEF Shaped
<1> QED
  BY <1>1

-----------------------------------------------------------------------------
(* The steps *)

\* The kernel asks for an inode that no request is about, and gets a whole
\* record.
LEMMA LookupKeeps ==
  ASSUME IInv, NEW p \in Watched, Lookup(p)
  PROVE  IInv'
<1>1. /\ node = [q \in Watched |-> node[q]] /\ \A q \in Watched : Full(node[q])
      /\ request' = request /\ clashed' = clashed
  BY DEF IInv, Nodes, Lookup
<1>2. /\ node' = [q \in Watched |-> node'[q]]
      /\ \A q \in Watched : node'[q] = node[q] \/ (q = p /\ node[q] = NoRecord /\ node'[q] = Found(p))
  BY <1>1 DEF Lookup
<1>3. Full(Found(p)) /\ Found(p)[1] = Found(p)[2] /\ Found(p) # NoRecord
  BY FoundFull DEF Lookup
<1>4. \A c \in Callers : request[c].op # "none" =>
        request[c].path \in Watched /\ node'[request[c].path] = node[request[c].path]
  BY <1>2 DEF IInv, Requests, Kept, Shaped
<1>5. \A c \in Callers : ~Done(request[c]) => request[c].op # "none"
  BY DEF IInv, Requests, Shaped
<1>6. Nodes'
  BY <1>1, <1>2, <1>3 DEF Nodes
<1>7. Requests' /\ Agreed' /\ OpenServesMount'
  BY <1>1 DEF IInv, Requests, Agreed, OpenServesMount, Fair
<1>8. Kept'
  BY <1>1, <1>4 DEF IInv, Kept
<1>9. Written'
  BY <1>1, <1>4, <1>5 DEF IInv, Written, Fair
<1>10. Copied'
  BY <1>1, <1>4, <1>5 DEF IInv, Copied, Fair
<1>11. MixedIsWritten'
  BY <1>1, <1>2, <1>3 DEF IInv, MixedIsWritten
<1> QED
  BY <1>6, <1>7, <1>8, <1>9, <1>10, <1>11 DEF IInv

LEMMA ForgetKeeps ==
  ASSUME IInv, NEW p \in Watched, Forget(p)
  PROVE  IInv'
<1>1. /\ node = [q \in Watched |-> node[q]] /\ \A q \in Watched : Full(node[q])
      /\ request' = request /\ clashed' = clashed \ {p}
      /\ \A c \in Callers : request[c].path # p
  BY DEF IInv, Nodes, Forget
<1>2. /\ node' = [q \in Watched |-> node'[q]] /\ node'[p] = NoRecord
      /\ \A q \in Watched \ {p} : node'[q] = node[q]
  BY <1>1 DEF Forget
<1>3. Full(NoRecord) /\ NoRecord[1] = NoRecord[2]
  BY DEF Full, Pair, NoRecord, Parts
<1>4. \A c \in Callers : /\ request[c].op # "none" => request[c].path \in Watched \ {p}
                         /\ ~Done(request[c]) => request[c].op # "none"
  BY <1>1 DEF IInv, Requests, Shaped
<1>5. \A c \in Callers : request[c].path \in clashed' <=> request[c].path \in clashed
  BY <1>1
<1>6. Nodes'
  BY <1>2, <1>1, <1>3 DEF Nodes
<1>7. Requests' /\ Agreed' /\ OpenServesMount'
  BY <1>1, <1>5 DEF IInv, Requests, Agreed, OpenServesMount, Fair
<1>8. Kept'
  BY <1>1, <1>2, <1>4 DEF IInv, Kept
<1>9. Written'
  BY <1>1, <1>2, <1>4, <1>5 DEF IInv, Written, Fair
<1>10. Copied'
  BY <1>1, <1>2, <1>4, <1>5 DEF IInv, Copied, Fair
<1>11. MixedIsWritten'
  BY <1>1, <1>2, <1>3 DEF IInv, MixedIsWritten
<1> QED
  BY <1>6, <1>7, <1>8, <1>9, <1>10, <1>11 DEF IInv

\* A request that begins has written and copied nothing.  If another is at
\* work with a different record, they have clashed.
LEMMA LoadKeeps ==
  ASSUME IInv, NEW c \in Callers, NEW p \in Watched, NEW op \in {"open", "getattr"},
         Load(c, p, op)
  PROVE  IInv'
<1> DEFINE loaded == Found(p)
           q == [op |-> op, path |-> p, loaded |-> loaded,
                 write |-> IF loaded # NoRecord THEN Parts ELSE {},
                 copy |-> IF op = "open" THEN Parts ELSE {}, rec |-> NoRecord]
<1>1. /\ request = [d \in Callers |-> request[d]] /\ \A d \in Callers : Shaped(request[d])
      /\ node' = node /\ request[c].op = "none" /\ node[p] # NoRecord
  BY DEF IInv, Requests, Load
<1>2. /\ request' = [d \in Callers |-> request'[d]] /\ request'[c] = q
      /\ \A d \in Callers \ {c} : request'[d] = request[d]
  <2>1. request' = [request EXCEPT ![c] =
          [Resting EXCEPT !.op = op, !.path = p, !.loaded = loaded,
             !.write = IF loaded # NoRecord THEN Parts ELSE {},
             !.copy = IF op = "open" THEN Parts ELSE {}]]
    BY DEF Load
  <2>2. [Resting EXCEPT !.op = op, !.path = p, !.loaded = loaded,
           !.write = IF loaded # NoRecord THEN Parts ELSE {},
           !.copy = IF op = "open" THEN Parts ELSE {}] = q
    <3> DEFINE e == [Resting EXCEPT !.op = op, !.path = p, !.loaded = loaded,
                       !.write = IF loaded # NoRecord THEN Parts ELSE {},
                       !.copy = IF op = "open" THEN Parts ELSE {}]
    <3>1. e = [x \in {"op", "path", "loaded", "write", "copy", "rec"} |-> e[x]]
      BY DEF Resting
    <3>2. /\ e.op = op /\ e.path = p /\ e.loaded = loaded /\ e.rec = NoRecord
          /\ e.write = (IF loaded # NoRecord THEN Parts ELSE {})
          /\ e.copy = (IF op = "open" THEN Parts ELSE {})
      BY DEF Resting
    <3> HIDE DEF e
    <3>3. e = q
      BY <3>1, <3>2
    <3> QED
      BY <3>3 DEF e
  <2> QED
    BY <1>1, <2>1, <2>2
<1>3. /\ clashed \subseteq clashed' /\ clashed' \subseteq clashed \cup {p}
      /\ p \notin clashed' =>
           \A d \in Callers : ~Done(request[d]) /\ request[d].path = p
                                => request[d].loaded = loaded
  <2> DEFINE meets == {d \in Working : request[d].path = p /\ request[d].loaded # loaded}
  <2>1. clashed' = IF meets = {} THEN clashed ELSE clashed \cup {p}
    BY DEF Load
  <2>2. \A d \in Callers : ~Done(request[d]) /\ request[d].path = p /\ request[d].loaded # loaded
                             => d \in meets
    BY DEF Working
  <2> HIDE DEF meets
  <2> QED
    BY <2>1, <2>2
<1>4. Full(loaded) /\ loaded[1] = loaded[2] /\ Pair(NoRecord)
  BY FoundFull DEF Pair, NoRecord, Parts
<1> HIDE DEF loaded
<1>5. /\ q.op = op /\ q.path = p /\ q.loaded = loaded /\ q.rec = NoRecord
      /\ q.write = IF loaded # NoRecord THEN Parts ELSE {}
      /\ q.copy = IF op = "open" THEN Parts ELSE {}
      /\ q = [op |-> q.op, path |-> q.path, loaded |-> q.loaded, write |-> q.write,
              copy |-> q.copy, rec |-> q.rec]
  OBVIOUS
<1> HIDE DEF q
<1>6. Shaped(q) /\ (op = "open" => ~Done(q))
  BY <1>4, <1>5 DEF Shaped, Done, Parts
<1>7. Done(request[c]) /\ request[c].write = {}
  BY <1>1 DEF Shaped, Done
<1>8. Nodes' /\ Requests' /\ Kept'
  BY <1>1, <1>2, <1>5, <1>6 DEF IInv, Nodes, Requests, Kept
<1>9. Agreed'
  <2> SUFFICES ASSUME NEW d \in Callers, NEW e \in Callers,
                      Fair(request[d])', ~Done(request'[e]),
                      request'[e].path = request'[d].path
               PROVE  request'[e].loaded = request'[d].loaded
    BY DEF Agreed
  <2>1. ~Done(request'[d]) /\ request'[d].path \notin clashed' /\ request'[d].path \notin clashed
    BY <1>3 DEF Fair
  <2>2. CASE d # c /\ e # c
    BY <1>2, <2>1, <2>2 DEF IInv, Agreed, Fair
  <2>3. CASE d = c /\ e # c
    BY <1>2, <1>3, <1>5, <2>1, <2>3
  <2>4. CASE e = c /\ d # c
    BY <1>2, <1>3, <1>5, <2>1, <2>4
  <2> QED
    BY <2>2, <2>3, <2>4
<1>10. Written'
  <2>1. q.loaded # NoRecord => Parts \ q.write = {}
    BY <1>5
  <2>2. \A d \in Callers \ {c} : Fair(request[d])' => Fair(request[d])
    BY <1>2, <1>3 DEF Fair
  <2> QED
    BY <1>1, <1>2, <2>1, <2>2 DEF IInv, Written
<1>11. Copied'
  <2>1. q.op = "open" => Parts \ q.copy = {}
    BY <1>5
  <2>2. \A d \in Callers \ {c} : Fair(request[d])' => Fair(request[d])
    BY <1>2, <1>3 DEF Fair
  <2> QED
    BY <1>1, <1>2, <2>1, <2>2 DEF IInv, Copied
<1>12. MixedIsWritten'
  <2> SUFFICES ASSUME NEW w \in Watched \ clashed', node[w][1] # node[w][2]
               PROVE  \E d \in Callers : request'[d].path = w /\ request'[d].write # {}
    BY <1>1 DEF MixedIsWritten
  <2>1. PICK d \in Callers : request[d].path = w /\ request[d].write # {}
    BY <1>3 DEF IInv, MixedIsWritten
  <2>2. d # c
    BY <1>7, <2>1
  <2> QED
    BY <1>2, <2>1, <2>2
<1>13. OpenServesMount'
  BY <1>2, <1>3, <1>5, <1>6 DEF IInv, OpenServesMount
<1> QED
  BY <1>8, <1>9, <1>10, <1>11, <1>12, <1>13 DEF IInv
\* A part of n.rec is written: those that have not clashed have loaded it too.
LEMMA WriteKeeps ==
  ASSUME IInv, NEW c \in Callers, Write(c)
  PROVE  IInv'
<1> DEFINE r == request[c]
           p == r.path
<1>1. /\ request = [d \in Callers |-> request[d]] /\ \A d \in Callers : Shaped(request[d])
      /\ node = [w \in Watched |-> node[w]] /\ \A w \in Watched : Full(node[w])
  BY DEF IInv, Nodes, Requests
<1>2. PICK i \in r.write : /\ node' = [node EXCEPT ![p][i] = r.loaded[i]]
                           /\ request' = [request EXCEPT ![c].write = @ \ {i}]
                           /\ clashed' = clashed
  BY DEF Write
<1>3. /\ Shaped(r) /\ ~Done(r) /\ r.op # "none" /\ p \in Watched /\ i \in Parts
      /\ r.loaded # NoRecord /\ r.write \subseteq Parts
      /\ r.op = "open" => r.copy = Parts
  BY <1>1, <1>2 DEF Shaped, Done
<1> DEFINE q == [op |-> r.op, path |-> p, loaded |-> r.loaded, write |-> r.write \ {i},
                 copy |-> r.copy, rec |-> r.rec]
<1>4. /\ request' = [d \in Callers |-> request'[d]] /\ request'[c] = q
      /\ \A d \in Callers \ {c} : request'[d] = request[d]
  <2>1. [r EXCEPT !.write = r.write \ {i}] = q
    BY <1>3, Writing
  <2> QED
    BY <1>1, <1>2, <2>1
<1>5. /\ q.op = r.op /\ q.path = p /\ q.loaded = r.loaded /\ q.write = r.write \ {i}
      /\ q.copy = r.copy /\ q.rec = r.rec
      /\ q = [op |-> q.op, path |-> q.path, loaded |-> q.loaded, write |-> q.write,
              copy |-> q.copy, rec |-> q.rec]
  OBVIOUS
<1> HIDE DEF q
<1>6. Shaped(q) /\ (r.op = "open" => ~Done(q))
  BY <1>3, <1>5 DEF Shaped, Done, Parts
<1>7. /\ node' = [w \in Watched |-> node'[w]]
      /\ \A w \in Watched \ {p} : node'[w] = node[w]
      /\ node'[p] = [node[p] EXCEPT ![i] = r.loaded[i]]
  BY <1>1, <1>2, <1>3
<1>8. /\ Pair(node'[p]) /\ node'[p][i] = r.loaded[i]
      /\ \A j \in Parts \ {i} : node'[p][j] = node[p][j]
  BY <1>1, <1>3, <1>7 DEF Full, Pair
<1>9. Full(node'[p]) /\ node'[p] # NoRecord
  <2>1. node[p] # NoRecord
    BY <1>3 DEF IInv, Kept
  <2>2. \A j \in Parts : node[p][j] # NoNumber /\ r.loaded[j] # NoNumber
    BY <1>1, <1>3, <2>1 DEF Full, Shaped, Parts
  <2>3. \A j \in Parts : node'[p][j] # NoNumber
    BY <1>3, <1>8, <2>2
  <2>4. NoRecord[1] = NoNumber
    BY DEF NoRecord
  <2> QED
    BY <1>8, <2>3, <2>4 DEF Full, Parts
<1>10. Nodes' /\ Requests'
  BY <1>1, <1>4, <1>6, <1>7, <1>9 DEF Nodes, Requests
<1>11. Kept'
  <2> SUFFICES ASSUME NEW d \in Callers, request'[d].op # "none"
               PROVE  node'[request'[d].path] # NoRecord
    BY DEF Kept
  <2>1. request[d].op # "none" /\ request'[d].path = request[d].path
    BY <1>4, <1>5
  <2>2. request[d].path \in Watched /\ node[request[d].path] # NoRecord
    BY <1>1, <2>1 DEF IInv, Kept, Shaped
  <2> QED
    BY <1>7, <1>9, <2>1, <2>2
<1>12. Agreed'
  <2>1. \A d \in Callers : /\ request'[d].path = request[d].path
                           /\ request'[d].loaded = request[d].loaded
                           /\ ~Done(request'[d]) => ~Done(request[d])
    BY <1>3, <1>4, <1>5
  <2> QED
    BY <1>2, <2>1 DEF IInv, Agreed, Fair
\* Who has not clashed with c has loaded what c has.
<1>13. \A d \in Callers : ~Done(request[d]) /\ request[d].path = p /\ p \notin clashed
                            => request[d].loaded = r.loaded
  BY <1>3 DEF IInv, Agreed, Fair
<1>14. Written'
  <2> SUFFICES ASSUME NEW d \in Callers, Fair(request[d])', request'[d].loaded # NoRecord,
                      NEW j \in Parts \ request'[d].write
               PROVE  node'[request'[d].path][j] = request'[d].loaded[j]
    BY DEF Written
  <2>1. /\ ~Done(request[d]) /\ request[d].op # "none" /\ request[d].path \in Watched
        /\ request'[d].path = request[d].path /\ request[d].path \notin clashed
        /\ request'[d].loaded = request[d].loaded
        /\ j \notin request[d].write \/ (d = c /\ j = i)
    BY <1>1, <1>2, <1>3, <1>4, <1>5 DEF Fair, Shaped
  <2>2. j \in Parts \ request[d].write => node[request[d].path][j] = request[d].loaded[j]
    BY <2>1 DEF IInv, Written, Fair
  <2>3. CASE request[d].path = p
    BY <1>8, <1>13, <2>1, <2>2, <2>3
  <2>4. CASE request[d].path # p
    BY <1>7, <2>1, <2>2, <2>4
  <2> QED
    BY <2>3, <2>4
<1>15. Copied'
  <2> SUFFICES ASSUME NEW d \in Callers, Fair(request[d])', request'[d].op = "open",
                      NEW j \in Parts \ request'[d].copy
               PROVE  request'[d].rec[j] = node'[request'[d].path][j]
    BY DEF Copied
  <2>1. d # c
    BY <1>3, <1>4, <1>5
  <2>2. /\ request'[d] = request[d] /\ Fair(request[d]) /\ request[d].path \in Watched
        /\ request[d].write = {} /\ Shaped(request[d])
    BY <1>1, <1>2, <1>4, <2>1 DEF Fair, Shaped
  <2>3. request[d].rec[j] = node[request[d].path][j]
    BY <2>2 DEF IInv, Copied
  <2>4. CASE request[d].path = p
    <3>1. request[d].loaded = r.loaded
      BY <1>13, <2>2, <2>4 DEF Fair
    <3>2. \A k \in Parts : node[p][k] = r.loaded[k]
      BY <1>3, <2>2, <2>4, <3>1 DEF IInv, Written
    <3>3. node'[p][j] = node[p][j]
      BY <1>3, <1>8, <3>2
    <3> QED
      BY <2>2, <2>3, <2>4, <3>3
  <2>5. CASE request[d].path # p
    BY <1>7, <2>2, <2>3, <2>5
  <2> QED
    BY <2>4, <2>5
<1>16. MixedIsWritten'
  <2> SUFFICES ASSUME NEW w \in Watched, w \notin clashed, node'[w][1] # node'[w][2]
               PROVE  \E d \in Callers : request'[d].path = w /\ request'[d].write # {}
    BY <1>2 DEF MixedIsWritten
  <2>1. CASE w = p /\ q.write # {}
    BY <1>4, <1>5, <2>1
  <2>2. CASE w = p /\ q.write = {}
    <3>1. \A j \in Parts \ r.write : node[p][j] = r.loaded[j]
      BY <1>3, <2>2 DEF IInv, Written, Fair
    <3>2. \A j \in Parts : node'[p][j] = r.loaded[j]
      BY <1>5, <1>8, <2>2, <3>1
    <3>3. r.loaded[1] = r.loaded[2]
      BY <1>3 DEF Shaped
    <3> QED
      BY <2>2, <3>2, <3>3 DEF Parts
  <2>3. CASE w # p
    <3>1. PICK d \in Callers : request[d].path = w /\ request[d].write # {}
      BY <1>7, <2>3 DEF IInv, MixedIsWritten
    <3> QED
      BY <1>4, <2>3, <3>1
  <2> QED
    BY <2>1, <2>2, <2>3
<1>17. OpenServesMount'
  BY <1>2, <1>4, <1>5, <1>6 DEF IInv, OpenServesMount
<1> QED
  BY <1>10, <1>11, <1>12, <1>14, <1>15, <1>16, <1>17 DEF IInv
\* A part of n.rec is copied, once nothing is left to be written.
LEMMA CopyKeeps ==
  ASSUME IInv, NEW c \in Callers, Copy(c)
  PROVE  IInv'
<1> DEFINE r == request[c]
           p == r.path
<1>1. /\ request = [d \in Callers |-> request[d]] /\ \A d \in Callers : Shaped(request[d])
      /\ \A w \in Watched : Full(node[w])
  BY DEF IInv, Nodes, Requests
<1>2. r.write = {} /\ UNCHANGED <<node, clashed>>
  BY DEF Copy
<1>3. PICK i \in r.copy :
        request' = [request EXCEPT ![c].rec[i] = node[p][i], ![c].copy = @ \ {i}]
  BY DEF Copy
<1>4. /\ Shaped(r) /\ ~Done(r) /\ r.op # "none" /\ p \in Watched /\ i \in Parts
      /\ r.copy \subseteq Parts /\ Pair(r.rec)
  BY <1>1, <1>3 DEF Shaped, Done
<1> DEFINE q == [op |-> r.op, path |-> p, loaded |-> r.loaded, write |-> r.write,
                 copy |-> r.copy \ {i}, rec |-> [r.rec EXCEPT ![i] = node[p][i]]]
<1>5. /\ request' = [d \in Callers |-> request'[d]] /\ request'[c] = q
      /\ \A d \in Callers \ {c} : request'[d] = request[d]
  <2> DEFINE e == request'[c]
  <2>1. r = [op |-> r.op, path |-> p, loaded |-> r.loaded, write |-> r.write,
             copy |-> r.copy, rec |-> r.rec]
    BY <1>4 DEF Shaped
  <2>2. e = q
    <3>1. e = [r EXCEPT !.rec[i] = node[p][i], !.copy = r.copy \ {i}]
      BY <1>1, <1>3
    <3>2. e = [x \in {"op", "path", "loaded", "write", "copy", "rec"} |-> e[x]]
      BY <2>1, <3>1
    <3>3. /\ e.op = r.op /\ e.path = p /\ e.loaded = r.loaded /\ e.write = r.write
          /\ e.copy = r.copy \ {i} /\ e.rec = [r.rec EXCEPT ![i] = node[p][i]]
      BY <2>1, <3>1
    <3> HIDE DEF e
    <3> QED
      BY <3>2, <3>3
  <2>3. request' = [d \in Callers |-> request'[d]]
        /\ \A d \in Callers \ {c} : request'[d] = request[d]
    BY <1>1, <1>3
  <2> QED
    BY <2>2, <2>3
<1>6. /\ q.op = r.op /\ q.path = p /\ q.loaded = r.loaded /\ q.write = {}
      /\ q.copy = r.copy \ {i} /\ Pair(q.rec) /\ q.rec[i] = node[p][i]
      /\ \A j \in Parts \ {i} : q.rec[j] = r.rec[j]
      /\ q = [op |-> q.op, path |-> q.path, loaded |-> q.loaded, write |-> q.write,
              copy |-> q.copy, rec |-> q.rec]
  BY <1>2, <1>4 DEF Pair
<1> HIDE DEF q
<1>7. Shaped(q)
  BY <1>4, <1>6 DEF Shaped, Done, Parts
<1>8. Nodes' /\ Requests' /\ Kept'
  BY <1>1, <1>2, <1>5, <1>6, <1>7, <1>4 DEF IInv, Nodes, Requests, Kept
<1>9. \A d \in Callers : /\ request'[d].path = request[d].path
                         /\ request'[d].loaded = request[d].loaded
                         /\ request'[d].write = request[d].write
                         /\ ~Done(request'[d]) => ~Done(request[d])
  BY <1>2, <1>4, <1>5, <1>6
<1>10. Agreed' /\ Written' /\ MixedIsWritten'
  BY <1>2, <1>9 DEF IInv, Agreed, Written, MixedIsWritten, Fair
<1>11. ASSUME p \notin clashed, r.op = "open"
       PROVE  \A j \in Parts \ q.copy : q.rec[j] = node[p][j]
  <2>1. \A j \in Parts \ r.copy : r.rec[j] = node[p][j]
    BY <1>4, <1>11 DEF IInv, Copied, Fair
  <2> QED
    BY <1>6, <2>1
<1>12. Copied'
  <2> SUFFICES ASSUME NEW d \in Callers, Fair(request[d])', request'[d].op = "open",
                      NEW j \in Parts \ request'[d].copy
               PROVE  request'[d].rec[j] = node[request'[d].path][j]
    BY <1>2 DEF Copied
  <2>1. CASE d = c
    BY <1>2, <1>5, <1>6, <1>11, <2>1 DEF Fair
  <2>2. CASE d # c
    BY <1>2, <1>5, <2>2 DEF IInv, Copied, Fair
  <2> QED
    BY <2>1, <2>2
\* When all is copied, nobody is writing, so that the inode has one record.
<1>13. ASSUME p \notin clashed, r.op = "open", q.copy = {}
       PROVE  q.rec[1] = q.rec[2] /\ (r.loaded # NoRecord => q.rec = r.loaded)
  <2>1. \A j \in Parts : q.rec[j] = node[p][j]
    BY <1>11, <1>13
  <2>2. CASE r.loaded # NoRecord
    <3>1. \A j \in Parts : node[p][j] = r.loaded[j]
      BY <1>2, <1>4, <1>13, <2>2 DEF IInv, Written, Fair
    <3>2. Pair(r.loaded) /\ r.loaded[1] = r.loaded[2]
      BY <1>4 DEF Shaped, Full
    <3> QED
      BY <1>6, <2>1, <3>1, <3>2 DEF Pair, Parts
  <2>3. CASE r.loaded = NoRecord
    <3>1. \A d \in Callers : request[d].path = p => request[d].write = {}
      <4> SUFFICES ASSUME NEW d \in Callers, request[d].path = p, request[d].write # {}
                   PROVE  FALSE
        OBVIOUS
      <4>1. ~Done(request[d]) /\ Shaped(request[d])
        BY <1>1 DEF Done
      <4>2. request[d].loaded = NoRecord
        BY <1>4, <1>13, <2>3, <4>1 DEF IInv, Agreed, Fair
      <4> QED
        BY <4>1, <4>2 DEF Shaped
    <3>2. node[p][1] = node[p][2]
      BY <1>4, <1>13, <3>1 DEF IInv, MixedIsWritten
    <3> QED
      BY <2>1, <2>3, <3>2 DEF Parts
  <2> QED
    BY <2>2, <2>3
<1>14. OpenServesMount'
  <2> SUFFICES ASSUME NEW d \in Callers, request'[d].op = "open", Done(request'[d]),
                      request'[d].path \notin clashed
               PROVE  /\ request'[d].rec[1] = request'[d].rec[2]
                      /\ request'[d].loaded # NoRecord => request'[d].rec = request'[d].loaded
    BY <1>2 DEF OpenServesMount
  <2>1. CASE d = c
    <3>1. q.copy = {}
      BY <1>5, <2>1 DEF Done
    <3> QED
      BY <1>5, <1>6, <1>13, <2>1, <3>1
  <2>2. CASE d # c
    BY <1>5, <2>2 DEF IInv, OpenServesMount
  <2> QED
    BY <2>1, <2>2
<1> QED
  BY <1>8, <1>10, <1>12, <1>14 DEF IInv

LEMMA ReleaseKeeps ==
  ASSUME IInv, NEW c \in Callers, Release(c)
  PROVE  IInv'
<1>1. /\ request = [d \in Callers |-> request[d]] /\ UNCHANGED <<node, clashed>>
      /\ Done(request[c])
  BY DEF IInv, Requests, Release
<1>2. /\ request' = [d \in Callers |-> request'[d]] /\ request'[c] = Resting
      /\ \A d \in Callers \ {c} : request'[d] = request[d]
  BY <1>1 DEF Release
<1>3. Shaped(Resting) /\ Done(Resting) /\ Resting.op = "none"
  BY RestingShaped
<1>4. request[c].write = {}
  BY <1>1 DEF Done
<1>5. Nodes' /\ Requests' /\ Kept'
  BY <1>1, <1>2, <1>3 DEF IInv, Nodes, Requests, Kept
<1>6. \A d \in Callers : ~Done(request'[d]) => d # c /\ request'[d] = request[d]
  BY <1>2, <1>3
<1>7. Agreed' /\ Written' /\ Copied'
  BY <1>1, <1>6 DEF IInv, Agreed, Written, Copied, Fair
<1>8. MixedIsWritten'
  BY <1>1, <1>2, <1>4 DEF IInv, MixedIsWritten
<1>9. OpenServesMount'
  BY <1>1, <1>2, <1>3 DEF IInv, OpenServesMount
<1> QED
  BY <1>5, <1>7, <1>8, <1>9 DEF IInv

-----------------------------------------------------------------------------
(* The theorems *)

LEMMA InitIInv == MountInit => IInv
<1> SUFFICES ASSUME MountInit PROVE IInv
  OBVIOUS
<1>1. /\ node = [p \in Watched |-> NoRecord] /\ request = [c \in Callers |-> Resting]
  BY DEF MountInit
<1>2. Full(NoRecord) /\ NoRecord[1] = NoRecord[2]
  BY DEF Full, Pair, NoRecord, Parts
<1>3. Nodes /\ Requests /\ Kept
  BY <1>1, <1>2, RestingShaped DEF Nodes, Requests, Kept
<1>4. Agreed /\ Written /\ Copied
  BY <1>1, RestingShaped DEF Agreed, Written, Copied, Fair
<1>5. MixedIsWritten /\ OpenServesMount
  BY <1>1, <1>2, RestingShaped DEF MixedIsWritten, OpenServesMount
<1> QED
  BY <1>3, <1>4, <1>5 DEF IInv

LEMMA NextIInv == IInv /\ [MountNext]_<<vars, mountVars>> => IInv'
<1> SUFFICES ASSUME IInv, [MountNext]_<<vars, mountVars>> PROVE IInv'
  OBVIOUS
<1>1. CASE UNCHANGED mountVars
  BY <1>1 DEF mountVars, IInv, Nodes, Requests, Kept, Agreed, Written, Copied,
              MixedIsWritten, OpenServesMount, Fair
<1>2. CASE Serve
  BY <1>2, LookupKeeps, ForgetKeeps, LoadKeeps, WriteKeeps, CopyKeeps, ReleaseKeeps DEF Serve
<1> QED
  BY <1>1, <1>2 DEF MountNext

\* The invariant of the requests on fs.go's inodes.
THEOREM Inductive == MountSpec => []IInv
<1>1. MountInit => IInv
  BY InitIInv
<1>2. IInv /\ [MountNext]_<<vars, mountVars>> => IInv'
  BY NextIInv
<1> QED
  BY <1>1, <1>2, PTL DEF MountSpec

\* A handle has the record that the tree had at its path when it was opened,
\* or, if the path had left the tree, one whole record, unless requests from
\* before and after a swap have met on the inode.
THEOREM OpenServesMountHolds == MountSpec => []OpenServesMount
<1>1. IInv => OpenServesMount
  BY DEF IInv
<1> QED
  BY <1>1, Inductive, PTL
=============================================================================
