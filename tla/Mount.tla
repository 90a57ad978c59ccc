-------------------------------- MODULE Mount --------------------------------
(***************************************************************************)
(* The FUSE requests on the mounted tree: Lookup, Open, Getattr and the    *)
(* release of a handle (internal/fusefs/fs.go), while refreshes swap trees.*)
(*                                                                         *)
(* A record is held as <<key, rest>>: the key names its blocks in the disk *)
(* cache, the rest has its size and link.  Open and Getattr write and read *)
(* fileNode.rec without a lock, so its parts are written and copied in any *)
(* order, one at a time.  The kernel may use an inode it knows without a   *)
(* Lookup, also when its path has left the tree; inodes are known by the   *)
(* hash of their path, which is represented by the path.                   *)
(*                                                                         *)
(* A request touches nothing of a refresh but the tree, so that requests   *)
(* are only interleaved with the steps around a swap.                      *)
(***************************************************************************)
EXTENDS MediaRecords

CONSTANTS
  Callers,  \* processes that use the mount, each with one handle at a time
  Watched   \* the paths they use

VARIABLES
  node,     \* [Watched -> the record of the inode, or NoRecord]
  request,  \* [Callers -> what it asks, how far it is, the record it has]
  clashed   \* the inodes on which two requests met that had loaded different
            \* records; only the properties look at it

mountVars == <<node, request, clashed>>

Parts == {1, 2}
NoRecord == <<NoNumber, NoNumber>>
Resting == [op |-> "none", path |-> NoText, loaded |-> NoRecord, write |-> {},
            copy |-> {}, rec |-> NoRecord]

Found(path) ==
  IF path \in DOMAIN tree.files THEN [i \in Parts |-> tree.files[path]] ELSE NoRecord

Done(r) == r.write \cup r.copy = {}
Working == {c \in Callers : ~Done(request[c])}

\* An inode that the kernel knows is kept with the record it has.
Lookup(path) ==
  /\ Found(path) # NoRecord
  /\ node' = [node EXCEPT ![path] = IF @ = NoRecord THEN Found(path) ELSE @]
  /\ UNCHANGED <<request, clashed>>

\* Mutant of Load: the inode's record is used as it is.
LoadNothing(c, path, op) ==
  /\ request[c].op = "none" /\ node[path] # NoRecord
  /\ request' = [request EXCEPT ![c] =
       [Resting EXCEPT !.op = op, !.path = path, !.loaded = Found(path),
          !.copy = IF op = "open" THEN Parts ELSE {}]]
  /\ UNCHANGED <<node, clashed>>

\* Open and Getattr load the tree and look the path up in it.  A path that is
\* gone leaves the inode's record as it is.
Load(c, path, op) ==
  /\ request[c].op = "none" /\ node[path] # NoRecord
  /\ LET loaded == Found(path)
         meets  == {d \in Working : request[d].path = path /\ request[d].loaded # loaded}
     IN  /\ request' = [request EXCEPT ![c] =
              [Resting EXCEPT !.op = op, !.path = path, !.loaded = loaded,
                 !.write = IF loaded # NoRecord THEN Parts ELSE {},
                 !.copy = IF op = "open" THEN Parts ELSE {}]]
         /\ clashed' = IF meets = {} THEN clashed ELSE clashed \cup {path}
  /\ UNCHANGED node

\* n.rec = rec, a part of it.
Write(c) ==
  /\ \E i \in request[c].write :
       /\ node' = [node EXCEPT ![request[c].path][i] = request[c].loaded[i]]
       /\ request' = [request EXCEPT ![c].write = @ \ {i}]
  /\ UNCHANGED clashed

\* The handle gets a copy of n.rec, a part of it.
Copy(c) ==
  /\ request[c].write = {}
  /\ \E i \in request[c].copy :
       request' = [request EXCEPT ![c].rec[i] = node[request[c].path][i], ![c].copy = @ \ {i}]
  /\ UNCHANGED <<node, clashed>>

\* The attributes are answered, or the handle is released.
Release(c) ==
  /\ request[c].op # "none" /\ Done(request[c])
  /\ request' = [request EXCEPT ![c] = Resting]
  /\ UNCHANGED <<node, clashed>>

\* The kernel forgets an inode that nobody uses.
Forget(path) ==
  /\ node[path] # NoRecord /\ \A c \in Callers : request[c].path # path
  /\ node' = [node EXCEPT ![path] = NoRecord]
  /\ clashed' = clashed \ {path}
  /\ UNCHANGED request

MountInit ==
  /\ Init
  /\ node = [p \in Watched |-> NoRecord]
  /\ request = [c \in Callers |-> Resting]
  /\ clashed = {}

Serve ==
  \/ \E p \in Watched : Lookup(p) \/ Forget(p)
  \/ \E c \in Callers :
       \/ \E p \in Watched, op \in {"open", "getattr"} : Load(c, p, op)
       \/ Write(c) \/ Copy(c) \/ Release(c)

MountNext ==
  \/ Next /\ UNCHANGED mountVars
  \/ phase \in {"build", "built"} /\ Serve /\ UNCHANGED vars

MountSpec == MountInit /\ [][MountNext]_<<vars, mountVars>>

-----------------------------------------------------------------------------
(* Properties *)

\* fs.go:116-133: a handle has the record that the tree had at its path when
\* it was opened, whatever the inode had before; if the path had left the tree,
\* it has one whole record, never the key of one file with the link or size of
\* another, under which blocks would be cached for good.  The one exception is
\* an inode on which requests from before and after a swap have met.
OpenServesMount ==
  \A c \in Callers :
    LET r == request[c]
    IN  r.op = "open" /\ Done(r) /\ r.path \notin clashed =>
          /\ r.rec[1] = r.rec[2]
          /\ r.loaded # NoRecord => r.rec = r.loaded
=============================================================================
