------------------------------ MODULE WebPages ------------------------------
(***************************************************************************)
(* What the web pages show of the records in the store: buildMountEntries  *)
(* and groupTorrentSummaries in cmd/torbox-fuse/web.go.  The pages are     *)
(* built from the store on every request, the mount from the records of    *)
(* the last Run; the order of entries, sizes and search are left out.      *)
(***************************************************************************)
EXTENDS MediaRecords

CONSTANT Torrents  \* the source that lists torrents

ASSUME TorrentsAssumption == Torrents \in Sources

\* store.All reads the records in the order of their keys.
Stored(recs) == [n \in DOMAIN recs |-> recs[ByKey(recs, DOMAIN recs)[n]]]

\* What the page of a directory lists: directories, and files with the record
\* they open.
MountEntries(t, dir) ==
  [p \in {e \in DOMAIN t.entries : Front(e) = dir} |->
     IF t.entries[p] = "dir" THEN NoNumber ELSE t.files[p]]

\* Mutant of TorrentSummaries: the files of all sources are grouped.
SummariesOfAll(recs) ==
  [id \in {r.item : r \in ToSet(recs)} |-> {r \in ToSet(recs) : r.item = id}]

TorrentSummaries(recs) ==
  LET mine == {r \in ToSet(recs) : r.type = Torrents}
  IN  [id \in {r.item : r \in mine} |-> {r \in mine : r.item = id}]

-----------------------------------------------------------------------------
(* Properties *)

\* web.go:241-264, tree.go:86: after a refresh the pages of the mount list what
\* the mount lists, and a file on them is the one the mount opens, also where
\* records of one source share a path.  Only records of two sources may be
\* mixed up, if the sources are not configured in the order of their keys.
PageShowsMount ==
  phase = "built" =>
    LET page == Build(Stored(all))
        typeOf(key) == (CHOOSE r \in ToSet(all) : r.key = key).type
    IN  /\ page.dirs = tree.dirs
        /\ \A dir \in tree.dirs :
             LET shown == MountEntries(page, dir)
                 there == MountEntries(tree, dir)
             IN  /\ DOMAIN shown = DOMAIN there
                 /\ \A p \in DOMAIN there :
                      \/ shown[p] = there[p]
                      \/ NoNumber \notin {shown[p], there[p]} /\ typeOf(shown[p]) # typeOf(there[p])

\* web.go:266-305, main.go:102: a torrent that can be deleted on its page is
\* shown there with the videos that TorBox would lose, and with no other.
PageShowsTorrent ==
  phase = "built" =>
    LET summaries == TorrentSummaries(Stored(all))
        videos(id) == {f.key : f \in {g \in ToSet(Listed(Torrents, "video")) : g.item = id}}
    IN  /\ DOMAIN summaries = {f.item : f \in ToSet(Listed(Torrents, "video"))}
        /\ \A id \in DOMAIN summaries :
             {r.key : r \in {q \in summaries[id] : q.kind = "video"}} = videos(id)
=============================================================================
