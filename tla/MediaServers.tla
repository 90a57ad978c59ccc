---------------------------- MODULE MediaServers ----------------------------
(***************************************************************************)
(* What a notification asks of the media servers: RefreshMountPaths        *)
(* (internal/plex/client.go) and NotifyMountPaths                          *)
(* (internal/jellyfin/client.go).  Each first asks its server for the      *)
(* libraries it has, and then requests scans of those that lie on the      *)
(* mount.  A server's library is a section or a virtual folder; where it   *)
(* lies is the set of the directories of the mount among its locations.    *)
(***************************************************************************)
EXTENDS Sequences, SequencesExt

CONSTANTS
  PlexSections,     \* [key, locations] in the order Plex lists them
  JellyfinFolders,  \* [itemID, locations] in the order Jellyfin lists them
  NoItem            \* a folder without an item ID

DesiredPaths == <<"movies", "series">>
Views == ToSet(DesiredPaths)

ASSUME LibrariesAssumption ==
  \A l \in ToSet(PlexSections) \cup ToSet(JellyfinFolders) : l.locations \subseteq Views

\* Plex scans one location of the first section that has it.
SectionsAt(view) == SelectSeq(PlexSections, LAMBDA s : view \in s.locations)

PlexScan(view) ==
  IF SectionsAt(view) = <<>> THEN <<>>
  ELSE <<[server |-> "plex", library |-> Head(SectionsAt(view)).key, views |-> {view}]>>

PlexScans == FlattenSeq([i \in DOMAIN DesiredPaths |-> PlexScan(DesiredPaths[i])])

\* Jellyfin refreshes every folder that has the location, each of them once,
\* with all its locations.
FoldersAt(view) ==
  SelectSeq(JellyfinFolders, LAMBDA f : f.itemID # NoItem /\ view \in f.locations)

RefreshItem(scans, folder) ==
  IF \E i \in DOMAIN scans : scans[i].library = folder.itemID THEN scans
  ELSE Append(scans, [server |-> "jellyfin", library |-> folder.itemID,
                      views |-> folder.locations])

JellyfinScans ==
  FoldLeft(RefreshItem, <<>>,
           FlattenSeq([i \in DOMAIN DesiredPaths |-> FoldersAt(DesiredPaths[i])]))

Scans(server) == IF server = "plex" THEN PlexScans ELSE JellyfinScans

\* What the libraries show, directory by directory.
Shelves ==
  {[server |-> "plex", library |-> s.key, view |-> v] : s \in ToSet(PlexSections), v \in Views}
    \cup
  {[server |-> "jellyfin", library |-> f.itemID, view |-> v] :
     f \in ToSet(JellyfinFolders), v \in Views}

ShelvesOf(scan) ==
  {sh \in Shelves : sh.server = scan.server /\ sh.library = scan.library /\ sh.view \in scan.views}
=============================================================================
