----------------------------- MODULE MCRefresh -----------------------------
(* Refresh on small libraries, and media servers with several of their own. *)
EXTENDS Refresh

Item(i, c) == [id |-> i, cached |-> c]
\* A library of one item, one that fits its window and one that does not.
Short == {<<Item("a", TRUE)>>}
Waiting == {<<Item("a", TRUE), Item("b", FALSE)>>}

\* Media that show under movies, under series, and under neither.
Media == [i \in Ids |-> CASE i = "a" -> {"movies"} [] i = "b" -> {"series"} [] OTHER -> {}]

BothServers == <<"plex", "jellyfin">>
NoServers == <<>>

\* Two sections have the movies; one section has both directories.
Sections ==
  <<[key |-> "films", locations |-> {"movies"}],
    [key |-> "all", locations |-> {"movies", "series"}]>>

\* A folder that is not ready has no item ID; one folder has both directories.
Folders ==
  <<[itemID |-> NoItem, locations |-> {"movies"}],
    [itemID |-> "mixed", locations |-> {"movies", "series"}],
    [itemID |-> "tv", locations |-> {"series"}]>>
=============================================================================
