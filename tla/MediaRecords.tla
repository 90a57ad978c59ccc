---------------------------- MODULE MediaRecords ----------------------------
(***************************************************************************)
(* From the listings of TorBox to the tree that is mounted: ProcessItems   *)
(* (internal/media/process.go) with its workers, the casing of the root    *)
(* folders (canonical_case.go), the Plex version labels (plex_naming.go),  *)
(* the matching of subtitles, and Build (internal/vfs/tree.go).            *)
(* Manager.Run (internal/refresh/refresh.go) calls it for each source in   *)
(* turn; the next refresh does it all again for the same library.          *)
(*                                                                         *)
(* A text is the sequence of its words; the last string of a file name is  *)
(* its extension.  What the program reads in names is in ReleaseNames.     *)
(***************************************************************************)
EXTENDS ReleaseNames

CONSTANTS
  Workers,         \* the goroutines of ProcessItems
  Idle,            \* a worker without a job
  NumSources,      \* the configured libraries are 1 .. NumSources
  Catalogs,        \* the libraries: [Sources -> Seq(file)], in listing order
  Follows,         \* [Catalogs -> what TorBox may list at the next refresh]
  Letters,         \* [words with letters -> their lower case, whether they have
                   \*  capitals and small letters, their titleLikeScore]
  Within           \* [places -> pairs of words, the first one in the second: at
                   \*  its end ("first"), its beginning ("last"), or anywhere
                   \*  ("only"); none for "middle"]

Sources == 1 .. NumSources

ASSUME MediaAssumption ==
  /\ NumSources \in Nat \ {0} /\ Workers # {}
  /\ \A c \in Catalogs : DOMAIN c = Sources /\ Follows[c] \subseteq Catalogs

\* A sequence, of whatever is in it.
IsSequence(s) == s \in Seq(ToSet(s))

\* A key is made of the source, the id of the item and the id of the file
\* (process.go:103), and stands for its place in the order of all keys.
ASSUME KeysAssumption ==
  \A c \in Catalogs : \A s, t \in Sources :
    /\ IsSequence(c[s]) /\ Idle \notin ToSet(c[s])
    /\ \A i \in DOMAIN c[s], j \in DOMAIN c[t] :
         c[s][i].key \in Nat /\ (c[s][i].key = c[t][j].key => s = t /\ i = j)

\* The names are sequences of tokens, a path is a sequence of names.
ASSUME NamesAssumption ==
  /\ \A w \in DOMAIN Letters : Letters[w].score \in Int
  /\ \A c \in Catalogs : \A s \in Sources : \A f \in ToSet(c[s]) :
       /\ IsSequence(f.name.stem) /\ IsSequence(f.name.ext)
       /\ IsSequence(f.short.stem) /\ IsSequence(f.short.ext)
       /\ IsSequence(f.dirs) /\ \A i \in DOMAIN f.dirs : IsSequence(f.dirs[i])

VARIABLES
  catalog,  \* what TorBox lists
  phase,    \* "collect", "label", "build" or "built"
  src,      \* the source being processed
  jobs,     \* the videos no worker has taken
  held,     \* [Workers -> the video it builds the record of]
  records,  \* the records of this source
  pending,  \* the groups still to be labelled: sets of indices of records
  used,     \* usedPaths
  all,      \* the records of the sources done
  tree,     \* what is mounted
  earlier   \* the records of the refresh before, if it was of this library

vars == <<catalog, phase, src, jobs, held, records, pending, used, all, tree, earlier>>

-----------------------------------------------------------------------------
(* ApplyCanonicalRootCasing *)

\* strings.ToLower.
Folded(text) ==
  [i \in DOMAIN text |-> IF text[i] \in DOMAIN Letters THEN Letters[text[i]].lower ELSE text[i]]

Lettered(text) == {i \in DOMAIN text : text[i] \in DOMAIN Letters}

\* 3 for mixed case, 2 for capitals, 1 for small letters, 0 for no letters.
CasingClass(text) ==
  (IF \E i \in Lettered(text) : Letters[text[i]].capitals THEN 2 ELSE 0) +
    (IF \E i \in Lettered(text) : Letters[text[i]].small THEN 1 ELSE 0)

TitleLikeScore(text) ==
  SumFunctionOnSet([i \in Lettered(text) |-> Letters[text[i]].score], Lettered(text))

\* Mutant of Variants: the group key keeps the case.
VariantsByCase(recs, r) == {q.root : q \in {p \in ToSet(recs) : p.media = r.media /\ p.root = r.root}}

\* The spellings of r's root folder among the records of its media type.
Variants(recs, r) ==
  {q.root : q \in {p \in ToSet(recs) : p.media = r.media /\ Folded(p.root) = Folded(r.root)}}

Uses(recs, media, root) == {i \in DOMAIN recs : recs[i].media = media /\ recs[i].root = root}

\* Mutant of FirstKey: the records are not sorted before they are counted.
FirstDelivered(recs, media, root) ==
  CHOOSE i \in Uses(recs, media, root) : \A j \in Uses(recs, media, root) : i <= j

FirstKey(recs, media, root) ==
  CHOOSE k \in {recs[i].key : i \in Uses(recs, media, root)} :
    \A i \in Uses(recs, media, root) : k <= recs[i].key

\* betterRootCasing: class, then score, then how many, then the first key.
Merit(recs, media, root) ==
  <<CasingClass(root), TitleLikeScore(root), Cardinality(Uses(recs, media, root)),
    0 - FirstKey(recs, media, root)>>

BetterRootCasing(m, n) ==
  \E i \in 1 .. 4 : m[i] > n[i] /\ \A j \in 1 .. i - 1 : m[j] = n[j]

CanonicalRoot(recs, r) ==
  CHOOSE v \in Variants(recs, r) : \A w \in Variants(recs, r) \ {v} :
    BetterRootCasing(Merit(recs, r.media, v), Merit(recs, r.media, w))

ApplyCanonicalRootCasing(recs) ==
  [i \in DOMAIN recs |-> [recs[i] EXCEPT !.root = CanonicalRoot(recs, recs[i])]]

-----------------------------------------------------------------------------
(* ApplyPlexVersionNaming *)

\* Movies proper, and series with their extras; unknown files never.
Groupable(r) ==
  \/ r.media = "movie" /\ r.folder = NoText /\ r.extra = NoText
  \/ r.media = "series"

\* A movie is known by its root folder, an episode by its numbers, and a
\* series file without numbers by its name.
GroupKey(r) ==
  LET unnumbered == r.season = NoNumber /\ r.episode = NoNumber
  IN  [media |-> r.media, root |-> r.root, folder |-> r.folder,
       season |-> IF r.media = "series" THEN r.season ELSE NoNumber,
       episode |-> IF r.media = "series" THEN r.episode ELSE NoNumber,
       name |-> IF r.media = "series" /\ unnumbered THEN r.name ELSE NoText]

Grouped(recs) == {i \in DOMAIN recs : Groupable(recs[i])}
GroupOf(recs, key) == {i \in Grouped(recs) : GroupKey(recs[i]) = key}

PathKey(r, name) == <<r.media, r.root, r.folder, r.extra, name>>
OwnPath(r) == PathKey(r, r.name)
Dashed(text, more) == text \o <<"-">> \o more
Labelled(r, label) == Dashed(Front(r.name), label) \o <<Last(r.name)>>

\* The name of the item or of the file, unless it says no more than the name
\* and the folder of the record.
CleanedReleaseStem(r) ==
  LET says(c) == /\ SafePathName(c) # <<"Unknown">>
                 /\ Folded(c) \notin {Folded(Front(r.name)), Folded(r.root)}
      i == SelectInSeq(r.stems, says)
  IN  IF i = 0 THEN NoText ELSE r.stems[i]

ShortStableID(r) == <<"#" \o ToString(r.key)>>

PlexVersionLabel(r) ==
  FirstNonEmpty(r.tech, FirstNonEmpty(CleanedReleaseStem(r), ShortStableID(r)))

\* The first of the labels that is not taken, or the last of them with the id.
FreshLabel(g, r) ==
  LET first   == PlexVersionLabel(r)
      stem    == CleanedReleaseStem(r)
      labels  == IF stem # NoText /\ Folded(stem) # Folded(first)
                 THEN <<first, stem>> ELSE <<first>>
      free    == SelectInSeq(labels, LAMBDA l : Folded(l) \notin g.labels)
  IN  IF free = 0 THEN Dashed(Last(labels), ShortStableID(r)) ELSE labels[free]

Relabel(g, i, label) ==
  LET r    == g.recs[i]
      name == Labelled(r, label)
  IN  [recs   |-> [g.recs EXCEPT ![i].name = name],
       used   |-> (g.used \ {OwnPath(r)}) \cup {PathKey(r, name)},
       names  |-> g.names \cup {name},
       labels |-> g.labels \cup {Folded(label)}]

\* Mutant of LabelOne: paths outside the group are not looked at.
LabelBlindly(g, i) == Relabel(g, i, FreshLabel(g, g.recs[i]))

\* One round of the loop over a group; the id is added (again) if the name or
\* the path is taken.
LabelOne(g, i) ==
  LET r     == g.recs[i]
      fresh == FreshLabel(g, r)
      taken == \/ Labelled(r, fresh) \in g.names
               \/ PathKey(r, Labelled(r, fresh)) \in g.used \ {OwnPath(r)}
  IN  Relabel(g, i, IF taken THEN Dashed(fresh, ShortStableID(r)) ELSE fresh)

ByKey(recs, group) == InOrder(group, [i \in group |-> recs[i].key])

-----------------------------------------------------------------------------
(* The records of videos and subtitles *)

VideoRecord(typ, f, md) ==
  [key |-> f.key, item |-> f.item, type |-> typ, kind |-> "video", file |-> FileName(f.short),
   stems |-> <<Texts(f.name.stem), Texts(f.short.stem)>>,
   tech |-> TechnicalLabel(Combined(f)), media |-> md.media, season |-> md.season,
   episode |-> md.episode, root |-> md.root, folder |-> md.folder, extra |-> md.extra,
   name |-> md.name]

BuildVideoRecord(typ, f) == VideoRecord(typ, f, Classify(f))

\* strings.Contains: the first of some words in a text may be the end of one of
\* its words, the last the beginning, and a single one any part.
ContainsText(text, part) ==
  LET place(i) == CASE Len(part) = 1 -> "only" [] i = 1 -> "first"
                    [] i = Len(part) -> "last" [] OTHER -> "middle"
  IN  \E d \in 0 .. Len(text) - Len(part) : \A i \in DOMAIN part :
        part[i] = text[d + i] \/ <<part[i], text[d + i]>> \in Within[place(i)]

\* findMatchingVideo: the only video; else the first with the numbers; else
\* the first whose name the path contains; else the only movie.  0 if none.
FindMatchingVideo(sub, videos) ==
  LET path     == FlattenSeq(sub.dirs) \o sub.short.stem
      numbers  == <<Number(path, {"both"}, 1), Number(path, {"both"}, 2)>>
      numbered(v) == NoNumber \notin ToSet(numbers) /\ numbers = <<v.season, v.episode>>
      named(v) == /\ Front(v.file) # NoText
                  /\ ContainsText(Folded(Texts(path)), Folded(Front(v.file)))
      movie(v) == v.media = "movie"
      only(n)  == IF n = 1 THEN 1 ELSE 0
      matches == <<only(Len(videos)), SelectInSeq(videos, numbered),
                   SelectInSeq(videos, named),
                   SelectInSeq(videos, movie) * only(Len(SelectSeq(videos, movie)))>>
      found == SelectInSeq(matches, LAMBDA i : i # 0)
  IN  IF found = 0 THEN 0 ELSE matches[found]

\* A subtitle named like the video's file, or like the video, has no suffix;
\* otherwise the suffix is its name without the numbers in it.
SubtitleTrackSuffix(sub, v) ==
  LET stem == Texts(sub.short.stem)
      kept == {i \in DOMAIN stem : sub.short.stem[i].kind \notin Years \cup {"dash"}}
  IN  IF Folded(stem) = Folded(Front(v.file)) \/ stem = Front(v.name) THEN NoText
      ELSE Folded(Selected(stem, kept))

BuildSubtitleRecord(typ, sub, v) ==
  [key |-> sub.key, item |-> sub.item, type |-> typ, kind |-> "subtitle", media |-> v.media,
   season |-> v.season, episode |-> v.episode, root |-> v.root, folder |-> v.folder,
   extra |-> v.extra,
   name |-> Front(v.name) \o SubtitleTrackSuffix(sub, v) \o <<Extension(sub.short)>>]

ListedIn(c, s, kind) ==
  Selected(c[s], {i \in DOMAIN c[s] : c[s][i].cached /\ c[s][i].kind = kind})
Listed(s, kind) == ListedIn(catalog, s, kind)

\* Mutant of VideosOf: they are set aside before they are cased and labelled.
VideosAsListed(recs, item) ==
  LET videos == SelectSeq(Listed(src, "video"), LAMBDA f : f.item = item)
  IN  [i \in DOMAIN videos |-> BuildVideoRecord(src, videos[i])]

VideosOf(recs, item) == Selected(recs, {i \in DOMAIN recs : recs[i].item = item})

AddSubtitles(typ, recs, subs) ==
  LET match(sub) == FindMatchingVideo(sub, VideosOf(recs, sub.item))
      matched    == Selected(subs, {i \in DOMAIN subs : match(subs[i]) # 0})
      record(sub) == BuildSubtitleRecord(typ, sub, VideosOf(recs, sub.item)[match(sub)])
  IN  recs \o [n \in DOMAIN matched |-> record(matched[n])]

-----------------------------------------------------------------------------
(* vfs.Build *)

Optional(text) == IF text = NoText THEN <<>> ELSE <<text>>

\* RecordPath.  Only a show-level extra of a series has no season folder.
RecordPath(r) ==
  CASE r.media = "movie"  -> <<<<"movies">>, r.root>> \o Optional(r.folder) \o <<r.name>>
    [] r.media = "series" -> <<<<"series">>, r.root>> \o Optional(r.folder)
                               \o Optional(r.extra) \o <<r.name>>
    [] OTHER              -> <<<<"unknown">>, r.root, r.name>>

EmptyTree ==
  LET roots == {<<<<"movies">>>>, <<<<"series">>>>, <<<<"unknown">>>>}
  IN  [dirs |-> roots \cup {<<>>}, entries |-> [d \in roots |-> "dir"], files |-> <<>>]

\* m[k] = value for these keys of a map.
Put(m, keys, value) == [k \in keys \cup DOMAIN m |-> IF k \in keys THEN value ELSE m[k]]

\* Mutant of AddFile: the root of the record is not entered in its parent.
AddFileOnly(t, r) ==
  LET p == RecordPath(r)
  IN  [dirs |-> t.dirs \cup {Front(p)}, entries |-> Put(t.entries, {p}, "file"),
       files |-> Put(t.files, {p}, r.key)]

\* addFile: an entry for every directory above the file, and for the file.
AddFile(t, r) ==
  LET p     == RecordPath(r)
      above == Prefixes(Front(p)) \ {<<>>}
  IN  [dirs    |-> t.dirs \cup above,
       entries |-> Put(Put(t.entries, above, "dir"), {p}, "file"),
       files   |-> Put(t.files, {p}, r.key)]

Build(recs) == FoldLeft(AddFile, EmptyTree, recs)

-----------------------------------------------------------------------------
(* The steps of a refresh *)

\* The feeder hands the next video to a worker that is free.
Take(w) ==
  /\ phase = "collect" /\ jobs # <<>> /\ held[w] = Idle
  /\ held' = [held EXCEPT ![w] = Head(jobs)]
  /\ jobs' = Tail(jobs)
  /\ UNCHANGED <<catalog, phase, src, records, pending, used, all, tree, earlier>>

\* Workers classify what they hold, and deliver in any order.
Deliver(w) ==
  /\ phase = "collect" /\ held[w] # Idle
  /\ records' = Append(records, BuildVideoRecord(src, held[w]))
  /\ held' = [held EXCEPT ![w] = Idle]
  /\ UNCHANGED <<catalog, phase, src, jobs, pending, used, all, tree, earlier>>

\* Mutant of AllDelivered: the channel is closed with the last job taken.
AllTaken == jobs = <<>>

AllDelivered == jobs = <<>> /\ \A w \in Workers : held[w] = Idle

\* Mutant of Duplicates: off by one.
MoreThanTwo(recs) ==
  {g \in {GroupOf(recs, GroupKey(recs[i])) : i \in Grouped(recs)} : Cardinality(g) > 2}

\* The groups of two or more.
Duplicates(recs) ==
  {g \in {GroupOf(recs, GroupKey(recs[i])) : i \in Grouped(recs)} : Cardinality(g) >= 2}

\* All workers are done: the roots are cased and the groups are formed.
Collected ==
  /\ phase = "collect" /\ AllDelivered
  /\ records' = ApplyCanonicalRootCasing(records)
  /\ pending' = Duplicates(records')
  /\ used' = {OwnPath(records'[i]) : i \in Grouped(records')}
  /\ phase' = "label"
  /\ UNCHANGED <<catalog, src, jobs, held, all, tree, earlier>>

\* A group of two or more is labelled in the order of the keys; the groups come
\* in the order of a map.
LabelGroup(group) ==
  /\ phase = "label" /\ group \in pending
  /\ LET start == [recs |-> records, used |-> used, names |-> {}, labels |-> {}]
         g == FoldLeft(LabelOne, start, ByKey(records, group))
     IN  records' = g.recs /\ used' = g.used
  /\ pending' = pending \ {group}
  /\ UNCHANGED <<catalog, phase, src, jobs, held, all, tree, earlier>>

\* Mutant of Sorted: the records stay in the order of their delivery.
AsDelivered(recs) == recs

Sorted(recs) ==
  LET order == ByKey(recs, DOMAIN recs) IN [n \in DOMAIN order |-> recs[order[n]]]

\* The subtitles are matched, the records sorted, and the next source begins.
Finish ==
  /\ phase = "label" /\ pending = {}
  /\ all' = all \o Sorted(AddSubtitles(src, records, Listed(src, "subtitle")))
  /\ records' = <<>> /\ used' = {}
  /\ src' = IF src < NumSources THEN src + 1 ELSE 1
  /\ phase' = IF src < NumSources THEN "collect" ELSE "build"
  /\ jobs' = IF src < NumSources THEN Listed(src + 1, "video") ELSE <<>>
  /\ UNCHANGED <<catalog, held, pending, tree, earlier>>

BuildTree ==
  /\ phase = "build"
  /\ tree' = Build(all)
  /\ phase' = "built"
  /\ UNCHANGED <<catalog, src, jobs, held, records, pending, used, all, earlier>>

\* The next refresh, of the same library or of what has become of it.
Refresh ==
  /\ phase = "built"
  /\ catalog' \in Follows[catalog]
  /\ earlier' = (IF catalog' = catalog THEN all ELSE <<>>) /\ all' = <<>>
  /\ jobs' = ListedIn(catalog', 1, "video")
  /\ phase' = "collect"
  /\ UNCHANGED <<src, held, records, pending, used, tree>>

Init ==
  /\ catalog \in Catalogs
  /\ phase = "collect" /\ src = 1
  /\ jobs = Listed(1, "video")
  /\ held = [w \in Workers |-> Idle]
  /\ records = <<>> /\ pending = {} /\ used = {}
  /\ all = <<>> /\ tree = EmptyTree /\ earlier = <<>>

Next ==
  \/ \E w \in Workers : Take(w) \/ Deliver(w)
  \/ Collected
  \/ \E group \in pending : LabelGroup(group)
  \/ Finish \/ BuildTree \/ Refresh

Spec == Init /\ [][Next]_vars

-----------------------------------------------------------------------------
(* Properties *)

TypeOK ==
  /\ phase \in {"collect", "label", "build", "built"}
  /\ src \in Sources
  /\ \A w \in Workers : held[w] = Idle \/ held[w] \in ToSet(catalog[src])
  /\ \A i \in DOMAIN records : records[i].kind = "video"
  /\ phase # "collect" => jobs = <<>> /\ \A w \in Workers : held[w] = Idle
  /\ phase # "label" => pending = {} /\ used = {}

\* process.go:36-58: whatever the order of the workers, a refresh has one
\* record for each video of a cached item, none for any other, and at most
\* one for each of its subtitles.
EveryVideoOnce ==
  phase \in {"build", "built"} =>
    /\ \A i, j \in DOMAIN all : all[i].key = all[j].key => i = j
    /\ {r.key : r \in {q \in ToSet(all) : q.kind = "video"}} =
         UNION {{f.key : f \in ToSet(Listed(s, "video"))} : s \in Sources}
    /\ {r.key : r \in {q \in ToSet(all) : q.kind = "subtitle"}} \subseteq
         UNION {{f.key : f \in ToSet(Listed(s, "subtitle"))} : s \in Sources}

FileOf(r) == CHOOSE f \in ToSet(catalog[src]) : f.key = r.key

\* intelliseg.go:150-230: of the releases in the libraries, the videos, extras
\* and samples come to lie in the folder of the work they belong to, and no two
\* works share a folder, through casing and labels.  A file is given with its
\* work, if its names tell it.  That they do tell it to Classify is a matter of
\* the names (TitlesTellWorks in MediaRecordsProofs), and there are names, none
\* of which is in the libraries, that do not.
WorksKeepTheirFolder ==
  phase = "label" =>
    \A i, j \in DOMAIN records :
      LET works == <<FileOf(records[i]).work, FileOf(records[j]).work>>
      IN  NoText \notin ToSet(works) =>
            (works[1] = works[2] <=> /\ records[i].media = records[j].media
                                     /\ records[i].root = records[j].root)

\* canonical_case.go:9-10: among the videos of a source, folders of one media
\* type that differ only by case have become one folder, spelled as well as
\* any of them was.
OneSpellingPerTitle ==
  phase = "label" =>
    \A i, j \in DOMAIN records :
      records[i].media = records[j].media /\ Folded(records[i].root) = Folded(records[j].root)
        => records[i].root = records[j].root

\* canonical_case.go:14: the records are sorted by key first, so that two
\* refreshes of one library spell a folder alike, in whatever order the
\* workers delivered: a folder in use is not renamed by a refresh.
SpellingIsStable ==
  phase = "built" =>
    \A p \in ToSet(earlier), q \in ToSet(all) :
      p.key = q.key /\ p.kind = "video" => p.root = q.root

\* plex_naming.go:12-13: the labels tell the versions of one movie or episode
\* apart, and a file that is given one is not given the path of another video
\* of its source.
HasLabel(r) == r.name # Classify(FileOf(r)).name

LabelsKeepApart ==
  phase = "label" /\ pending = {} =>
    \A i, j \in Grouped(records) :
      i # j /\ HasLabel(records[i]) => OwnPath(records[i]) # OwnPath(records[j])

\* process.go:81-99: a subtitle lies beside a video of its own item, and its
\* name begins with the name which that video is shown under, label included.
SubtitleBesideVideo ==
  \A r \in ToSet(all) : r.kind = "subtitle" =>
    \E v \in ToSet(all) :
      /\ v.kind = "video" /\ v.item = r.item
      /\ Front(RecordPath(v)) = Front(RecordPath(r))
      /\ IsPrefix(Front(v.name), r.name)

\* tree.go:21-93: from the root, every record's path is found by listing
\* directory after directory, and opens a record that has this path; what is
\* listed as a directory can be listed, what is listed as a file can be opened,
\* and there is no directory that is not listed.
TreeShowsRecords ==
  phase = "built" =>
    /\ \A r \in ToSet(all) :
         /\ Prefixes(RecordPath(r)) \ {<<>>} \subseteq DOMAIN tree.entries
         /\ RecordPath(r) \in DOMAIN tree.files
         /\ \E q \in ToSet(all) :
              RecordPath(q) = RecordPath(r) /\ q.key = tree.files[RecordPath(r)]
    /\ tree.dirs \ {<<>>} \subseteq DOMAIN tree.entries
    /\ \A p \in DOMAIN tree.entries :
         /\ Front(p) \in tree.dirs
         /\ tree.entries[p] = "dir" => p \in tree.dirs
         /\ tree.entries[p] = "file" => p \in DOMAIN tree.files

\* tree.go:50-71: no file is a directory of another, which would be listed as
\* the one or the other after their order, and no movie or episode of a source
\* is hidden by another record of that source at its path.
NoFileIsDirectory(recs) ==
  \A r, q \in ToSet(recs) : RecordPath(r) \notin Prefixes(Front(RecordPath(q)))

NothingIsHidden ==
  phase = "built" =>
    /\ NoFileIsDirectory(all)
    /\ \A r, q \in ToSet(all) :
         r.kind = "video" /\ Groupable(r) /\ r.extra = NoText
             /\ q.key = tree.files[RecordPath(r)] =>
           q = r \/ q.type # r.type

\* README.md:64: the media servers are notified "only if the visible movies or
\* series view changed".  A refresh of an unchanged library has the records,
\* by key, of the refresh before.
Visible(recs) == {r \in ToSet(recs) : r.media \in {"movie", "series"}}

SameLibrarySameView ==
  phase = "built" /\ earlier # <<>> => Visible(all) = Visible(earlier)
=============================================================================
