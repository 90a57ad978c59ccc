---------------------------- MODULE ReleaseNames ----------------------------
(***************************************************************************)
(* What the program reads in the names of a download: parseTorrentName     *)
(* (internal/media/torrent_name.go), Classify (intelliseg.go) and the      *)
(* technicalLabel of plex_naming.go.                                       *)
(*                                                                         *)
(* A text is a sequence of strings.  A name is [stem, ext], two sequences  *)
(* of tokens cut at the last dot, as filepath.Ext does; a token is         *)
(* [kind, text, n, canon], its kind telling which regular expressions find *)
(* it:                                                                     *)
(*   word, dash (one between spaces), bracket (a short group in brackets), *)
(*   year <<y>>, range <<from, to>>, both <<s, e>> (S01E02, 1x02),         *)
(*   season <<s>> (Season 1), short <<s>> (S01), episode <<e>> (E02),      *)
(*   serial (" episode ", "/tv/"), quality and tag (release noise, a       *)
(*   quality makes a movie of an unknown file; n is the rank in            *)
(*   tokenPatterns), edition and extended (n is the rank in                *)
(*   movieEditionAliases; "extended" is noise as well), sample, menu, and  *)
(*   folder (a directory of extras); canon is how the last seven are shown.*)
(* Brackets around other tokens are left out; a year that begins a name    *)
(* has none, and dots and underscores are the spaces they stand for.       *)
(***************************************************************************)
EXTENDS Integers, Sequences, SequencesExt, FiniteSets, FiniteSetsExt, TLC

CONSTANTS SampleMax, MenuMax  \* the sizes that a sample and a menu stay below

NoText == <<>>
NoNumber == -1
FirstKnown(numbers) ==
  LET i == SelectInSeq(numbers, LAMBDA n : n # NoNumber)
  IN  IF i = 0 THEN NoNumber ELSE numbers[i]

\* sort.Slice: the indices of a set in the order of their keys.
InOrder(indices, key) ==
  LET upTo(i) == {j \in indices : key[j] < key[i] \/ (key[j] = key[i] /\ j <= i)}
  IN  [n \in 1 .. Cardinality(indices) |-> CHOOSE i \in indices : Cardinality(upTo(i)) = n]

\* What a loop over a sequence picks out of it.
Selected(seq, indices) ==
  LET order == InOrder(indices, [i \in indices |-> i])
  IN  [n \in DOMAIN order |-> seq[order[n]]]

Texts(tokens) == [i \in DOMAIN tokens |-> tokens[i].text]
Whole(name) == name.stem \o name.ext
Extension(name) == IF name.ext = <<>> THEN "" ELSE Last(name.ext).text
SafePathName(text) == IF text = NoText THEN <<"Unknown">> ELSE text
\* A file as it is called: the last string of its name is the extension.
FileName(name) == SafePathName(Texts(name.stem)) \o <<Extension(name)>>
FirstNonEmpty(a, b) == IF a # NoText THEN a ELSE b
NameOr(a, b) == IF Whole(a) # <<>> THEN a ELSE b

Has(tokens, kinds) == \E i \in DOMAIN tokens : tokens[i].kind \in kinds

\* The k-th number of the first token of one of the kinds.
Number(tokens, kinds, k) ==
  LET i == SelectInSeq(tokens, LAMBDA t : t.kind \in kinds)
  IN  IF i = 0 THEN NoNumber ELSE tokens[i].n[k]

-----------------------------------------------------------------------------
(* parseTorrentName *)

Years == {"year", "range"}
Noise == Years \cup {"both", "season", "short", "episode", "quality", "tag", "extended"}

\* markSpans and trailingNoiseSpans: the release noise, a bracket that ends
\* the name, and the group behind a last dash.
Marked(tokens, i) ==
  LET last == Len(tokens)
  IN  \/ tokens[i].kind \in Noise
      \/ tokens[i].kind = "bracket" /\ i = last
      \/ /\ i >= last - 1 /\ last > 2
         /\ tokens[last - 1].kind = "dash" /\ tokens[last].kind \in {"word", "sample"}

\* firstUnmatchedTitle: the first run that is more than dashes, cleaned of the
\* dashes at its ends.
FirstUnmatchedTitle(tokens) ==
  LET plain == {i \in DOMAIN tokens : ~Marked(tokens, i) /\ tokens[i].kind # "dash"}
      run   == {j \in plain : \A k \in Min(plain) .. j : ~Marked(tokens, k)}
  IN  IF plain = {} THEN NoText ELSE Texts(SubSeq(tokens, Min(plain), Max(run)))

\* A range counts by its first year; otherwise the last year is the release's.
ReleaseYear(tokens) ==
  FirstKnown(<<Number(tokens, {"range"}, 1), Number(Reverse(tokens), {"year"}, 1)>>)

ParseSeasonEpisode(tokens) ==
  IF Has(tokens, {"both"})
  THEN <<Number(tokens, {"both"}, 1), Number(tokens, {"both"}, 2)>>
  ELSE <<Number(tokens, {"season", "short"}, 1), Number(tokens, {"episode"}, 1)>>

\* A year that begins the name is its title if there is no other, or if there
\* is another year; in the first case the release has no year.
ParseTorrentName(name) ==
  LET tokens == name.stem
      title  == FirstUnmatchedTitle(tokens)
      many   == Has(tokens, {"range"}) \/ Len(SelectSeq(tokens, LAMBDA t : t.kind = "year")) > 1
      called == /\ tokens # <<>> /\ tokens[1].kind \in Years
                /\ title = NoText \/ many
  IN  [title   |-> IF called THEN <<ToString(tokens[1].n[1])>> ELSE title,
       year    |-> IF called /\ ~many THEN NoNumber ELSE ReleaseYear(tokens),
       season  |-> ParseSeasonEpisode(tokens)[1],
       episode |-> ParseSeasonEpisode(tokens)[2]]

\* guessTitle, for a name without a title: less is taken away from it.
GuessTitle(name) ==
  LET removed == {"both", "season", "year", "quality"}
      left == Selected(name.stem, {i \in DOMAIN name.stem : name.stem[i].kind \notin removed})
  IN  SafePathName([i \in DOMAIN left |-> IF left[i].kind = "range" THEN "-" ELSE left[i].text])

-----------------------------------------------------------------------------
(* Classify *)

\* The names of the item, of the file, and of the directories of its path.
Combined(f) == Whole(f.name) \o Whole(f.short) \o FlattenSeq(f.dirs)

\* The first pattern that matches gives the numbers.
ExtractSeriesMarkers(text) ==
  CASE Has(text, {"both"})   -> <<Number(text, {"both"}, 1), Number(text, {"both"}, 2)>>
    [] Has(text, {"season"}) -> <<Number(text, {"season"}, 1), NoNumber>>
    [] OTHER                 -> <<NoNumber, Number(text, {"episode"}, 1)>>

IsSmallSample(f) ==
  f.size < SampleMax /\ f.short.stem # <<>> /\ f.short.stem[1].kind = "sample"
IsSmallMainMenu(f) ==
  f.size < MenuMax /\ Len(f.short.stem) = 1 /\ f.short.stem[1].kind = "menu"

\* detectMovieExtraFolder: the first directory of extras, the item's own and
\* the file left out.
ExtraFolder(f) ==
  LET i == SelectInSubSeq(f.dirs, 2, Len(f.dirs),
                          LAMBDA d : Len(d) = 1 /\ d[1].kind = "folder")
  IN  IF i = 0 THEN NoText ELSE <<f.dirs[i][1].canon>>

\* detectMovieEdition: the first of the aliases that is in the text.
MovieEdition(text) ==
  LET found == {t \in ToSet(text) : t.kind \in {"edition", "extended"}}
  IN  IF found = {} THEN NoText
      ELSE <<(CHOOSE t \in found : \A u \in found : t.n[1] <= u.n[1]).canon>>

YearText(year) == IF year = NoNumber THEN <<>> ELSE <<"(" \o ToString(year) \o ")">>
RootFolder(title, year) == title \o YearText(year)
MovieBase(title, year, edition) ==
  RootFolder(title, year) \o
    (IF edition = NoText THEN <<>> ELSE <<"{edition-" \o edition[1] \o "}">>)
SeasonFolder(season) == <<"Season", ToString(season)>>

SeriesSuffix(season, episode) ==
  LET part(letter, n) == IF n = NoNumber THEN "" ELSE letter \o ToString(n)
  IN  <<"-", IF season = NoNumber /\ episode = NoNumber THEN "Episode"
             ELSE part("s", season) \o part("e", episode)>>

\* cleanExtraFilename: without the season it begins with.
ExtraFileName(f) ==
  LET stem == f.short.stem
      kept == IF stem # <<>> /\ stem[1].kind = "season" THEN Tail(stem) ELSE stem
      said == {i \in DOMAIN kept : kept[i].kind # "dash"}
  IN  SafePathName(IF said = {} THEN NoText ELSE Texts(SubSeq(kept, Min(said), Max(said))))
        \o <<Extension(f.short)>>

\* Mutant of Titles: a file in a directory of extras goes by its own title.
OwnTitles(f) ==
  LET own == NameOr(f.short, f.name)
      title == FirstNonEmpty(ParseTorrentName(own).title, GuessTitle(own))
  IN  <<title, title>>

\* The title of the file, and of its item.
Titles(f) ==
  LET titled(name) == FirstNonEmpty(ParseTorrentName(name).title, GuessTitle(name))
  IN  <<titled(NameOr(f.short, f.name)), titled(NameOr(f.name, f.short))>>

\* The item's year comes before the file's, and that before any other.
YearOf(f) ==
  FirstKnown(<<ParseTorrentName(NameOr(f.name, f.short)).year,
               ParseTorrentName(NameOr(f.short, f.name)).year,
               Number(Combined(f), Years, 1)>>)

\* The place of a video, given what was read in its names.
Placed(f, text, parsed, titles, year) ==
  LET marked   == ExtractSeriesMarkers(text)
      season   == FirstKnown(<<parsed.season, marked[1]>>)
      episode  == FirstKnown(<<parsed.episode, marked[2]>>)
      isSeries == \/ Has(text, {"both", "season", "episode", "serial"})
                  \/ parsed.season # NoNumber
      small    == IsSmallSample(f) \/ IsSmallMainMenu(f)
      beside   == IF small THEN <<"Other">> ELSE ExtraFolder(f)
      title    == titles[IF beside = NoText THEN 1 ELSE 2]
      base     == MovieBase(title, year, MovieEdition(text))
      place(media, root, folder, extra, name) ==
        [media |-> media, root |-> root, folder |-> folder, extra |-> extra, name |-> name,
         season |-> IF media = "series" THEN season ELSE NoNumber,
         episode |-> IF media = "series" /\ beside = NoText THEN episode ELSE NoNumber]
      seasonOr(n) == SeasonFolder(FirstKnown(<<season, n>>))
  IN  CASE beside # NoText /\ isSeries ->
             place("series", RootFolder(title, year),
                   IF small /\ season = NoNumber THEN NoText ELSE seasonOr(1), beside,
                   IF small THEN FileName(f.short) ELSE ExtraFileName(f))
        [] beside # NoText /\ ~isSeries ->
             place("movie", base, beside, NoText, FileName(f.short))
        [] beside = NoText /\ isSeries ->
             place("series", RootFolder(title, year), seasonOr(1), NoText,
                   RootFolder(title, year) \o SeriesSuffix(season, episode)
                     \o <<Extension(f.short)>>)
        [] beside = NoText /\ ~isSeries /\ Has(text, Years \cup {"quality"}) ->
             place("movie", base, NoText, NoText, base \o <<Extension(f.short)>>)
        [] OTHER ->
             place("unknown", SafePathName(FirstNonEmpty(Texts(Whole(f.name)), title)),
                   NoText, NoText, FileName(f.short))

Classify(f) ==
  Placed(f, Combined(f), ParseTorrentName(NameOr(f.short, f.name)), Titles(f), YearOf(f))

-----------------------------------------------------------------------------
(* technicalLabel *)

\* The first token of each pattern, in the order of the patterns.
TechnicalLabel(text) ==
  LET ranked == {i \in DOMAIN text : text[i].kind \in {"quality", "tag"} /\ text[i].n[1] > 0}
      first  == {i \in ranked : \A j \in ranked : j < i => text[j].n[1] # text[i].n[1]}
      order  == InOrder(first, [i \in first |-> text[i].n[1]])
  IN  [k \in DOMAIN order |-> text[order[k]].canon]
=============================================================================
