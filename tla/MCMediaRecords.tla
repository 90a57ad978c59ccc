--------------------------- MODULE MCMediaRecords ---------------------------
(* MediaRecords, with the mount and the web pages, on small libraries: some  *)
(* made for one hazard each, and all pairs of releases of a few works.       *)
EXTENDS Mount, WebPages

Token(kind, text, n, canon) == [kind |-> kind, text |-> text, n |-> n, canon |-> canon]
Word(text) == Token("word", text, <<>>, "")
Dash == Token("dash", "-", <<>>, "")
Year(y) == Token("year", ToString(y), <<y>>, "")
InBrackets(y) == Token("year", "(" \o ToString(y) \o ")", <<y>>, "")
Season(s) == Token("season", "Season" \o ToString(s), <<s>>, "")
Both(s, e) == Token("both", "S" \o ToString(s) \o "E" \o ToString(e), <<s, e>>, "")
HD == Token("quality", "1080p", <<1>>, "1080p")
UHD == Token("quality", "4k", <<1>>, "4K")
BluRay == Token("quality", "bluray", <<2>>, "BluRay")
HDR == Token("tag", "hdr", <<14>>, "HDR")
TenBit == Token("tag", "10bit", <<0>>, "")
QxR == Token("bracket", "QxR", <<>>, "")
FinalCut == Token("edition", "Final Cut", <<6>>, "Final Cut")
Extended == Token("extended", "Extended", <<9>>, "Extended")
Sample == Token("sample", "Sample", <<>>, "")
Menu == Token("menu", "Main Menu", <<>>, "")
Featurettes == Token("folder", "Featurettes", <<>>, "Featurettes")

Name(stem) == [stem |-> stem, ext |-> <<>>]
Dotted(stem, last) == [stem |-> stem, ext |-> <<last>>]
File(stem, ext) == [stem |-> stem, ext |-> <<Word(ext)>>]

Video(key, item, name, dirs, stem, size, work) ==
  [key |-> key, item |-> item, cached |-> TRUE, kind |-> "video", name |-> name,
   short |-> File(stem, ".mkv"), dirs |-> dirs, size |-> size, work |-> work]
Subtitle(key, item, name, dirs, stem) ==
  [Video(key, item, name, dirs, stem, 1, NoText) EXCEPT !.kind = "subtitle",
     !.short = File(stem, ".srt")]
Feature(key, item, stem, fileStem) ==
  Video(key, item, Name(stem), <<stem>>, fileStem, MenuMax, NoText)
Uncached(f) == [f EXCEPT !.cached = FALSE]

Movie(key, title, tag) == Feature(key, ToString(key), <<Word("Film"), Year(2010)>>,
                                  <<Word(title), Year(2010), tag>>)
Episode(key, item, title, tag) ==
  Feature(key, item, <<Word("Pack")>>, <<Word(title), Both(1, 1), tag>>)

\* Three versions of a movie, spelled in three ways, with a subtitle, a copy of
\* it in the other source, and a file of unknown kind.
Movies ==
  <<<<Movie(3, "Film", HD), Subtitle(9, "3", Name(<<Word("Film")>>), <<>>, <<Word("en")>>),
      Movie(2, "FIlm", HD), Movie(1, "film", HD), Uncached(Movie(4, "Film", UHD))>>,
    <<Movie(5, "film", HD), Feature(6, "6", <<Word("show")>>, <<Word("x")>>)>>>>

\* A pack with two versions of an episode and one subtitle for it, the same
\* episode in another item, in other spellings and with its own subtitle, and
\* an item that is not cached.
Packs ==
  <<<<Episode(2, "p", "Show", HD), Episode(1, "p", "SHOW", UHD),
      Subtitle(8, "p", Name(<<Word("Pack")>>), <<>>, <<Both(1, 1), Word("en")>>),
      Episode(3, "q", "show", TenBit),
      Subtitle(9, "q", Name(<<Word("Pack")>>), <<>>, <<Word("show"), Both(1, 1), TenBit>>),
      Uncached(Episode(4, "u", "show", HD)),
      Uncached(Subtitle(7, "u", Name(<<Word("Pack")>>), <<>>, <<Word("show")>>))>>,
    <<Episode(5, "p", "show", HD), Subtitle(6, "p", Name(<<Word("Pack")>>), <<>>, <<Both(1, 1)>>)>>>>

\* Extras of a season: two alike, and one of no season with the name that the
\* label gives to the first of them.
Tv == Token("serial", "tv", <<>>, "")
Extra(key, season, stem, tag) ==
  Video(key, ToString(key), Name(<<Word("Show")>> \o season \o <<tag>>),
        <<<<Word("Show")>>, <<Tv>>, <<Featurettes>>>>, stem, MenuMax, NoText)
Extras ==
  <<<<Extra(1, <<Season(1)>>, <<Word("a")>>, HD), Extra(2, <<Season(1)>>, <<Word("a")>>, UHD),
      Extra(3, <<>>, <<Word("a"), Dash, HD>>, HD),
      Extra(4, <<Season(1)>>, <<Word("b")>>, TenBit)>>, <<>>>>

\* Two videos of which one is named like the beginning of the other, with a
\* subtitle for each.
Numbered ==
  LET named(n) == <<Word("show"), Word(n)>>
      video(key, n) == Video(key, "n", Name(<<Word("x")>>), <<>>, named(n), MenuMax, NoText)
      subtitle(key, n) == Subtitle(key, "n", Name(<<Word("x")>>), <<>>, named(n))
  IN  <<<<video(1, "1"), video(2, "10"), subtitle(3, "10"), subtitle(4, "1")>>, <<>>>>
WordParts == [first |-> {}, middle |-> {}, last |-> {<<"1", "10">>}, only |-> {<<"1", "10">>}]

\* The later source has the lower keys, and a movie and an extra of the other;
\* two extras of a movie have one name.
Trailer(key, title) ==
  Video(key, ToString(key), Name(<<Word(title), Year(2010)>>),
        <<<<Word(title)>>, <<Featurettes>>>>, <<Word("Making")>>, MenuMax, NoText)
Shared ==
  <<<<Movie(6, "film", TenBit), Trailer(5, "Film"), Trailer(4, "film")>>,
    <<Movie(3, "film", TenBit), Trailer(2, "film"), Trailer(1, "film")>>>>

\* Two spellings of equal merit, told apart by the first key alone.
Ties == <<<<Movie(2, "FilM", HD), Movie(1, "FIlm", UHD)>>, <<>>>>

-----------------------------------------------------------------------------
(* Works, and the ways their releases are called *)

Titled(t, y) == <<Word(t), Year(y)>>

\* The item with its file, and what else may lie in it.
Styles(work, t, y, cut) ==
  {Video(0, "", Name(<<Word(t), InBrackets(y)>> \o cut \o <<HD, BluRay, QxR>>), <<>>,
         Titled(t, y) \o <<HD, TenBit>>, MenuMax, work),
   Video(0, "", Dotted(Titled(t, y) \o cut, HDR), <<>>, Titled(t, y) \o <<Dash, Word("GRP")>>, 1, work),
   Video(0, "", Dotted(<<Word(t), HD>> \o cut, Year(y)), <<<<Word(t)>>>>, <<Sample, UHD>>,
         SampleMax - 1, work),
   Video(0, "", Name(Titled(t, y) \o cut), <<<<Word(t)>>, <<Featurettes>>>>, <<Word("Making")>>,
         MenuMax, work)}

YearTitled(work) ==
  {Video(0, "", Name(<<Year(1917), Year(2019), HD>>), <<>>, <<Year(1917), InBrackets(2019)>>,
         MenuMax, work),
   Video(0, "", Name(<<Year(1917), InBrackets(2019)>>), <<<<Word("x")>>>>, <<Menu>>, MenuMax - 1, work)}

Episodes(work) ==
  {Video(0, "", Name(<<Word("Show"), InBrackets(2011), Season(4), HD>>), <<>>,
         <<Word("Show"), InBrackets(2011), Dash, Both(4, 12), Dash, Word("Long"), Word("Time")>>,
         MenuMax, work),
   Video(0, "", Name(<<Word("show"), Token("range", "2011-2015", <<2011, 2015>>, "")>>), <<>>,
         <<Word("show"), Both(4, 12), UHD>>, MenuMax, work),
   Video(0, "", Name(<<Word("Show"), Year(2011), Season(4)>>), <<<<Word("x")>>, <<Featurettes>>>>,
         <<Season(4), Dash, Word("Making")>>, MenuMax, work)}

Releases ==
  Styles(<<"film">>, "Film", 2010, <<>>) \cup Styles(<<"film", "cut">>, "film", 2010, <<FinalCut>>)
    \cup Styles(<<"remake">>, "Film", 2020, <<>>) \cup Styles(<<"ext">>, "Film", 2010, <<Extended>>)
    \cup YearTitled(<<"1917">>) \cup Episodes(<<"show">>)

Made(release, key, item) == [release EXCEPT !.key = key, !.item = item]

\* Two releases, as items of their own.
Pairs == {<<<<Made(r, 2, "2"), Made(q, 1, "1")>>, <<>>>> : r, q \in Releases}

\* A movie is added again under another key, or deleted.
Once == <<<<Movie(1, "Seen", HD)>>, <<>>>>
Again == <<<<Movie(2, "Seen", HD)>>, <<>>>>
Gone == <<<<>>, <<>>>>
SeenPath ==
  LET base == <<"Seen", "(2010)">> IN <<<<"movies">>, base, base \o <<".mkv">>>>

SeenPaths == {SeenPath}
Changing == {Once, Again, Gone}
Libraries == {Movies, Packs, Extras, Numbered, Shared, Ties} \cup Pairs \cup Changing
Changes == [c \in Libraries |-> IF c \in Changing THEN Changing ELSE {c}]

Spelt(lower, capitals, small, score) ==
  [lower |-> lower, capitals |-> capitals, small |-> small, score |-> score]
Alphabet ==
  [w \in {"Film", "FIlm", "FilM", "film", "Show", "SHOW", "show"} |->
     CASE w = "Film" -> Spelt("film", TRUE, TRUE, 6)
       [] w \in {"FIlm", "FilM"} -> Spelt("film", TRUE, TRUE, 4)
       [] w = "film" -> Spelt("film", FALSE, TRUE, 0)
       [] w = "Show" -> Spelt("show", TRUE, TRUE, 6)
       [] w = "SHOW" -> Spelt("show", TRUE, FALSE, 0)
       [] w = "show" -> Spelt("show", FALSE, TRUE, 0)]
  @@ "{edition-Final Cut}" :> Spelt("{edition-final cut}", TRUE, TRUE, 15)
  @@ "{edition-Extended}" :> Spelt("{edition-extended}", TRUE, TRUE, 13)
  @@ "Seen" :> Spelt("seen", TRUE, TRUE, 6)
=============================================================================
