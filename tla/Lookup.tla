-------------------------------- MODULE Lookup --------------------------------
(***************************************************************************)
(* bibstd::core::core_bibleserver_lookup (src/bibstd/core/                 *)
(* core_bibleserver_lookup.cpp): the pages of a range of verses, opened    *)
(* one after the other in the browser, by the names of the translations.   *)
(***************************************************************************)
EXTENDS BibleTable, ConstBimap, SequencesExt

CONSTANT TranslationNames   \* pairs of a translation and its name, each once

ASSUME BimapAssumption == ~Duplicates(TranslationNames)

\* The names of the translations one after the other, but for those that have none.
Names(translations) ==
  FlattenSeq([i \in DOMAIN translations |->
    IF contains(TranslationNames, translations[i]) THEN <<at(TranslationNames, translations[i])>> ELSE << >>])

Page(names, book, chapter, first, last) ==
  [names |-> names, book |-> book, chapter |-> chapter, verses |-> first .. last]

\* Variant of Pages: the last chapter is opened to its end.
PagesWholeChapters(range, names) ==
  LET begin == range.from  end == range.to
  IN  [n \in 1 .. end.chapter - begin.chapter + 1 |->
         LET c == begin.chapter + n - 1
         IN  Page(names, begin.book, c, IF n = 1 THEN begin.verse ELSE 1, verse_count(begin.book, c))]

\* One page for each chapter; of a range over several books only its first verse.
Pages(range, names) ==
  LET begin == range.from  end == range.to
  IN  IF begin.book # end.book
        THEN <<Page(names, begin.book, begin.chapter, begin.verse, begin.verse)>>
      ELSE IF begin.chapter # end.chapter
        THEN [n \in 1 .. end.chapter - begin.chapter + 1 |->
                LET c == begin.chapter + n - 1
                IN  Page(names, begin.book, c,
                         IF c = begin.chapter THEN begin.verse ELSE 1,
                         IF c = end.chapter THEN end.verse ELSE verse_count(begin.book, c))]
      ELSE <<Page(names, begin.book, begin.chapter, begin.verse, end.verse)>>

\* open_browser::open: the shell fails, or the browser takes a second, and is ended.
Outcomes == {"opened", "failed", "timeout"}
Succeeds(outcome) == outcome = "opened"

\* The first page the browser fails on is the last one that is tried; outcome tells
\* what becomes of each of them.
open(range, translations, outcome) ==
  LET pages == Pages(range, Names(translations))
      failed == SelectInSeq([i \in DOMAIN pages |-> outcome[i]], LAMBDA o : ~Succeeds(o))
  IN  IF translations = << >> THEN [success |-> FALSE, tried |-> << >>]
      ELSE IF failed = 0 THEN [success |-> TRUE, tried |-> pages]
      ELSE [success |-> FALSE, tried |-> SubSeq(pages, 1, failed)]

-----------------------------------------------------------------------------
\* The verses of a page, and those a range names.
Shown(page) == {<<page.book, page.chapter, v>> : v \in page.verses}
Named(range) == {p \in Places : ~Before(p, Place(range.from)) /\ ~Before(Place(range.to), p)}

\* A page is asked for in the translations that have a name, each of them in its turn: the
\* name of a translation stands behind those of as many others as come before it.
InTranslations(names, translations) ==
  LET entries(i) == {k \in DOMAIN TranslationNames : TranslationNames[k][1] = translations[i]}
      known == {i \in DOMAIN translations : entries(i) # {}}
      turn(i) == Cardinality({j \in known : j <= i})
  IN  /\ Len(names) = Cardinality(known)
      /\ \A i \in known : \E k \in entries(i) : names[turn(i)] = TranslationNames[k][2]
=============================================================================
