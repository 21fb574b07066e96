------------------------------- MODULE Places -------------------------------
(***************************************************************************)
(* How an element of a page is named when the page is read, and found      *)
(* again in its saved copy: the walks of the language checks and of the    *)
(* image check (src/audit/analyzer/semantic/extractor.py,                  *)
(* src/audit/extractor/html_images.py and svg_text.py), the place the      *)
(* server works out over the saved copy (extractor/places.py,              *)
(* src/audit/evaluation.py), and the element the Inspector then outlines   *)
(* (web/frontend/src/lib/highlightTargets.ts).                             *)
(*                                                                         *)
(* A document is the sequence of its elements, in document order.          *)
(* Positions count from 1 here.  An element's markup (html) stands for as  *)
(* much of it as the checks keep.                                          *)
(*                                                                         *)
(* OrdinalOfUsable is wrong on purpose: a slip of the definition it        *)
(* precedes, kept to show that the property notices it.                    *)
(***************************************************************************)
EXTENDS Integers, Sequences, FiniteSets, SequencesExt

CONSTANTS
  Walks,    \* the tags each language check reads, in the order of its selector list
  NoId      \* an element without an id attribute

Sc == DOMAIN Walks

IsList(s) == DOMAIN s = 1..Len(s) /\ Len(s) \in Nat

\* usable: the walk's check keeps the element (a link that leads somewhere, a
\* heading with text, a field a person fills in, audio, an outermost svg with
\* text); blank: its class attribute holds spaces only; urls: of an image.
IsElement(e) ==
  /\ DOMAIN e = {"tag", "html", "id", "hidden", "usable", "blank", "alt", "urls"}
  /\ {e.hidden, e.usable, e.blank} \subseteq BOOLEAN /\ IsList(e.urls)
IsDocument(d) == IsList(d) /\ \A i \in DOMAIN d : IsElement(d[i])

NotFound == [found |-> "missing"]
Found(i) == [found |-> "found", at |-> i]

-----------------------------------------------------------------------------
(* The walks *)

\* What is to be listed, in its order: before gives those before each.
InOrder(before) ==
  [n \in 1..Cardinality(DOMAIN before) |->
     CHOOSE i \in DOMAIN before : Cardinality(before[i]) = n - 1]
Ascending(S) == InOrder([i \in S |-> {j \in S : j < i}])

\* selectolax lists the matches of "h1, h2" by selector, not in document order,
\* and those inside a template or a noscript as well.
Rank(tags, tag) == CHOOSE k \in DOMAIN tags : tags[k] = tag
Tagged(d, tags) == {i \in DOMAIN d : d[i].tag \in ToSet(tags)}
Css(d, tags) ==
  InOrder([i \in Tagged(d, tags) |->
    {j \in Tagged(d, tags) :
       \/ Rank(tags, d[j].tag) < Rank(tags, d[i].tag)
       \/ Rank(tags, d[j].tag) = Rank(tags, d[i].tag) /\ j < i}])

Walk(c, d) == Css(d, Walks[c])

\* _stable_selector: by id, else by the ordinal of the walk.
Selector(e, k) == [tag |-> e.tag, id |-> e.id, ord |-> IF e.id = NoId THEN k ELSE 0]

\* What the elements ks of the walk w are called.
Called(d, w, ks) ==
  [j \in DOMAIN ks |->
     [of |-> w[ks[j]], selector |-> Selector(d[w[ks[j]]], ks[j]), html |-> d[w[ks[j]]].html]]

UsableIn(d, w) == Ascending({k \in DOMAIN w : d[w[k]].usable})

OrdinalOfUsable(d, w) ==
  LET usable == [k \in DOMAIN UsableIn(d, w) |-> w[UsableIn(d, w)[k]]]
  IN Called(d, usable, [k \in DOMAIN usable |-> k])

\* extract_links, extract_headings, ...: the usable elements, each named by its
\* ordinal among all of the walk w.
Extract(d, w) == Called(d, w, UsableIn(d, w))

\* A class of spaces only has no first word: IndexError.
ExtractRaises(c, d) ==
  \E i \in DOMAIN d : /\ d[i].tag \in ToSet(Walks[c]) /\ d[i].usable
                      /\ d[i].id = NoId /\ d[i].blank

\* extract_image_refs: every address of every image and source.
RefsAmong(d, w) ==
  LET S == UNION {{k} \X DOMAIN d[w[k]].urls : k \in DOMAIN w}
      all == InOrder([x \in S |-> {y \in S : y[1] < x[1] \/ (y[1] = x[1] /\ y[2] < x[2])}])
  IN [m \in DOMAIN all |-> [of |-> w[all[m][1]], candidate |-> {d[w[all[m][1]]].urls[all[m][2]]}]]
Refs(d) == RefsAmong(d, Css(d, <<"img", "source">>))

\* find_inline_svg_text.
Drawings(d) == Ascending({i \in DOMAIN d : d[i].tag = "svg" /\ d[i].usable})

\* process_page numbers the drawings after the references.
ImagesOf(refs, drawings) ==
  refs \o [n \in DOMAIN drawings |-> [of |-> drawings[n], candidate |-> {}]]
Occurring(d, all) == {[position |-> p, alt |-> d[all[p].of].alt, of |-> all[p].of] : p \in DOMAIN all}
Occurrences(d) == Occurring(d, ImagesOf(Refs(d), Drawings(d)))

-----------------------------------------------------------------------------
(* The server, over the saved copy d *)

\* The elements of a tag that a browser counts.
Live(d, tag) == Ascending({i \in DOMAIN d : d[i].tag = tag /\ ~d[i].hidden})

NoPlace == [tag |-> "none"]

\* Places.of.
PlaceAmong(live, tag, i) ==
  [tag |-> tag, total |-> Len(live), index |-> CHOOSE n \in DOMAIN live : live[n] = i]
PlaceOf(d, i) ==
  IF d[i].hidden THEN NoPlace ELSE PlaceAmong(Live(d, d[i].tag), d[i].tag, i)

\* locate_ordinals, over the walk w.
LocateOrdinal(selector, html, d, w) ==
  IF /\ selector.ord \in DOMAIN w
     /\ d[w[selector.ord]].tag = selector.tag /\ d[w[selector.ord]].html = html
  THEN PlaceOf(d, w[selector.ord]) ELSE NoPlace

NoLocator == [kind |-> "none"]
InCopyOnly == [kind |-> "hidden"]

\* _add_image_locators, with the images of the copy.
ImageLocator(o, d, all) ==
  IF o.position \notin DOMAIN all \/ d[all[o.position].of].alt # o.alt THEN NoLocator
  ELSE IF d[all[o.position].of].hidden THEN InCopyOnly
  ELSE [kind |-> d[all[o.position].of].tag, place |-> PlaceOf(d, all[o.position].of),
        alt |-> o.alt, candidate |-> all[o.position].candidate]

-----------------------------------------------------------------------------
(* The browser, showing the copy d *)

\* locateByPlace: not trusted when the document has another number of them.
AtPlace(place, live, d, Same(_)) ==
  IF Len(live) = place.total /\ Same(d[live[place.index]])
  THEN Found(live[place.index]) ELSE NotFound
ByPlace(place, html, d) ==
  IF place = NoPlace THEN NotFound
  ELSE AtPlace(place, Live(d, place.tag), d, LAMBDA e : e.html = html)

\* The one element with a property, if there is one only.
Only(S) ==
  IF S = {} THEN NotFound
  ELSE IF \E i \in S : S = {i} THEN Found(CHOOSE i \in S : TRUE) ELSE [found |-> "ambiguous"]

\* locateByLocator: a browser understands the selector by id, and no ordinal.
ByLocator(selector, html, d) ==
  IF selector.ord # 0 THEN NotFound
  ELSE Only({i \in ToSet(Live(d, selector.tag)) : d[i].id = selector.id /\ d[i].html = html})

\* markupMatches.
ByMarkup(selector, html, d) ==
  Only({i \in ToSet(Live(d, selector.tag)) : d[i].html = html})

\* locateTargets, for a finding of a language check: the first of the three
\* that finds one element.
FirstOf(byPlace, byLocator, byMarkup) ==
  IF byPlace.found = "found" THEN byPlace
  ELSE IF byLocator.found = "found" THEN byLocator ELSE byMarkup
Locate(c, selector, html, d) ==
  FirstOf(ByPlace(LocateOrdinal(selector, html, d, Walk(c, d)), html, d),
          ByLocator(selector, html, d), ByMarkup(selector, html, d))

\* locateImage.
AtLocator(l, d) ==
  IF l \in {NoLocator, InCopyOnly} THEN NotFound
  ELSE AtPlace(l.place, Live(d, l.kind), d,
               LAMBDA e : l.candidate \subseteq ToSet(e.urls) /\ e.alt = l.alt)
LocateImage(o, d) == AtLocator(ImageLocator(o, d, ImagesOf(Refs(d), Drawings(d))), d)
=============================================================================
