------------------------------- MODULE MCParts -------------------------------
(***************************************************************************)
(* Small instances of the parts that do not interact with one another, for *)
(* TLC, side by side: each behaviour moves one of them, and the others     *)
(* stay in one of their initial states.                                    *)
(***************************************************************************)
EXTENDS Inspector, Review, Coverage, Probe, PageIndex, Erasure, Pace,
        Visits, LiveChecks, Searching, Images, Language, Report, Settings

\* A menu with an item and a dialog in it, a row that shows the same item, another
\* row, a button that shows one more in the dialog, and a frame.
PageControls == {"menu", "item", "dialog", "ok", "more", "row1", "row2", "delete", "in frame"}
PageReveals == [c \in PageControls |->
                 CASE c = "menu" -> {"item", "dialog"} [] c = "row1" -> {"item"}
                   [] c = "dialog" -> {"ok", "delete"} [] c = "ok" -> {"more"} [] OTHER -> {}]
DialogControls == [d \in {"dialog"} |-> {"ok", "delete", "more"}]
ControlShape == [c \in PageControls |-> IF c \in {"row1", "row2"} THEN "row" ELSE c]

\* Another page without a control, or with one of two that was too deep.
RowsOfOthers ==
  {[found |-> 0, operated |-> 0, blocked |-> 0, limits |-> {}],
   [found |-> 2, operated |-> 1, blocked |-> 0, limits |-> {"depth"}]}

\* One finding of axe stands for those of all engines.
FindingsOf == [e \in OtherEngine |-> {}]

\* Four things to do: for each way an alternative text can be, with a rule for
\* a classification before the one for any.
HintRules == <<[label |-> "essential", adequacy |-> "missing", hint |-> "a"],
               [label |-> "*", adequacy |-> "missing", hint |-> "b"],
               [label |-> "essential", adequacy |-> "adequate", hint |-> "c"],
               [label |-> "*", adequacy |-> "adequate", hint |-> "d"]>>

\* One issue that a rule is sure of and one lead, which has no rule card.
LevelOf == [p \in Problem |-> IF p = "axe" THEN "AA" ELSE NoLevel]
WeightOf == [p \in Problem |-> IF p = "axe" THEN 3 ELSE 2]
EffortOf == [p \in Problem |-> IF p = "axe" THEN "short" ELSE Unrated]
OwnerOf == [p \in Problem |-> IF p = "axe" THEN "dev" ELSE "editor"]
HinderedBy == [p \in Problem |-> IF p = "axe" THEN {"vision", "motor"} ELSE {"vision"}]
TitleOf == [p \in Problem |-> "title"]

\* A host named in two ways, one under it, and one of its own.
ApexOf == [h \in Host |-> IF h = "www" THEN "site" ELSE h]
DomainOf == [h \in Host |-> IF h \in {"www", "sub"} THEN "site" ELSE h]
At(path, slash) == [host |-> "site", plainCase |-> TRUE, port |-> "none", path |-> path,
                    slash |-> slash, query |-> <<>>, fragment |-> "none"]
\* The page that a scan starts from, and one beside its folder.
HomePage == At(<<"a">>, TRUE)
Outside == At(<<"f.html">>, FALSE)
LocalPages == {HomePage, Outside}
Links == [q \in LocalPages |-> LocalPages \ {q}]
Leaving == {Outside}
Bodies == [q \in LocalPages |->
            [status |-> 200, html |-> TRUE, empty |-> FALSE, sparse |-> q = HomePage,
             refresh |-> FALSE, signal |-> FALSE, mountEmpty |-> FALSE, marker |-> FALSE]]
\* A form as it comes, one with all of it changed, and a command line.
Plain == [engine |-> {"axe"}, static |-> FALSE, skip |-> {}, version |-> "2.1", wide |-> TRUE,
          ignoreRobots |-> TRUE, all |-> FALSE, limit |-> Missing]
Forms == {Plain, [Plain EXCEPT !.version = "2.2", !.wide = FALSE, !.engine = {"alfa"},
                               !.static = TRUE, !.ignoreRobots = FALSE, !.limit = 1]}
LoginForms == {Plain}
CommandLines == {[Build(Plain) EXCEPT !.blocks = FALSE, !.methods = {"axe", "keyboard"}]}

\* Ways of Tab and of Shift+Tab, with traps and a frame among them.
Ways(a, b, c) == [s \in Stop |-> CASE s = "e" -> a [] s = "frame" -> b [] OTHER -> c]
SomeHops == {[tab |-> Ways(a, "body", "e"), back |-> Ways(b, "e", "frame")] :
               a \in {"e", "frame"}, b \in {"e", "body"}}
\* In each window a check finds another element than in the one it is for.
In(e, r) == {w \in Window : (w = Meant[r]) <=> (e = "e")}
Layout == [e \in Focusable |->
            [disabled |-> FALSE, tabIndex |-> IF e = "e" THEN 1 ELSE 0, overlay |-> TRUE, simple |-> TRUE,
             leaf |-> TRUE, text |-> TRUE, hides |-> TRUE, ellipsis |-> FALSE,
             covered |-> In(e, "obscured"), wide |-> In(e, "reflow"),
             tight |-> {w \in Window : (w \in {Meant["zoom"], Meant["spacing"]}) <=> (e = "e")}]]
AxeSights == [w \in Window |-> IF w = Meant["axe"] THEN {"e"} ELSE {"frame"}]
Film == [name |-> "film", kind |-> "video", control |-> FALSE, advances |-> TRUE, long |-> TRUE,
         visible |-> TRUE, audible |-> FALSE]
Plays == {Film}

\* A page with twins, headings out of the order of their levels, an element that
\* no browser shows, and two images; and what may have become of it.
El(tag, html) == [tag |-> tag, html |-> html, id |-> NoId, hidden |-> FALSE, usable |-> TRUE,
                  blank |-> FALSE, alt |-> "", urls |-> <<>>]
Img(html, alt, urls) == [El("img", html) EXCEPT !.alt = alt, !.urls = urls]
Anchor == [El("a", "name") EXCEPT !.usable = FALSE]
FirstPage == <<El("h2", "x"), Anchor, El("h1", "x"), El("a", "go"),
               [El("a", "go") EXCEPT !.hidden = TRUE], Img("p", "p", <<"u", "v">>), El("svg", "s")>>
LaterPage == <<Anchor, El("a", "go"), El("h1", "x"), [El("a", "go") EXCEPT !.id = "i"],
               Img("q", "", <<"w">>), Img("p", "p", <<"u">>)>>
BrokenPage == <<[El("a", "go") EXCEPT !.blank = TRUE], El("h2", "x")>>
Texts == {FirstPage, LaterPage, BrokenPage}
WalksOf == [c \in {"2.4.4", "2.4.6"} |-> IF c = "2.4.4" THEN <<"a">> ELSE <<"h1", "h2">>]
NamedAs == [e \in Focusable |-> e]

VARIABLE part  \* the one that moves

Parts == {"evidence", "review", "comparison", "probe", "index", "erasure", "pace",
          "visits", "checks", "search", "images", "language", "issues", "settings"}

(* One initial state of each part that has several. *)
ComparisonRests ==
  /\ method = CHOOSE m \in Counted : TRUE
  /\ enabled = {}
  /\ todo = SitePage
ProbeRests == ~captured.missed
ErasureRests ==
  /\ stopped = {}
  /\ vault = [p \in Process |-> NoKms]
  /\ keptAt = [s \in PScan |-> CHOOSE k \in Kms : TRUE]
LiveChecksRests == hop = CHOOSE h \in Hop : TRUE
SearchRests ==
  /\ config = [limit |-> 1, pages |-> 1, next |-> "none"]
  /\ results = [h \in Hit |-> [on |-> 1, kind |-> "refused", opens |-> {}]]
SettingsRests ==
  /\ rows = <<>>
  /\ robots = "rules"
(* Some of those that tell the most, where there are many. *)
ComparisonStarts == 2 \in enabled /\ todo = {"p1"}

Init ==
  /\ part \in Parts
  /\ EvidenceInit
  /\ ReviewInit
  /\ ComparisonInit /\ IF part = "comparison" THEN ComparisonStarts ELSE ComparisonRests
  /\ ProbeInit /\ (part = "probe" \/ ProbeRests)
  /\ IndexInit
  /\ ErasureInit /\ (part = "erasure" \/ ErasureRests)
  /\ PaceInit
  /\ VisitsInit
  /\ LiveChecksInit /\ (part = "checks" \/ LiveChecksRests)
  /\ SearchInit /\ (part = "search" \/ SearchRests)
  /\ ImagesInit
  /\ LanguageInit
  /\ IssuesInit
  /\ SettingsInit /\ (part = "settings" \/ SettingsRests)

Next ==
  /\ UNCHANGED part
  /\ IF part = "evidence" THEN EvidenceNext ELSE UNCHANGED evidenceVars
  /\ IF part = "review" THEN ReviewNext ELSE UNCHANGED reviewVars
  /\ IF part = "comparison" THEN ComparisonNext ELSE UNCHANGED comparisonVars
  /\ IF part = "probe" THEN ProbeNext ELSE UNCHANGED probeVars
  /\ IF part = "index" THEN IndexNext ELSE UNCHANGED indexVars
  /\ IF part = "erasure" THEN ErasureNext ELSE UNCHANGED erasureVars
  /\ IF part = "pace" THEN PaceNext ELSE UNCHANGED paceVars
  /\ IF part = "visits" THEN VisitsNext ELSE UNCHANGED visitVars
  /\ IF part = "checks" THEN LiveChecksNext ELSE UNCHANGED checkVars
  /\ IF part = "search" THEN SearchNext ELSE UNCHANGED searchVars
  /\ IF part = "images" THEN ImagesNext ELSE UNCHANGED imageVars
  /\ IF part = "language" THEN LanguageNext ELSE UNCHANGED languageVars
  /\ IF part = "issues" THEN IssuesNext ELSE UNCHANGED issuesVars
  /\ IF part = "settings" THEN SettingsNext ELSE UNCHANGED settingsVars

vars == <<part, evidenceVars, reviewVars, comparisonVars, probeVars, indexVars, erasureVars,
          paceVars, visitVars, checkVars, searchVars, imageVars, languageVars, issuesVars, settingsVars>>

Spec == Init /\ [][Next]_vars
-----------------------------------------------------------------------------
(* What a proof takes of the page, here of this one.                       *)

ASSUME PageAssumption == DialogsHold
=============================================================================
