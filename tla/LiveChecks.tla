----------------------------- MODULE LiveChecks -----------------------------
(***************************************************************************)
(* The checks of one page in a live browser tab: axe, the keyboard walk    *)
(* (src/audit/analyzer/keyboard/probe.py), the focus, visual and           *)
(* responsive probes (analyzer/focus, visual, responsive) and the pictures *)
(* of what they found, in the order of JsFetcher.fetch (src/audit/crawler/ *)
(* js_fetcher.py).                                                         *)
(*                                                                         *)
(* The probes share the page: they move its focus, resize its window and   *)
(* add a style sheet to it.  A signed-in scan keeps the tab for its next   *)
(* page (TabKept).  Any script may fail on the page, and the tab may go.   *)
(* Probe models the clicks of the interaction probe, Visits the workers.   *)
(*                                                                         *)
(* SpacingStays is wrong on purpose: a slip of the definition it precedes, *)
(* kept to show that the property notices it.                              *)
(***************************************************************************)
EXTENDS Integers, FiniteSets

CONSTANTS
  Focusable, \* what can be focused on a page
  Outer,     \* those whose inside is not seen: frames and closed components
  Nowhere,   \* document.body
  Document,  \* a finding about no element
  Hop,       \* the ways Tab and Shift+Tab may go on a page
  Looks,     \* each element: how it is laid out in a window, with the sheet or not
  AxeFinds,  \* what axe finds in a window, with the sheet or not
  Overflows, \* the widths a page is too wide for
  Media,     \* what plays on the page by itself
  Reordered, \* the answers of the vision model
  Named,     \* the selector of an element, which others may have as well
  TabKept, Stuck, MaxFocusable, MaxOffenders, MaxPictures, MaxLoads

Stop == Focusable \cup {Nowhere}
NoStop == "none"
Wide == 1440
View == {320, 640, Wide}
Window == View \X BOOLEAN
Rule == {"axe", "obscured", "tabindex", "reflow", "zoom", "spacing"}
Look == [disabled : BOOLEAN, tabIndex : {-1, 0, 1}, overlay : BOOLEAN, simple : BOOLEAN, leaf : BOOLEAN,
         text : BOOLEAN, hides : BOOLEAN, ellipsis : BOOLEAN,
         covered : SUBSET Window, wide : SUBSET Window, tight : SUBSET Window]

ASSUME LiveChecksAssumption ==
  /\ Outer \subseteq Focusable /\ Nowhere \notin Focusable /\ IsFiniteSet(Focusable)
  /\ Hop \subseteq [tab : [Stop -> Stop], back : [Stop -> Stop]]
  /\ Looks \in [Focusable -> Look] /\ AxeFinds \in [Window -> SUBSET Focusable] /\ Overflows \subseteq View
  /\ Reordered \subseteq BOOLEAN /\ TabKept \in BOOLEAN /\ DOMAIN Named = Focusable
  /\ {Stuck, MaxFocusable, MaxOffenders, MaxPictures, MaxLoads} \subseteq Nat
  /\ Stuck > 0 /\ NoStop \notin Stop

VARIABLES
  hop,      \* how the keys move the focus on the page in the tab
  step,     \* what is done next
  view,     \* the window's width
  sheet,    \* whether the spacing style sheet is in the page
  gone,     \* whether the tab is
  focus,    \* document.activeElement
  walk,     \* the keyboard walk
  noted,    \* the findings so far
  pictures, \* what was photographed, and in which window
  loads

checkVars == <<hop, step, view, sheet, gone, focus, walk, noted, pictures, loads>>
onPage == <<hop, view, sheet, gone, pictures, loads>>

NoWalk == [from |-> Nowhere, presses |-> 0, last |-> NoStop, stuck |-> 0, backs |-> 0, cut |-> FALSE]
Step == {"away", "axe", "keyboard", "tab", "back", "focus", "visual", "interaction", "reflow",
         "zoom", "inject", "spacing", "restore", "pictures"}

LiveChecksTypeOK ==
  /\ hop \in Hop /\ step \in Step /\ view \in View /\ sheet \in BOOLEAN /\ gone \in BOOLEAN
  /\ focus \in Stop /\ loads \in 0..MaxLoads
  /\ walk \in [from : Stop, presses : Nat, last : Stop \cup {NoStop}, stuck : 0..Stuck,
               backs : 0..Stuck, cut : BOOLEAN]

LiveChecksInit ==
  /\ hop \in Hop /\ step = "away" /\ view = Wide /\ sheet = FALSE /\ gone = FALSE
  /\ focus = Nowhere /\ walk = NoWalk /\ noted = {} /\ pictures = {} /\ loads = 0

\* _OBSCURED_JS: what has the focus lies under something fixed or sticky.
Obscured(w) == {e \in Focusable : ~Looks[e].disabled /\ Looks[e].tabIndex >= 0
                                  /\ w \in Looks[e].covered /\ Looks[e].overlay}
\* _POSITIVE_TABINDEX_JS
Numbered == {e \in Focusable : Looks[e].tabIndex > 0}
\* _CLIPPED_TEXT_JS: a leaf cuts its text off, and not on purpose.
Clipped(w) == {e \in Focusable : Looks[e].leaf /\ Looks[e].text /\ Looks[e].hides
                                 /\ ~Looks[e].ellipsis /\ w \in Looks[e].tight}
\* _REFLOW_JS: wider than the window, and no wrapper of much.
TooWide(w) == {e \in Focusable : w \in Looks[e].wide /\ Looks[e].simple}
\* What a check of the rule sees in a window.
Shows(rule, w) ==
  CASE rule = "axe" -> AxeFinds[w] [] rule = "obscured" -> Obscured(w) [] rule = "tabindex" -> Numbered
    [] rule = "reflow" -> TooWide(w) [] OTHER -> Clipped(w)
Seen(rule) == Shows(rule, <<view, sheet>>)
\* Findings are told apart by their selectors (seen, target_hash).
Findings(rule, S) == {[rule |-> rule, on |-> Named[e]] : e \in S}
\* No more than the first few in the document are kept.
Few(S) == {T \in SUBSET S : Cardinality(T) = IF Cardinality(S) > MaxOffenders THEN MaxOffenders
                                             ELSE Cardinality(S)}

\* A page with an error status is not checked.  A tab of its own is new for
\* each fetch; a page may put the focus somewhere.
LoadNext ==
  /\ step = "away" /\ loads < MaxLoads /\ (TabKept => ~gone)
  /\ loads' = loads + 1 /\ step' \in {"axe", "away"} /\ focus' \in Stop
  /\ view' = IF TabKept THEN view ELSE Wide
  /\ sheet' = FALSE /\ gone' = FALSE /\ walk' = NoWalk /\ noted' = {} /\ pictures' = {}
  /\ UNCHANGED hop

\* AxeAnalyzer.run finds nothing where it fails.
RunAxe ==
  /\ step = "axe" /\ step' = "keyboard"
  /\ noted' \in (IF gone THEN {} ELSE {Findings("axe", Seen("axe"))}) \cup {{}}
  /\ UNCHANGED <<onPage, focus, walk>>

-----------------------------------------------------------------------------
(* The keyboard walk *)

\* The page may reject that body is focused, and the walk starts anyway.
StartWalk ==
  /\ step = "keyboard" /\ step' = "tab"
  /\ focus' \in {Nowhere, focus} /\ walk' = [NoWalk EXCEPT !.from = focus']
  /\ UNCHANGED <<onPage, noted>>

MaxTabs == 2 * MaxFocusable + 4

\* Where a key takes the focus; inside of a frame it may stay there.
Moves(keys) == {keys[focus]} \cup (IF focus \in Outer THEN {focus} ELSE {})

\* Nothing is known of the way on from body or from inside a frame.
StartAfresh == [walk EXCEPT !.stuck = 0, !.last = NoStop, !.presses = @ + 1]

\* _probe_tab_walk: one press of Tab, and what has the focus then.
PressTab ==
  /\ step = "tab" /\ walk.presses < MaxTabs /\ ~gone
  /\ focus' \in Moves(hop.tab)
  /\ LET again == IF focus' = walk.last THEN walk.stuck + 1 ELSE 0
     IN IF focus' \in Outer \cup {Nowhere}
        THEN walk' = StartAfresh /\ step' = step
        ELSE /\ walk' = [walk EXCEPT !.stuck = again, !.last = focus', !.presses = @ + 1, !.backs = 0]
             /\ step' = IF focus' = walk.last /\ again >= Stuck THEN "back" ELSE step
  /\ UNCHANGED <<onPage, noted>>

\* _confirm_reverse_exit_blocked: one press of Shift+Tab.
PressBack ==
  /\ step = "back" /\ ~gone
  /\ focus' \in Moves(hop.back)
  /\ IF focus' # walk.last
     THEN walk' = [walk EXCEPT !.stuck = 0, !.last = NoStop] /\ step' = "tab" /\ UNCHANGED noted
     ELSE /\ walk' = [walk EXCEPT !.backs = @ + 1]
          /\ step' = IF walk.backs + 1 >= Stuck THEN "focus" ELSE step
          /\ noted' = IF walk.backs + 1 >= Stuck
                      THEN noted \cup {[rule |-> "trap", on |-> focus']} ELSE noted
  /\ UNCHANGED onPage

\* A key or _active_element_signature fails, or all presses were made.
EndWalk ==
  /\ \/ step = "tab" /\ step' = "focus" /\ walk' = [walk EXCEPT !.cut = @ \/ walk.presses < MaxTabs]
     \/ step = "back" /\ step' = "tab" /\ walk' = [walk EXCEPT !.stuck = 0, !.last = NoStop, !.cut = TRUE]
  /\ UNCHANGED <<onPage, focus, noted>>

-----------------------------------------------------------------------------
(* The other probes: each of their checks may fail and find nothing *)

Finds(S) == noted' \in {noted} \cup (IF gone THEN {} ELSE {noted \cup F : F \in S})

\* FocusProbe.run: each element has the focus for a moment, unless the first
\* check fails; the second one does not need it.
CheckFocus ==
  /\ step = "focus" /\ step' = "visual"
  /\ \E S \in SUBSET {"obscured", "tabindex"} : Finds({UNION {Findings(r, Seen(r)) : r \in S}})
  /\ focus' \in IF gone THEN {focus} ELSE {focus} \cup Seen("obscured")
  /\ walk' = NoWalk
  /\ UNCHANGED onPage

\* _MOTION_JS: what was measured to play, long enough, without a control; a
\* marquee is always told of.
Bothers(m) ==
  \/ m.kind = "marquee"
  \/ /\ ~m.control /\ m.advances /\ m.long
     /\ m.kind = "video" => m.visible
     /\ m.kind = "audio" => m.audible

\* _check_motion
Motion == {[rule |-> "motion", on |-> m.name] : m \in {x \in Media : Bothers(x)}}
\* _check_meaningful_sequence: the model may say that the order differs.
Sequence == {[rule |-> "sequence", on |-> Document]}

\* VisualProbe.run: each of the two checks may find nothing.
LookAround ==
  /\ step = "visual" /\ step' = "interaction"
  /\ \E differs \in Reordered, F \in SUBSET {Motion, Sequence} :
       (Sequence \in F => differs) /\ Finds({UNION F})
  /\ UNCHANGED <<onPage, focus, walk>>

\* The interaction probe clicks; nothing looks at the focus after it.
Operate ==
  /\ step = "interaction" /\ step' = "reflow" /\ focus' = Nowhere
  /\ UNCHANGED <<onPage, walk, noted>>

\* set_viewport_size fails only if the tab is gone, and then nothing else is
\* done.
Resized(v) == view' = IF gone THEN view ELSE v

\* _check_reflow: a page too wide has culprits, or is one.
CheckReflow ==
  /\ step = "reflow" /\ step' = "zoom" /\ Resized(320)
  /\ LET wide == Shows("reflow", <<view', sheet>>) IN
     Finds(IF view' \notin Overflows THEN {{}}
           ELSE IF wide = {} THEN {{[rule |-> "reflow", on |-> Document]}}
           ELSE {Findings("reflow", T) : T \in Few(wide)})
  /\ UNCHANGED <<hop, sheet, gone, pictures, loads, focus, walk>>

CheckZoom ==
  /\ step = "zoom" /\ step' = "inject" /\ Resized(640)
  /\ Finds({Findings("zoom", T) : T \in Few(Shows("zoom", <<view', sheet>>))})
  /\ UNCHANGED <<hop, sheet, gone, pictures, loads, focus, walk>>

\* _check_text_spacing, as far as the style sheet; a page may refuse it.
InjectSpacing ==
  /\ step = "inject" /\ Resized(Wide)
  /\ sheet' \in IF gone THEN {FALSE} ELSE BOOLEAN
  /\ step' = IF sheet' THEN "spacing" ELSE "restore"
  /\ UNCHANGED <<hop, gone, pictures, loads, focus, walk, noted>>

SpacingStays ==
  /\ step = "spacing" /\ step' = "restore"
  /\ Finds({Findings("spacing", T) : T \in Few(Seen("spacing"))})
  /\ UNCHANGED <<hop, view, sheet, gone, pictures, loads, focus, walk>>

\* Whatever comes of the measurement, the sheet is removed.
CheckSpacing ==
  /\ step = "spacing" /\ step' = "restore"
  /\ Finds({Findings("spacing", T) : T \in Few(Seen("spacing"))})
  /\ sheet' = gone
  /\ UNCHANGED <<hop, view, gone, pictures, loads, focus, walk>>

Restore ==
  /\ step = "restore" /\ step' = "pictures" /\ Resized(Wide)
  /\ UNCHANGED <<hop, sheet, gone, pictures, loads, focus, walk, noted>>

\* The elements of the findings, each once, and not the page as a whole.
TakePictures ==
  /\ step = "pictures" /\ step' = "away"
  /\ \E S \in SUBSET {f.on : f \in noted} :
       /\ Cardinality(S) <= MaxPictures /\ Document \notin S /\ (gone => S = {})
       /\ pictures' = {[on |-> s, view |-> view, sheet |-> sheet] : s \in S}
  /\ UNCHANGED <<hop, view, sheet, gone, focus, walk, noted, loads>>

\* The tab crashes, or its owner closes it.
TabGoes ==
  /\ step # "away" /\ ~gone /\ gone' = TRUE
  /\ UNCHANGED <<hop, step, view, sheet, focus, walk, noted, pictures, loads>>

LiveChecksNext ==
  \/ LoadNext \/ RunAxe \/ StartWalk \/ PressTab \/ PressBack \/ EndWalk \/ CheckFocus \/ LookAround \/ Operate
  \/ CheckReflow \/ CheckZoom \/ InjectSpacing \/ CheckSpacing \/ Restore \/ TakePictures \/ TabGoes

LiveChecksSpec == LiveChecksInit /\ [][LiveChecksNext]_checkVars

-----------------------------------------------------------------------------
(* Properties *)

Traps(e) == e \in Focusable \ Outer /\ hop.tab[e] = e /\ hop.back[e] = e

\* What is reported as a trap holds the focus in both directions, and is no
\* frame that merely keeps it from being seen (_confirm_reverse_exit_blocked).
TrapIsReal == \A f \in noted : f.rule = "trap" => Traps(f.on)

\* The ways on which Tab alone goes k stops far, past no frame.
TabPaths(k) ==
  {path \in [0..k -> Stop \ Outer] :
     path[0] = walk.from /\ \A i \in 1..k : path[i] = hop.tab[path[i - 1]]}

\* A trap that Tab leads to, past no frame, and early enough for the presses
\* that are left, is reported by a walk that nothing cut short (_probe_tab_walk).
TrapIsFound ==
  step = "focus" /\ ~walk.cut /\ ~gone =>
    \A k \in 1..(MaxTabs - Stuck) : \A path \in TabPaths(k) :
      Traps(path[k]) => [rule |-> "trap", on |-> path[k]] \in noted

\* The window and the sheet each rule is about.
Meant == [axe |-> <<Wide, FALSE>>, obscured |-> <<Wide, FALSE>>, tabindex |-> <<Wide, FALSE>>,
          reflow |-> <<320, FALSE>>, zoom |-> <<640, FALSE>>, spacing |-> <<Wide, TRUE>>]

\* A finding is of the window that its rule is about, whatever failed before
\* it and whatever an earlier page of the tab was put through; pictures show
\* the page as it is (ResponsiveProbe.run, "Restores the original viewport").
FoundAsMeant ==
  /\ \A f \in noted : f.rule \in Rule /\ f.on # Document =>
       \E e \in Shows(f.rule, Meant[f.rule]) : Named[e] = f.on
  /\ \A p \in pictures : p.view = Wide /\ ~p.sheet

\* What the probes report of a page is so.
ChecksAreTrue == LiveChecksTypeOK /\ TrapIsReal /\ TrapIsFound /\ FoundAsMeant
=============================================================================
