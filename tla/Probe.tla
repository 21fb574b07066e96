------------------------------- MODULE Probe -------------------------------
(***************************************************************************)
(* The interaction probe on one page (src/audit/analyzer/interaction/      *)
(* probe.py): it clicks the page's controls one at a time, follows what a  *)
(* click reveals, checks it for violations that were not on the page as it *)
(* loaded, closes the dialogs it opened and counts what it did.  The       *)
(* report shows the counts as the coverage of the page.                    *)
(*                                                                         *)
(* _explore and _operate call each other; their calls under way are a      *)
(* stack of levels.  The page is swept first and then a frame in it.  A    *)
(* dialog covers the page: while it is open, a click at a control outside  *)
(* it hits the dialog.                                                     *)
(*                                                                         *)
(* DismissOnce and NewOrNot are wrong on purpose: each is a slip of the     *)
(* definition it precedes, kept to show that a property notices it.        *)
(***************************************************************************)
EXTENDS Naturals, Sequences, FiniteSets, FiniteSetsExt

CONSTANTS
  Ctl,          \* the page's controls
  Present,      \* those operable when the page has loaded
  Framed,       \* those in the page's frame, operable when it has loaded
  Reveals,      \* what a click on each control makes operable
  Modal,        \* the controls that open a modal dialog
  Inside,       \* the controls each of these dialogs holds
  Refused,      \* those whose name has a blocked word
  Shape,        \* the structural shape of each control
  InFrame,      \* the controls of the frame, operable at first or not
  Faulty,       \* those the rule check finds a violation in
  MaxClicks, MaxDepth, MaxRepeated,
  MaxInert, MinPopulation,  \* the inert sample, and the shapes it speaks for
  MaxShots, MaxStates       \* screenshots and saved states of one page

ASSUME ProbeAssumption ==
  /\ IsFiniteSet(Ctl) /\ Present \subseteq Ctl /\ Modal \subseteq Ctl /\ Refused \subseteq Ctl
  /\ Framed \subseteq Ctl \ Present /\ Reveals \in [Ctl -> SUBSET Ctl]
  /\ Inside \in [Modal -> SUBSET (Ctl \ (Present \cup Framed))]
  /\ Framed \subseteq InFrame /\ InFrame \subseteq Ctl \ Present /\ Faulty \subseteq Ctl
  /\ \A c \in Ctl : Reveals[c] \subseteq (IF c \in InFrame THEN InFrame ELSE Ctl \ InFrame)
  /\ {MaxClicks, MaxDepth, MaxRepeated, MaxInert, MinPopulation, MaxShots, MaxStates} \subseteq Nat

VARIABLES
  levels,    \* the sweeps under way: the control each descends from, the
             \* controls it collected and those it still has to see to, the
             \* dialog it has to close
  operable,  \* the controls a click can reach if nothing covers them
  dialogs,   \* the open dialogs, each named for the control that opened it
  frame,     \* the frame: "ahead", "here" while it is swept, "behind"
  budget,    \* _Budget: the clicks left, its sets of controls (inert: those
             \* that answered a click with nothing), the limits met, halted
  probing,   \* "sweep", "closing" a dialog, or "over"
  hit,       \* a click that hit a dialog was counted as a control operated;
             \* the browser failed to say what a click had opened; a click
             \* that changed the address left the dialog it opened
  captured   \* the documents whose check as they loaded worked, the controls
             \* whose violations are known, the violations a click revealed
             \* with that click, what was photographed, the clicks whose state
             \* was saved, and whether a check failed

probeVars == <<levels, operable, dialogs, frame, budget, probing, hit, captured>>

TopLevel == "page"  \* what the first level descends from
Cosmetic == {"state_shots", "state_captures"}
Limits == {"clicks", "depth", "repeated_controls", "inert_controls", "dialog_not_dismissed", "time"}
            \cup Cosmetic
Budget == [remaining : 0..MaxClicks, discovered : SUBSET Ctl, refused : SUBSET Ctl,
           claimed : SUBSET Ctl, operated : SUBSET Ctl, inert : SUBSET Ctl,
           limits : SUBSET Limits, halted : BOOLEAN]

ProbeTypeOK ==
  /\ levels \in Seq([from : Ctl \cup {TopLevel}, all : SUBSET Ctl, todo : SUBSET Ctl, opened : SUBSET Modal])
  /\ operable \in SUBSET Ctl /\ dialogs \in SUBSET Modal
  /\ frame \in {"ahead", "here", "behind"} /\ budget \in Budget
  /\ probing \in {"sweep", "closing", "over"}
  /\ hit \in [dialog : BOOLEAN, blind : BOOLEAN, left : BOOLEAN]
  /\ captured \in [loaded : SUBSET {TopLevel, "frame"}, seen : SUBSET Ctl, found : SUBSET (Ctl \X Ctl),
                   shots : SUBSET Ctl, states : SUBSET Ctl, missed : BOOLEAN]

\* _explore at depth 0: the controls it collects, in the page or the frame.
Outset(S) == <<[from |-> TopLevel, all |-> S, todo |-> IF MaxDepth = 0 THEN {} ELSE S, opened |-> {}]>>
TooDeep(depth, S) == IF depth >= MaxDepth /\ S # {} THEN {"depth"} ELSE {}

\* What is known once document d, of controls S, was checked as it loaded.  A
\* check that failed, or was off, is taken for one that found nothing.
Baselines(known, d, S) ==
  {[known EXCEPT !.loaded = @ \cup {d}, !.seen = @ \cup (Faulty \cap S)],
   [known EXCEPT !.missed = TRUE]}

ProbeInit ==
  /\ levels = Outset(Present) /\ operable = Present \cup Framed /\ dialogs = {}
  /\ frame = "ahead" /\ probing = "sweep" /\ hit = [dialog |-> FALSE, blind |-> FALSE, left |-> FALSE]
  /\ captured \in Baselines([loaded |-> {}, seen |-> {}, found |-> {}, shots |-> {}, states |-> {},
                             missed |-> FALSE], TopLevel, Present)
  /\ budget = [remaining |-> MaxClicks, discovered |-> Present, refused |-> {}, claimed |-> {},
               operated |-> {}, inert |-> {}, limits |-> TooDeep(0, Present), halted |-> FALSE]

-----------------------------------------------------------------------------
Depth == Len(levels) - 1
Top == levels[Len(levels)]
Below == SubSeq(levels, 1, Len(levels) - 1)
Drop(c) == [levels EXCEPT ![Len(levels)].todo = @ \ {c}]
Alike(c, S) == Cardinality({b \in S : Shape[b] = Shape[c]})

\* _is_blocked: the name of control c has a word that is refused where it is.
Blocked(c) == c \in Refused
\* _resolve_control: what answers for the control now.
Resolved(c) == c \in operable /\ ~Blocked(c)

\* The controls of the document that is swept.
Swept == IF frame = "here" THEN InFrame ELSE Ctl \ InFrame

\* An open dialog lies over control c.
Covered(c) == \E d \in dialogs : c \notin Inside[d]

Spent == budget.remaining = 0 \/ budget.halted
Sweeping == probing = "sweep" /\ levels # <<>> /\ ~Spent

-----------------------------------------------------------------------------
(* _explore: what it makes of the next control *)

Refuse ==
  /\ Sweeping
  /\ \E c \in Top.todo :
       Blocked(c) /\ levels' = Drop(c) /\ budget' = [budget EXCEPT !.refused = @ \cup {c}]
  /\ UNCHANGED <<operable, dialogs, frame, probing, hit, captured>>

\* Enough controls of this shape have been tried, or have answered nothing.
Sampled(c) ==
  (IF Alike(c, budget.claimed) >= MaxRepeated THEN {"repeated_controls"} ELSE {}) \cup
  (IF Alike(c, Top.all) >= MinPopulation /\ Alike(c, budget.inert) >= MaxInert THEN {"inert_controls"} ELSE {})

\* Already seen, or one of too many of a shape.
Skip ==
  /\ Sweeping
  /\ \E c \in Top.todo :
       /\ ~Blocked(c) /\ levels' = Drop(c)
       /\ \/ c \in budget.claimed /\ UNCHANGED budget
          \/ /\ c \notin budget.claimed
             /\ \E l \in Sampled(c) : budget' = [budget EXCEPT !.limits = @ \cup {l}]
  /\ UNCHANGED <<operable, dialogs, frame, probing, hit, captured>>

Claimable(c) == c \in Top.todo \ budget.claimed /\ ~Blocked(c) /\ Sampled(c) = {}

-----------------------------------------------------------------------------
(* _operate *)

\* The budget after a click at c that the browser accepted.
Clicked(c) == [budget EXCEPT !.remaining = @ - 1, !.claimed = @ \cup {c}, !.operated = @ \cup {c}]
Hits(c, blind, left) ==
  hit' = [dialog |-> hit.dialog \/ Covered(c), blind |-> hit.blind \/ blind, left |-> hit.left \/ left]
Changes(b, c) == [b EXCEPT !.inert = {i \in @ : Shape[i] # Shape[c]}]

\* Nothing on the page answers for the control, or the click fails.
OperateFails ==
  /\ Sweeping
  /\ \E c \in Top.todo, sent \in BOOLEAN :
       /\ Claimable(c) /\ sent => Resolved(c)
       /\ levels' = Drop(c)
       /\ budget' = [budget EXCEPT !.claimed = @ \cup {c}, !.remaining = IF sent THEN @ - 1 ELSE @]
  /\ UNCHANGED <<operable, dialogs, frame, probing, hit, captured>>

\* The click changes nothing.
OperateInert ==
  /\ Sweeping
  /\ \E c \in Top.todo :
       /\ Claimable(c) /\ Resolved(c) /\ levels' = Drop(c) /\ Hits(c, FALSE, FALSE)
       /\ budget' = [Clicked(c) EXCEPT !.inert = @ \cup {c}]
  /\ UNCHANGED <<operable, dialogs, frame, probing, captured>>

\* What a click at c that changed the address leaves, after _restore, which does
\* nothing in a frame and what it can in the page.  The guard lets no document
\* load, so the address is another of the same document, whose script may keep
\* what the click showed, take it back or draw the document anew; or going back
\* went too far, and the browser is elsewhere.  While the address stays another,
\* each click counts as one that changed it: here it may.
Lands(c) ==
  \/ operable' = operable \cup Reveals[c] /\ dialogs' = dialogs \cup ({c} \cap Modal)
  \/ UNCHANGED <<operable, dialogs>>
  \/ /\ operable' = (operable \ Swept) \cup ((Present \cup Framed) \cap Swept)
     /\ dialogs' = dialogs \ Swept
  \/ /\ operable' = operable \ (IF frame = "here" THEN InFrame ELSE Ctl)
     /\ dialogs' = dialogs \ Swept

\* It changes the address: what it showed is neither read nor swept nor closed.
OperateNavigates ==
  /\ Sweeping
  /\ \E c \in Top.todo :
       /\ Claimable(c) /\ Resolved(c) /\ levels' = Drop(c) /\ budget' = Clicked(c)
       /\ Lands(c) /\ Hits(c, FALSE, ~ (dialogs' \subseteq dialogs))
  /\ UNCHANGED <<frame, probing, captured>>

NewOrNot(there) == Faulty \cap there \cap Swept

\* _collect: the violations of the document that was clicked, now that `there`
\* can be reached, which are not known yet.
New(there) == (Faulty \cap there \cap Swept) \ captured.seen

\* _capture_shots and _capture_state, of what click c revealed: never in a
\* frame, and up to a limit.  The pictures are of one size, and so are the
\* saved states: a limit on their number stands for the limits on bytes.
Shot(new) ==
  {S \in SUBSET new : Cardinality(S) = Min({Cardinality(new), MaxShots - Cardinality(captured.shots)})}
RoomForState == Cardinality(captured.states) < MaxStates
LimitsMet(new) ==
  IF frame = "here" \/ new = {} THEN {}
  ELSE (IF new \in Shot(new) THEN {} ELSE {"state_shots"})
         \cup (IF RoomForState THEN {} ELSE {"state_captures"})

\* It reveals something: the controls that were not there before are swept one
\* level down, unless that is too deep.  blind: the dialogs could not be read
\* (_open_dialogs answers with none); read: the rule check worked; kept:
\* the pictures and the saved state could be taken.
OperateReveals ==
  /\ Sweeping
  /\ \E c \in Top.todo, blind, read, kept \in BOOLEAN :
       /\ Claimable(c) /\ Resolved(c) /\ Hits(c, blind, FALSE)
       /\ operable' = operable \cup Reveals[c] /\ dialogs' = dialogs \cup ({c} \cap Modal)
       /\ LET new == IF read THEN New(operable \cup Reveals[c]) ELSE {}
              keeps == kept /\ frame # "here" /\ new # {}
          IN /\ kept => keeps
             /\ \E fresh \in {Reveals[c] \ operable, Reveals[c] \ budget.discovered} :
                  /\ levels' = Drop(c) \o
                       <<[from |-> c, all |-> fresh, todo |-> IF Depth + 1 >= MaxDepth THEN {} ELSE fresh,
                          opened |-> IF blind THEN {} ELSE ({c} \cap Modal) \ dialogs]>>
                  /\ budget' = [Changes(Clicked(c), c) EXCEPT !.discovered = @ \cup fresh,
                                  !.limits = @ \cup TooDeep(Depth + 1, fresh) \cup LimitsMet(new)]
             /\ \E S \in Shot(new) :
                  captured' = [loaded |-> captured.loaded,
                               seen |-> captured.seen \cup new,
                               found |-> captured.found \cup (new \X {c}),
                               shots |-> IF keeps THEN captured.shots \cup S ELSE captured.shots,
                               states |-> IF keeps /\ RoomForState THEN captured.states \cup {c}
                                          ELSE captured.states,
                               missed |-> captured.missed \/ ~read]
  /\ UNCHANGED <<frame, probing>>

\* An exception after the click ends the visit to the control: what it opened
\* is left, neither swept nor closed, and the address restored if it changed.
OperateBreaks ==
  /\ Sweeping
  /\ \E c \in Top.todo :
       /\ Claimable(c) /\ Resolved(c) /\ levels' = Drop(c) /\ Lands(c) /\ Hits(c, TRUE, FALSE)
       /\ budget' \in {Clicked(c), Changes(Clicked(c), c)}
       /\ captured' = [captured EXCEPT !.missed = TRUE]
  /\ UNCHANGED <<frame, probing>>

\* It closes the dialog it is in.
OperateCloses ==
  /\ Sweeping
  /\ \E c \in Top.todo, d \in dialogs :
       /\ c \in Inside[d] /\ Claimable(c) /\ Resolved(c) /\ levels' = Drop(c) /\ Hits(c, FALSE, FALSE)
       /\ budget' = Changes(Clicked(c), c)
       /\ dialogs' = dialogs \ {d} /\ operable' = operable \ Inside[d]
  /\ UNCHANGED <<frame, probing, captured>>

\* _reopen_path: a control whose menu has closed; an ancestor still operable is
\* clicked again, at the budget's cost.  If that changes the address, the
\* control is given up, as one that nothing answers for.
Reopen ==
  /\ Sweeping
  /\ \E c \in Top.todo \ operable, i \in 2..Len(levels) :
       /\ Claimable(c)
       /\ LET a == levels[i].from
          IN /\ Resolved(a) /\ ~ (Reveals[a] \subseteq operable)
             /\ \/ /\ operable' = operable \cup Reveals[a] /\ dialogs' = dialogs \cup ({a} \cap Modal)
                   /\ budget' = [budget EXCEPT !.remaining = @ - 1] /\ UNCHANGED levels
                \/ /\ Lands(a)
                   /\ budget' = [budget EXCEPT !.remaining = @ - 1, !.claimed = @ \cup {c}]
                   /\ levels' = Drop(c)
  /\ UNCHANGED <<frame, probing, hit, captured>>

-----------------------------------------------------------------------------
(* The end of a level *)

LevelDone == probing = "sweep" /\ levels # <<>> /\ (Top.todo = {} \/ Spent)

\* A level with no dialog to close: at the root, Escape closes the menus.
Unwind ==
  /\ LevelDone /\ Top.opened \cap dialogs = {}
  /\ levels' = Below
  /\ \/ UNCHANGED <<operable, dialogs>>
     \/ Depth = 1 /\ Top.opened = {} /\ operable' = operable \cap (Present \cup Framed) /\ dialogs' = {}
  /\ UNCHANGED <<frame, budget, probing, hit, captured>>

\* One that opened a dialog still there has to close it.
StartClosing ==
  /\ LevelDone /\ Top.opened \cap dialogs # {}
  /\ probing' = "closing"
  /\ UNCHANGED <<levels, operable, dialogs, frame, budget, hit, captured>>

DismissOnce(b, gone) == b

\* _dismiss_dialog, verified: what does not close ends the page's sweep.
Dismiss(b, gone) ==
  IF gone THEN b
  ELSE [b EXCEPT !.halted = TRUE, !.limits = @ \cup {"dialog_not_dismissed"}]

\* By Escape, by the dialog's own close control if a click is left, or not.
Close ==
  /\ probing = "closing"
  /\ \E gone \in BOOLEAN, clicks \in {0, 1} :
       /\ clicks <= budget.remaining
       /\ budget' = Dismiss([budget EXCEPT !.remaining = @ - clicks], gone)
       /\ IF gone THEN /\ dialogs' = dialogs \ Top.opened
                       /\ operable' \in {operable \ Inside[Top.from],
                                       operable \cap (Present \cup Framed)}
                  ELSE UNCHANGED <<dialogs, operable>>
  /\ levels' = Below /\ probing' = "sweep"
  /\ UNCHANGED <<frame, hit, captured>>

\* _explore_frames, once the page itself has been swept.  A hidden frame, one
\* that cannot be read, or one that has gone with its page, is left out.
EnterFrame ==
  /\ probing = "sweep" /\ levels = <<>> /\ frame = "ahead" /\ ~Spent
  /\ \/ /\ Framed \subseteq operable /\ frame' = "here" /\ levels' = Outset(Framed)
        /\ captured' \in Baselines(captured, "frame", Framed)
        /\ budget' = [budget EXCEPT !.discovered = @ \cup Framed, !.limits = @ \cup TooDeep(0, Framed)]
     \/ frame' = "behind" /\ UNCHANGED <<levels, budget, captured>>
  /\ UNCHANGED <<operable, dialogs, probing, hit>>

\* run: the time is up, wherever the sweep is, or the sweep is complete.
Finished ==
  /\ probing # "over" /\ probing' = "over" /\ levels' = <<>>
  /\ \E time \in BOOLEAN :
       /\ time \/ (probing = "sweep" /\ levels = <<>> /\ (frame # "ahead" \/ Spent))
       /\ budget' = [budget EXCEPT !.limits = @ \cup (IF time THEN {"time"} ELSE {})
                       \cup (IF budget.remaining = 0 THEN {"clicks"} ELSE {})]
  /\ UNCHANGED <<operable, dialogs, frame, hit, captured>>

ProbeNext ==
  \/ Refuse \/ Skip
  \/ OperateFails \/ OperateInert \/ OperateNavigates \/ OperateReveals \/ OperateBreaks \/ OperateCloses \/ Reopen
  \/ Unwind \/ StartClosing \/ Close \/ EnterFrame \/ Finished

ProbeSpec == ProbeInit /\ [][ProbeNext]_probeVars

-----------------------------------------------------------------------------
(* Properties *)

\* A dialog shows what it holds and nothing behind it, and so do the controls in
\* it: what a modal dialog is.
DialogsHold ==
  \A d \in Modal : Reveals[d] \subseteq Inside[d] /\ \A c \in Inside[d] : Reveals[c] \subseteq Inside[d]

\* Every click counted as a control operated reached that control: none hit a
\* dialog an earlier click had left open, as long as the browser says what is
\* open and no click that opens a dialog changes the address (_dismiss_dialog).
OperatedIsReal == hit.dialog => hit.blind \/ hit.left

\* The coverage of a page adds up: a control that was found and neither tried
\* nor refused is explained by one of the limits reported with it, and what
\* counts as operated was found first (_explore, run).
CoverageAddsUp ==
  probing = "over" =>
    /\ budget.limits \ Cosmetic # {} \/ budget.discovered \subseteq budget.claimed \cup budget.refused
    /\ budget.operated \subseteq budget.discovered

\* What is reported as revealed by a click was not in the document as it loaded,
\* if the check of it then worked; it is reported of one click only, one counted
\* as operated; and unless a check failed, what it could see of the controls
\* found is reported.  A saved state or a picture is one a finding points at
\* (_collect, _capture_state).
RevealedIsNew ==
  /\ \A x \in captured.found :
       /\ x[1] \in Present => TopLevel \notin captured.loaded
       /\ x[1] \in Framed => "frame" \notin captured.loaded
       /\ x[2] \in budget.operated
       /\ \A y \in captured.found : x[1] = y[1] => x = y
  /\ captured.shots \subseteq {x[1] : x \in captured.found}
  /\ captured.states \subseteq {x[2] : x \in captured.found} \ InFrame
  /\ ~captured.missed => Faulty \cap budget.discovered \subseteq captured.seen
=============================================================================
