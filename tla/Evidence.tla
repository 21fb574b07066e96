------------------------------ MODULE Evidence ------------------------------
(***************************************************************************)
(* What the report keeps of one page of one scan: the page row with its    *)
(* saved copy, the saved states of its controls, and its findings, written *)
(* by _process_job and the _persist_* helpers (src/audit/crawler/          *)
(* orchestrator.py) through src/audit/db/repo.py, while reviewers decide   *)
(* on the findings.                                                        *)
(*                                                                         *)
(* A page is fetched again when its attempt was cut short: by an exception *)
(* between two of its writes, or by the end of the process.  Each action   *)
(* of an attempt is one transaction, in which a row that the database      *)
(* refuses is left out; reviewers, whose requests run in other threads,    *)
(* come between any two of them.                                           *)
(*                                                                         *)
(* UpsertResets and UpsertRelabels are wrong on purpose: slips of the      *)
(* definition they precede, kept to show that the properties notice them.  *)
(***************************************************************************)
EXTENDS Naturals, Sequences, FiniteSets

CONSTANTS
  Axe,            \* the findings axe-core can make on the page: at load, by
                  \* searching, or after a control was operated
  MadeBy,         \* those of each other engine: see OtherEngine
  Control,        \* the controls the interaction probe operates
  Load, Search,   \* how a finding came to light when not by a control
  Decision,       \* what a reviewer can decide; "new" is the initial status
  MaxAttempts,    \* bound on the fetches of the page
  MaxDecisions    \* bound on the status changes of a finding

OtherEngine == {"alfa", "keyboard", "responsive", "focus", "visual", "semantic"}
Other == UNION {MadeBy[e] : e \in OtherEngine}

ASSUME EvidenceAssumption ==
  /\ DOMAIN MadeBy = OtherEngine /\ Axe \cap Other = {} /\ IsFiniteSet(Axe)
  /\ Load \notin Control /\ Search \notin Control /\ Load # Search
  /\ "new" \notin Decision
  /\ MaxAttempts \in Nat /\ MaxDecisions \in Nat

VARIABLES
  place,       \* what the attempt writes next: "idle" before and after it
  attempt,     \* the attempts so far
  mode,        \* how this one fetched: "js" or "static"
  fetched,     \* the attempt that wrote the page row last
  copy,        \* ... whose document is its saved copy, 0 without one
  css,         \* ... whose CSS the saved copy has, 0 without
  frames,      \* ... whose frames it has, 0 without
  spoiled,     \* those of the two that the last attempt could not write
  states,      \* the attempt each control's saved state was captured in
  seen,        \* the attempt that wrote each finding last, 0 without a row
  shownBy,     \* revealed_by of each finding's row
  status,      \* the status of each finding's row
  decisions,   \* a11y_finding_history: the <<from, to>> of each finding
  axeTotal     \* scans.axe_violations_total

pageVars == <<fetched, copy, css, frames, spoiled>>
findingVars == <<seen, shownBy, status, decisions>>
evidenceVars == <<place, attempt, mode, pageVars, states, findingVars, axeTotal>>

Finding == Axe \cup Other
Statuses == Decision \cup {"new"}

EvidenceTypeOK ==
  /\ place \in {"idle", "css", "frames", "search", "axe", "interaction"} \cup OtherEngine
  /\ attempt \in 0..MaxAttempts /\ mode \in {"js", "static"}
  /\ fetched \in 0..attempt /\ copy \in 0..attempt
  /\ {css, frames} \subseteq 0..attempt /\ spoiled \subseteq {"css", "frames"}
  /\ states \in [Control -> 0..attempt]
  /\ seen \in [Finding -> 0..attempt]
  /\ shownBy \in [Finding -> Control \cup {Load, Search}]
  /\ status \in [Finding -> Statuses]
  /\ decisions \in [Finding -> Seq(Statuses \X Statuses)]
  /\ axeTotal \in Nat

EvidenceInit ==
  /\ place = "idle" /\ attempt = 0 /\ mode = "static"
  /\ fetched = 0 /\ copy = 0 /\ css = 0 /\ frames = 0 /\ spoiled = {}
  /\ states = [c \in Control |-> 0]
  /\ seen = [f \in Finding |-> 0] /\ shownBy = [f \in Finding |-> Load]
  /\ status = [f \in Finding |-> "new"] /\ decisions = [f \in Finding |-> <<>>]
  /\ axeTotal = 0

-----------------------------------------------------------------------------
(* What one call of repo.py writes *)

Rows == {f \in Finding : seen[f] # 0}

UpsertResets(W, by) ==
  /\ seen' = [f \in Finding |-> IF f \in W THEN attempt ELSE seen[f]]
  /\ shownBy' = [f \in Finding |-> IF f \in W \ Rows THEN by[f] ELSE shownBy[f]]
  /\ status' = [f \in Finding |-> IF f \in W THEN "new" ELSE status[f]]
  /\ UNCHANGED decisions

UpsertRelabels(W, by) ==
  /\ seen' = [f \in Finding |-> IF f \in W THEN attempt ELSE seen[f]]
  /\ shownBy' = [f \in Finding |-> IF f \in W THEN by[f] ELSE shownBy[f]]
  /\ UNCHANGED <<status, decisions>>

\* The rows W, written by the present attempt: ON CONFLICT DO UPDATE refreshes
\* the details and leaves revealed_by and the status a person gave it alone.
Upsert(W, by) ==
  /\ seen' = [f \in Finding |-> IF f \in W THEN attempt ELSE seen[f]]
  /\ shownBy' = [f \in Finding |-> IF f \in W \ Rows THEN by[f] ELSE shownBy[f]]
  /\ UNCHANGED <<status, decisions>>

\* ... of an engine that sees the page as it loads.
UpsertLoaded(W) == Upsert(W, [f \in Finding |-> Load])
\* upsert_alfa_finding and upsert_semantic_finding have statements of their own,
\* which leave the same two columns alone.
UpsertAlfa(W) == UpsertLoaded(W)
UpsertSemantic(W) == UpsertLoaded(W)

\* increment_scan_axe_counters: by what was found, refused rows included.
Count(found) == axeTotal' = axeTotal + Cardinality(found)

\* replace_page_dom_states: captured becomes the whole set.  A failure is
\* logged and leaves the old ones.
ReplaceStates(captured) ==
  \/ states' = [c \in Control |-> IF c \in captured THEN attempt ELSE 0]
  \/ UNCHANGED states

\* upsert_page: the row of the page, and its document if that is kept.
UpsertPage(document) ==
  /\ fetched' = attempt' /\ copy' = IF document THEN attempt' ELSE 0
  /\ spoiled' = {} /\ UNCHANGED <<css, frames>>

\* set_page_styles: the CSS of this fetch's document replaces that of another,
\* none when the document was not kept.  A failure is logged and leaves it.
SetStyles ==
  \/ css' \in {0, copy} /\ UNCHANGED spoiled
  \/ UNCHANGED css /\ spoiled' = spoiled \cup {"css"}

\* replace_page_frames, likewise.
SetFrames ==
  \/ frames' \in {0, copy} /\ UNCHANGED spoiled
  \/ UNCHANGED frames /\ spoiled' = spoiled \cup {"frames"}

-----------------------------------------------------------------------------
(* One attempt *)

Begin == place = "idle" /\ attempt < MaxAttempts /\ attempt' = attempt + 1

\* _record_page: first the page row.  A failed fetch has no document.
RecordPage ==
  /\ Begin /\ place' = "css" /\ mode' \in {"js", "static"}
  /\ \E document \in BOOLEAN : UpsertPage(document)
  /\ UNCHANGED <<states, findingVars, axeTotal>>

\* ... then its CSS,
RecordStyles ==
  /\ place = "css" /\ place' = "frames" /\ SetStyles
  /\ UNCHANGED <<attempt, mode, fetched, copy, frames, states, findingVars, axeTotal>>

\* ... then its frames, and that is all of a failed fetch, or of a page that is
\* not HTML or has an error status.
RecordFrames ==
  /\ place = "frames" /\ SetFrames
  /\ place' \in {"idle", "axe"} \cup (IF mode = "js" THEN {"search"} ELSE {})
  /\ UNCHANGED <<attempt, mode, fetched, copy, css, states, findingVars, axeTotal>>

\* What a configured search revealed, whatever the status of the page.
PersistSearch ==
  /\ place = "search" /\ place' \in {"idle", "axe"}
  /\ \E found \in SUBSET Axe : \E W \in SUBSET found :
       Upsert(W, [f \in Finding |-> Search]) /\ Count(found)
  /\ UNCHANGED <<attempt, mode, pageVars, states>>

\* The violations present when the page had loaded; the images come before.
PersistAxe ==
  /\ place = "axe" /\ place' = "alfa"
  /\ IF mode = "js"
       THEN \E found \in SUBSET Axe : \E W \in SUBSET found : UpsertLoaded(W) /\ Count(found)
       ELSE UNCHANGED <<findingVars, axeTotal>>
  /\ UNCHANGED <<attempt, mode, pageVars, states>>

\* The findings of engine e are written, and next come those of another.
Persist(e, next) ==
  /\ place = e /\ place' = next
  /\ UNCHANGED <<attempt, mode, pageVars, states, axeTotal>>
PersistLoaded(e, next) ==
  Persist(e, next) /\ \E W \in SUBSET MadeBy[e] : UpsertLoaded(W)

\* Alfa has a browser of its own.
PersistAlfa ==
  /\ Persist("alfa", IF mode = "js" THEN "keyboard" ELSE "semantic")
  /\ \E W \in SUBSET MadeBy["alfa"] : UpsertAlfa(W)
PersistKeyboard == PersistLoaded("keyboard", "responsive")
PersistResponsive == PersistLoaded("responsive", "focus")
PersistFocus == PersistLoaded("focus", "visual")
PersistVisual == \E next \in {"interaction", "semantic"} : PersistLoaded("visual", next)

\* The states, and the violations each of them revealed; left out unless the
\* probe got to evaluate the page.
PersistInteraction ==
  /\ place = "interaction" /\ place' = "semantic"
  /\ \E by \in [Axe -> Control], found \in SUBSET Axe, captured \in SUBSET Control :
       \E W \in SUBSET found :
         /\ ReplaceStates(captured)
         /\ Upsert(W, [f \in Finding |-> IF f \in Axe THEN by[f] ELSE Load]) /\ Count(found)
  /\ UNCHANGED <<attempt, mode, pageVars>>

\* The last of the page's writes.
PersistSemantic == Persist("semantic", "idle") /\ \E W \in SUBSET MadeBy["semantic"] : UpsertSemantic(W)

\* The images, Alfa or the language checks raise, or the process ends anywhere:
\* the job is tried again.
CutShort ==
  /\ place # "idle" /\ place' = "idle"
  /\ spoiled' = spoiled \cup (CASE place = "css" -> {"css", "frames"}
                                  [] place = "frames" -> {"frames"} [] OTHER -> {})
  /\ UNCHANGED <<attempt, mode, fetched, copy, css, frames, states, findingVars, axeTotal>>

-----------------------------------------------------------------------------
(* Reviewers *)

\* bulk_set_a11y_findings_status: the rows of the selection not yet in status
\* s, each with its history row, in one transaction.
Decide(F, s) ==
  LET changed == {f \in F \cap Rows : status[f] # s}
  IN /\ status' = [f \in Finding |-> IF f \in changed THEN s ELSE status[f]]
     /\ decisions' = [f \in Finding |-> IF f \in changed
                        THEN Append(decisions[f], <<status[f], s>>) ELSE decisions[f]]
     /\ UNCHANGED <<place, attempt, mode, pageVars, states, seen, shownBy, axeTotal>>

DecideSome ==
  \E F \in SUBSET Finding, s \in Statuses :
    /\ \A f \in F : Len(decisions[f]) < MaxDecisions
    /\ Decide(F, s)

EvidenceNext ==
  \/ RecordPage \/ RecordStyles \/ RecordFrames \/ PersistSearch \/ PersistAxe \/ PersistAlfa
  \/ PersistKeyboard \/ PersistResponsive \/ PersistFocus \/ PersistVisual
  \/ PersistInteraction \/ PersistSemantic \/ CutShort \/ DecideSome

EvidenceSpec == EvidenceInit /\ [][EvidenceNext]_evidenceVars

-----------------------------------------------------------------------------
(* Properties *)

\* A finding's status is what its history says, step by step from "new",
\* whatever later attempts write over its row (repo.upsert_axe_violation,
\* bulk_set_a11y_findings_status).
StatusIsHistory ==
  \A f \in Finding :
    LET h == decisions[f]
    IN /\ status[f] = IF h = <<>> THEN "new" ELSE h[Len(h)][2]
       /\ \A i \in 1..Len(h) : h[i][1] = IF i = 1 THEN "new" ELSE h[i - 1][2]

\* page_a11y_findings never holds more axe rows than the scan's counter claims
\* (_persist_interaction).
CounterCoversRows == Cardinality(Rows \cap Axe) <= axeTotal

\* A finding that was visible at load is never relabelled as one that only a
\* control or a search reveals, and no finding of a page is lost by fetching
\* it again (repo.upsert_axe_violation).
EvidenceGrows ==
  \A f \in Rows : f \in Rows' /\ (shownBy[f] = Load => shownBy'[f] = Load)

\* No step of a visit or of a reviewer loses a row or relabels one so.
RowsOnlyGrow == [][EvidenceGrows]_evidenceVars

\* The saved states of a page's controls come from one visit, never a mix of
\* two; and the CSS and the frames of its saved copy are those of the same
\* fetch, unless they could not be written (repo.replace_page_dom_states,
\* set_page_styles, replace_page_frames).
SavedAsOne ==
  /\ \A c, d \in Control : 0 \in {states[c], states[d]} \/ states[c] = states[d]
  /\ place # "css" /\ "css" \notin spoiled => css \in {0, copy}
  /\ place \notin {"css", "frames"} /\ "frames" \notin spoiled => frames \in {0, copy}

\* What attempts and decisions leave behind for a page: the states of the above
\* (orchestrator._process_job, repo.py).
EvidenceIsKept == EvidenceTypeOK /\ StatusIsHistory /\ CounterCoversRows /\ SavedAsOne
=============================================================================
