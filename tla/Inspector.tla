------------------------------ MODULE Inspector ------------------------------
(***************************************************************************)
(* What the Inspector shows of the page of Evidence: its saved copy, the   *)
(* saved state of a control, or the page as the site has it now            *)
(* (src/audit/web/page_inspector.py).                                      *)
(*                                                                         *)
(* A request reads all it needs from the database without an await, on the *)
(* event loop that the crawl runs on, and so between two writes of an      *)
(* attempt.  A scan can be inspected while it runs and after it ended.     *)
(***************************************************************************)
EXTENDS Evidence

\* A request: is the scan completed, what is asked for, can the stored bytes be
\* decoded, does the site answer with a page.
Requests == [completed : BOOLEAN, wanted : Control \cup {Load}, readable : BOOLEAN, answers : BOOLEAN]

Now == MaxAttempts + 1  \* after every attempt
Display(source, of, from) == [source |-> source, of |-> of, from |-> from, css |-> 0, frames |-> 0]
Blank(source) == Display(source, Load, 0)

\* _validate: a page without a stored copy is for completed scans only.
Unavailable(q) == ~q.completed /\ copy = 0

\* inspect_page of a state: the markup captured, and nothing in its place.
InspectState(q) ==
  IF q.readable /\ states[q.wanted] # 0 THEN Display("state", q.wanted, states[q.wanted])
  ELSE Blank("state")

\* _render_page, with the site's own CSS and frames.
RenderLive(q) == IF q.answers THEN Display("live", Load, Now) ELSE Blank("live")

\* inspect_page of the page as it loads.  The frames are those of _saved_frames,
\* the CSS that of saved_styles_css.
InspectPage(q) ==
  IF copy # 0 /\ q.readable THEN [Display("stored", Load, copy) EXCEPT !.css = css, !.frames = frames]
  ELSE IF q.completed THEN RenderLive(q) ELSE Blank("stored")

Inspect(q) ==
  IF Unavailable(q) THEN Blank("refused")
  ELSE IF q.wanted = Load THEN InspectPage(q) ELSE InspectState(q)

-----------------------------------------------------------------------------
(* Properties *)

\* A reviewer who asks for the state behind a control is shown that state, from
\* the one visit all states come of, or nothing, never the page in its place; a
\* page that the last fetch saved is shown from it, with the CSS and frames of
\* the same fetch, also after the scan stopped; and the site itself is asked only
\* for what a completed scan has no readable copy of (inspect_page, _validate).
InspectedAsCaptured ==
  \A q \in Requests :
    LET shown == Inspect(q)
    IN /\ q.wanted # Load => /\ shown.source \in {"state", "refused"}
                             /\ shown.from # 0 => \A c \in Control : states[c] \in {0, shown.from}
       /\ shown.source = "live" => q.completed /\ (copy = 0 \/ ~q.readable) /\ shown.css = 0
       /\ copy # 0 /\ q.readable /\ q.wanted = Load => shown.from = fetched
       /\ shown.source = "stored" /\ place = "idle" /\ spoiled = {} =>
            {shown.css, shown.frames} \subseteq {0, shown.from}

\* What is kept of a page and what is shown of it (orchestrator._process_job,
\* repo.py, page_inspector.py).
EvidenceIsShown == EvidenceIsKept /\ InspectedAsCaptured
=============================================================================
