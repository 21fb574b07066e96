------------------------------ MODULE Coverage ------------------------------
(***************************************************************************)
(* What a reader is told was checked: the list of methods with what each   *)
(* did (src/audit/web/server.py _methods_used), the methods section of the *)
(* written report (exports/audit_report.py) and the account of the clicks  *)
(* (exports/interaction_coverage.py, and the workbook's sheet of it).      *)
(*                                                                         *)
(* The methods are told from the totals of the scans of Comparison, the    *)
(* clicks from the rows the probe leaves of each page: one is the page of  *)
(* Probe, the other is any of OtherRow.                                    *)
(***************************************************************************)
EXTENDS Comparison, Probe

CONSTANTS
  InBrowserOnly,  \* the methods that count against the pages opened in a browser
  OtherRow        \* what the probe may leave of another page

\* The row of a page in scan_interaction_runs (increment_scan_interaction_counters).
PageRow ==
  [found |-> Cardinality(budget.discovered), operated |-> Cardinality(budget.operated),
   blocked |-> Cardinality(budget.refused), limits |-> budget.limits]

\* What is so of every row, as it is of the probed page's: what was operated or
\* refused was found, and a dialog that stayed open was opened by a control.
AddsUp(r) ==
  /\ {r.found, r.operated, r.blocked} \subseteq Nat /\ r.limits \subseteq Limits
  /\ r.operated <= r.found /\ r.blocked <= r.found
  /\ "dialog_not_dismissed" \in r.limits => r.found > 0

ASSUME CoverageAssumption ==
  InBrowserOnly \subseteq Method /\ \A r \in OtherRow : AddsUp(r)

-----------------------------------------------------------------------------
(* The methods *)

\* _method_result: of a method that was on or off, whose coverage is known or
\* not, in a scan that runs or has ended, by what it did of all there was.
MethodResult(on, known, running, done, total) ==
  CASE ~on -> "not_selected"
    [] on /\ ~known -> "coverage_unknown"
    [] on /\ known /\ running -> IF done = 0 THEN "waiting" ELSE "running"
    [] OTHER -> IF done = 0 THEN "not_run" ELSE IF total > done THEN "partial" ELSE "checked"

\* Images are counted too, and a scan that met none has checked them all.
ImageResult(on, running, done, total) ==
  IF on /\ ~running /\ total = 0 THEN "checked" ELSE MethodResult(on, TRUE, running, done, total)

\* A search that stopped early, or found nothing, is partial at best.
SearchResult(on, running, states, attention) ==
  IF on /\ attention THEN IF states > 0 THEN "partial" ELSE "not_run"
  ELSE MethodResult(on, TRUE, running, states, 0)

\* _scan_method_coverage: the page rows; some of them were opened in a browser,
\* among them all that a method which needs one was run on.
Against(s) ==
  IF method \in InBrowserOnly
  THEN {P \in SUBSET PageRows(s) : tried[s] \subseteq P} ELSE {PageRows(s)}

\* _methods_used: what is told of the method compared.  A count shows that it
\* ran whatever the settings say.
MethodTold(s, known, P) ==
  MethodResult(s \in enabled \/ counter[s] > 0, known \/ counter[s] > 0, now = s,
               counter[s], Cardinality(P))

\* _coverage_and_method: its line in the report, and whether the report says
\* that it is partial.
Line(s) == IF found[s] # {} THEN "found issues"
           ELSE IF counter[s] > 0 THEN "ran, clean" ELSE "n/a"
SaidPartial(s) == counter[s] > 0 /\ counter[s] < Cardinality(PageRows(s))

-----------------------------------------------------------------------------
(* The clicks *)

\* interaction_coverage.load: the rows count if the table has all its columns
\* and the scan is not older than it.
LedgerRecorded(columns, version) == columns /\ version >= 2

\* The sums of the counts over the rows of two pages.
Total(rows) ==
  [found |-> rows[1].found + rows[2].found, operated |-> rows[1].operated + rows[2].operated,
   blocked |-> rows[1].blocked + rows[2].blocked]

\* PageInteraction: a page whose sweep a bound stopped.
WasLimited(r) == r.limits # {}
LimitText(r) == r.limits
LimitedPages(rows) == {k \in DOMAIN rows : WasLimited(rows[k])}

\* The workbook's sheet: the bounds of each page, unless the clicks were off.
ClicksSheet(on, rows) ==
  [k \in (IF on THEN DOMAIN rows ELSE {}) |->
     IF WasLimited(rows[k]) THEN LimitText(rows[k]) ELSE {"Swept completely"}]

\* InteractionCoverage.status_line
StatusLine(on, recorded, rows) ==
  CASE ~on -> "turned off"
    [] on /\ ~recorded -> "share unknown"
    [] OTHER -> IF Total(rows).found = 0 THEN "no controls" ELSE "operated of found"

\* InteractionCoverage.caveats, those that depend on the scan.
Caveats(on, rows) ==
  IF ~on THEN {}
  ELSE (IF LimitedPages(rows) # {} THEN {"limited"} ELSE {})
         \cup (IF Total(rows).blocked > 0 THEN {"refused"} ELSE {})
         \cup (IF \E k \in DOMAIN rows : "dialog_not_dismissed" \in rows[k].limits
               THEN {"stuck"} ELSE {})

\* coverage_ratio: operated and found, or nothing where there is no share.
Share(rows) == IF Total(rows).found = 0 THEN <<>>
               ELSE <<Total(rows).operated, Total(rows).found>>

\* _dom_state_coverage: the table of numbers is printed only of a ledger.
Table(on, recorded, rows) == IF on /\ recorded THEN Share(rows) ELSE <<>>

\* _interaction_clauses: what the list of methods says beside the pages.
Clauses(rows) ==
  (IF Total(rows).found > 0 THEN {"operated"} ELSE {}) \cup Caveats(TRUE, rows)

-----------------------------------------------------------------------------
(* Properties *)

\* A method is told as having checked everything only if it covered every page it
\* is counted against, as far as it is known (Reached), unless a page was tried
\* twice, which counts it twice; what is told as run did cover a page, and what is
\* told as not run was run on none.  A scan that had a count is never told as off
\* or unknown, and only what ran without a finding is told as clean.  Images are
\* all analysed, and every search came to its end, before they are told as checked
\* (server.py _methods_used, audit_report.py _coverage_and_method).
MethodsAreTold ==
  /\ \A s \in Compared : \A known \in BOOLEAN, P \in Against(s) :
       LET told == MethodTold(s, known, P)
       IN /\ told = "checked" /\ cut[s] = 0 /\ ~errors[s] => P \subseteq Reached(s)
          /\ told = "partial" /\ now > s => SaidPartial(s)
          /\ told \in {"checked", "partial", "running"} => Reached(s) # {}
          /\ told \in {"not_run", "waiting", "not_selected", "coverage_unknown"} => tried[s] = {}
          /\ Line(s) = "ran, clean" => Reached(s) # {} /\ found[s] = {}
          /\ Line(s) = "n/a" => tried[s] = {}
  /\ now = 3 => \A on, running, attention \in BOOLEAN : \A total \in 0 .. 2 : \A done \in 0 .. total :
       /\ ImageResult(on, running, done, total) = "checked" => done = total
       /\ SearchResult(on, running, done, attention) = "checked" => ~attention /\ done > 0

\* What is told of the clicks never says more than was done: turned off, not
\* recorded and nothing to click stay apart; no share is above one; a page with
\* a control neither tried nor refused is listed as stopped early, and no page
\* so is called swept completely (interaction_coverage.py).
ClicksAreTold ==
  probing = "over" => \A other \in OtherRow : \A on, columns \in BOOLEAN, version \in 0 .. 2 :
    LET rows == <<PageRow, other>>
        recorded == LedgerRecorded(columns, version)
        line == StatusLine(on, recorded, rows)
        share == Table(on, recorded, rows)
    IN /\ share # <<>> => line = "operated of found" /\ share[1] <= share[2]
       /\ line = "no controls" => budget.discovered = {} /\ Clauses(rows) \ {"limited"} = {}
       /\ (line = "turned off") = ~on /\ (line = "share unknown") = (on /\ ~recorded)
       /\ ~ (budget.discovered \subseteq budget.claimed \cup budget.refused) =>
            /\ 1 \in LimitedPages(rows)
            /\ on => ClicksSheet(on, rows)[1] # {"Swept completely"} /\ "limited" \in Caveats(on, rows)
       /\ on /\ budget.refused # {} => "refused" \in Caveats(on, rows)
       /\ on /\ budget.halted => "stuck" \in Caveats(on, rows)

\* Both, with what they rest on: the comparison of two scans claims an absence
\* only where it was covered, and the probe's own counts are honest.
TotalsAreTrue == ComparisonTypeOK /\ AbsenceIsCovered /\ MethodsAreTold
ClicksAreTrue == ProbeTypeOK /\ CoverageAddsUp /\ RevealedIsNew /\ ClicksAreTold
=============================================================================
