------------------------------- MODULE Report -------------------------------
(***************************************************************************)
(* What a reader sees of the issues: the written report with its summary,  *)
(* cards and appendices (src/audit/exports/audit_report.py), the workbook  *)
(* with an index, a sheet for each issue and tables by page                *)
(* (xlsx_export.py), and the list with its filters (web/issues.py).        *)
(*                                                                         *)
(* All of it is computed from the state of Issues: the listing, the rows   *)
(* filed under cards, the tickets and the references are read at different *)
(* moments of one export, while rows are still stored and decided.  What   *)
(* the authored rules say of an issue is constant.                         *)
(*                                                                         *)
(* ConclusionOfCards is wrong on purpose: a slip of the definition it      *)
(* precedes, kept to show that the property notices it.                    *)
(***************************************************************************)
EXTENDS Issues, FiniteSetsExt

CONSTANTS
    Level,          \* of each issue: its WCAG level, or NoLevel
    NoLevel,
    Weight,         \* of each issue: 4 critical .. 1 minor
    Effort,         \* of each issue: EffortTier, or Unrated (no rule card)
    Unrated,
    Owner,          \* of each issue: who fixes it
    Hinders,        \* of each issue: the abilities it is a barrier for
    Titled,         \* of each issue: engine and title, which two may share
    Behind,         \* the elements that are there after a click only
    MaxLocations, MaxSheets, MaxHotspots, MaxLeads

EffortTier == <<"quick", "short", "long">>

ASSUME ReportAssumption ==
    /\ Level \in [Problem -> {"A", "AA", "AAA", NoLevel}] /\ NoLevel \notin {"A", "AA", "AAA"}
    /\ Effort \in [Problem -> {EffortTier[t] : t \in DOMAIN EffortTier} \cup {Unrated}]
    /\ DOMAIN Owner = Problem /\ DOMAIN Hinders = Problem /\ DOMAIN Titled = Problem
    /\ Weight \in [Problem -> 1 .. 4] /\ Behind \subseteq Element
    /\ {MaxLocations, MaxSheets, MaxHotspots, MaxLeads} \subseteq Nat \ {0}

SitePages == 1 .. StoredPages
PagesWith(S) == {evidence[i].page : i \in S}

-----------------------------------------------------------------------------
(* The list of issues *)

\* The ways an issue was found (IssueRow.finding_types).
FoundBy(ids) ==
    {IF evidence[i].element \in Behind THEN "click_through" ELSE "wcag" : i \in ids}

\* _priority: the weight of the severity times the logarithm of one and the pages
\* an issue reaches, repeats and all; here the power that has this logarithm, which
\* puts issues in the same order, but for the rounding of the source.
Reach(issue) == Cardinality(PagesWith(issue.ids \cup issue.repeats))
Priority(issue, p) == (1 + Reach(issue)) ^ Weight[p]
Lane(p) == IF p \in Barrier THEN 0 ELSE IF p \in ExpertLead THEN 1 ELSE 2

\* _sort_rows: by lane, and by priority within one.
Precedes(list, p, q) ==
    \/ Lane(p) < Lane(q)
    \/ /\ Lane(p) = Lane(q)
       /\ Priority(list[p], p) > Priority(list[q], q)

Listed(list) == {p \in Problem : list[p].ids # {}}

\* filter_and_sort: a filter that is empty leaves everything in.
Filtered(list, levels, owners, lanes, types, verdict) ==
    {p \in Listed(list) :
        /\ levels = {} \/ Level[p] \in levels
        /\ owners = {} \/ Owner[p] \in owners
        /\ lanes = {} \/ Lane(p) \in lanes
        /\ types = {} \/ FoundBy(list[p].ids) \cap types # {}
        /\ verdict \in Verdict => \E i \in list[p].ids : evidence[i].verdict = verdict}

\* _pages_for_issue: the pages of the issue's own view, with their rows.
IssuePages(issue) ==
    [g \in PagesWith(issue.ids) |-> {i \in issue.ids : evidence[i].page = g}]

\* _a11y_location_samples: a few places to start from, no place twice.
Samples(issue, most) ==
    LET places == {<<evidence[i].page, evidence[i].element>> : i \in issue.ids}
    IN  {S \in SUBSET places : Cardinality(S) = Min({most, Cardinality(places)})}

-----------------------------------------------------------------------------
(* Cards *)

CardRows(p) == cards \cap listing[p].ids
Carded == {p \in Problem : CardRows(p) # {}}
CardPages(p) == PagesWith(CardRows(p))

\* _locations_for_row: the first rows are shown, the others counted.
Shown(S) ==
    {i \in S : Cardinality({j \in S : Earlier(evidence, j, i)}) < MaxLocations}
Overflow(S) == Cardinality(S) - Cardinality(Shown(S))

\* The cards in the order of the report: by severity, then by reach.
CardBefore(p, q) ==
    \/ Weight[p] > Weight[q]
    \/ Weight[p] = Weight[q] /\ Cardinality(CardPages(p)) > Cardinality(CardPages(q))

\* _quick_win: the least effort among the most severe.
Tier(p) == IF Effort[p] = Unrated THEN 4
           ELSE CHOOSE t \in DOMAIN EffortTier : EffortTier[t] = Effort[p]
QuickWins ==
    {p \in Carded : \A q \in Carded :
        \/ Weight[p] > Weight[q]
        \/ Weight[p] = Weight[q] /\ Tier(p) < Tier(q)
        \/ Weight[p] = Weight[q] /\ Tier(p) = Tier(q) /\ ~CardBefore(q, p)}

-----------------------------------------------------------------------------
(* The sections of the report *)

\* _blocked_seed_details: the page the scan began at was refused, or nothing
\* at all was read.
BlockedSeed(seed, read, errors) ==
    IF seed = "missing" THEN read = 0 /\ errors > 0 ELSE seed = "refused"

\* _conformance_estimate: the cards of each tier; a card of none is left out.
Estimate == [t \in {EffortTier[k] : k \in DOMAIN EffortTier} |->
                Cardinality({p \in Carded : Effort[p] = t})]

ConclusionOfCards(blocked) ==
    IF \E t \in DOMAIN Estimate : Estimate[t] > 0 THEN "effort to clear" ELSE "no barriers remain"

\* _executive_summary: its last sentence.
Conclusion(blocked) ==
    IF blocked THEN "coverage was not established"
    ELSE IF \E t \in DOMAIN Estimate : Estimate[t] > 0 THEN "effort to clear"
    ELSE "no barriers remain"

\* _conformance_scorecard, by level.
Scorecard == [l \in {"A", "AA", "AAA"} |-> {p \in Carded : Level[p] = l}]

\* _abilities_rollup: an issue counts for every ability it hinders.
Affected == [a \in UNION {Hinders[p] : p \in Carded} |-> {p \in Carded : a \in Hinders[p]}]

\* _worklist_by_owner
Worklist == [o \in {Owner[p] : p \in Carded} |-> {p \in Carded : Owner[p] = o}]

\* _page_hotspots: the load of a page, from the locations the cards show.
LocationsOn(g) == {i \in UNION {Shown(CardRows(p)) : p \in Carded} : evidence[i].page = g}
PageLoad(g) == MapThenSumSet(LAMBDA i : Weight[evidence[i].problem], LocationsOn(g))
Hot == {g \in SitePages : LocationsOn(g) # {}}
Hotspots == {S \in SUBSET Hot :
               /\ Cardinality(S) = Min({MaxHotspots, Cardinality(Hot)})
               /\ \A g \in S, h \in Hot \ S : PageLoad(g) >= PageLoad(h)}

\* _appendix_b: the first few leads, and how many are left.
Leads == {p \in Problem : appendixB \cap listing[p].ids # {}}
LeadsLeft == IF Cardinality(Leads) > MaxLeads THEN Cardinality(Leads) - MaxLeads ELSE 0

-----------------------------------------------------------------------------
(* The workbook *)

\* _build_tickets: the place of a ticket in the index; the list is sorted, and
\* two of equal rank stay in the order they were grouped in.
Numbering ==
    {f \in [Listed(tickets) -> 1 .. Cardinality(Listed(tickets))] :
        \A p, q \in Listed(tickets) : p # q =>
            f[p] # f[q] /\ (Precedes(tickets, p, q) => f[p] < f[q])}

\* render_xlsx: the first tickets have a sheet each, the others share one.
Pooled == "More Issues"
SheetOf(number, p) == IF number[p] <= MaxSheets THEN p ELSE Pooled

\* _instance_rows: what a sheet lists, ...
OnSheet(number, s) == UNION {Shown(tickets[p].ids) :
                               p \in {q \in Listed(tickets) : SheetOf(number, q) = s}}
\* ... what it says of the rows it does not list, and what the index says.
LeftOut(number, p) == IF SheetOf(number, p) = Pooled THEN 0 ELSE Overflow(tickets[p].ids)
IndexCount(p) == Cardinality(tickets[p].ids)

\* _build_page_references_sheet: for each issue and page, the locations of the
\* card with its engine and title, or its own when it has none.
CardsLike(p) == {q \in Carded : Titled[q] = Titled[p]}
Sources(p) == IF CardsLike(p) = {} THEN {Shown(references[p].ids)}
              ELSE {Shown(CardRows(q)) : q \in CardsLike(p)}
References ==
    [pg \in UNION {{p} \X PagesWith(references[p].ids) : p \in Problem} |->
        UNION {{i \in S : evidence[i].page = pg[2]} : S \in Sources(pg[1])}]

-----------------------------------------------------------------------------
(* Correctness *)

Rendered == stage \in {"filed", "referenced"}
Unmoved == Problem \ {evidence[i].problem : i \in moved}

\* An open row is to be fixed if a rule is sure of it and maps it, or if an
\* expert confirmed it.
ToFix(i) ==
    LET p == evidence[i].problem
    IN  \/ p \in Barrier \cap Mapped /\ evidence[i].verdict \in OpenStatus
        \/ p \in ExpertLead /\ evidence[i].verdict \in ConfirmedStatus

\* The report says that no barriers remain only if every row to fix that nobody
\* touched belongs to an issue without a rated effort, repeats a reported row,
\* or came too late for the listing; and it says so of no scan whose first page
\* was refused (audit_report.py _executive_summary).
NothingRemains ==
    Rendered =>
        /\ Conclusion(FALSE) = "no barriers remain" =>
              \A p \in Problem : \A i \in listing[p].ids \ moved :
                  ToFix(i) => Effort[p] = Unrated
        /\ \A seed \in {"read", "refused", "missing"}, read, errors \in {0, 1} :
              seed = "refused" \/ (seed = "missing" /\ read = 0 /\ errors = 1) =>
                  Conclusion(BlockedSeed(seed, read, errors)) # "no barriers remain"

\* What the sections say together is what the cards say: every row is on one
\* card, and shown in the table of a page or counted there as one more; every card is in one
\* owner's list, and in the table of levels unless it has none
\* (audit_report.py, from _conformance_scorecard to _worklist_by_owner).
SectionsAgree ==
    Rendered =>
        /\ \A i \in cards : {p \in Carded : i \in CardRows(p)} = {evidence[i].problem}
        /\ \A p \in Carded :
              Cardinality({i \in CardRows(p) : \E g \in SitePages : i \in LocationsOn(g)})
                + Overflow(CardRows(p)) = Cardinality(CardRows(p))
        /\ \A p \in Carded : {o \in DOMAIN Worklist : p \in Worklist[o]} = {Owner[p]}
        /\ UNION {Scorecard[l] : l \in DOMAIN Scorecard}
             = {p \in Carded : Level[p] # NoLevel}
        /\ \A a \in DOMAIN Affected : Affected[a] # {}
        /\ \A p \in QuickWins : \A q \in Carded : Weight[q] <= Weight[p]
        /\ \A S \in Hotspots : cards # {} => S # {}
        /\ LeadsLeft + MaxLeads >= Cardinality(Leads)

\* The workbook has the rows of a card that nobody touched on the sheet its
\* index points at, or counts them there; only on the shared sheet they may be
\* missing without a word, and the index still counts them.  Barriers come
\* first (xlsx_export.py _build_tickets, _build_issue_index_sheet).
SheetsAccount ==
    Rendered => \A number \in Numbering : \A p \in Listed(tickets) :
        LET s == SheetOf(number, p)
            missing == tickets[p].ids \ OnSheet(number, s)
        IN  /\ s # Pooled => Cardinality(missing) = LeftOut(number, p)
            /\ IndexCount(p) = Cardinality(tickets[p].ids \cap OnSheet(number, s))
                                 + Cardinality(missing)
            /\ \A i \in CardRows(p) \ moved : i \in OnSheet(number, s) \cup missing
            /\ \A q \in Listed(tickets) : number[p] < number[q] => Lane(p) <= Lane(q)

\* The issue's own view and its filters: every reported row is on one of its
\* pages, a place is sampled as long as there is one, and an issue that matches
\* the filters is never hidden by one that is empty (issues.py).
ListIsWhole ==
    LET now == ListIssues(evidence)
    IN  /\ \A p \in Listed(now) :
             /\ \A i \in now[p].ids :
                  {g \in DOMAIN IssuePages(now[p]) : i \in IssuePages(now[p])[g]} = {evidence[i].page}
             /\ \A S \in Samples(now[p], MaxLocations) : S # {}
             /\ p \in Filtered(now, {}, {}, {Lane(p)}, {}, "any")
        /\ \A v \in Verdict : \A i \in DOMAIN evidence :
             i \in now[evidence[i].problem].ids /\ evidence[i].verdict = v =>
                 evidence[i].problem \in Filtered(now, {}, {}, {}, {"wcag", "click_through"}, v)

\* The page references have a line for each page of each row of a card that
\* nobody touched, and what a line shows is on its page, and of an issue with
\* the line's engine and title (xlsx_export.py _build_page_references_sheet).
ReferencesAreThere ==
    stage = "referenced" =>
        /\ \A p \in Unmoved : \A i \in CardRows(p) :
              <<p, evidence[i].page>> \in DOMAIN References
        /\ \A pg \in DOMAIN References : \A i \in References[pg] :
              evidence[i].page = pg[2] /\ Titled[evidence[i].problem] = Titled[pg[1]]

\* What the exports tell a reader of the issues of a scan accounts for every
\* row of it (audit_report.py, xlsx_export.py).
ReportIsTrue ==
    IssuesTypeOK /\ NothingRemains /\ SectionsAgree /\ SheetsAccount /\ ListIsWhole /\ ReferencesAreThere
=============================================================================
