------------------------------- MODULE Issues -------------------------------
(***************************************************************************)
(* The issues of a scan and the files made from them (web/issues.py,       *)
(* web/a11y_queries.py, exports/).                                         *)
(*                                                                         *)
(* An issue collects the rows of page_a11y_findings that one rule of one   *)
(* engine stored.  A row whose element was already stored by the same rule *)
(* on an earlier page is a repeat: it stays in the database and in the     *)
(* inventories, and the issue reports the first instance only.             *)
(*                                                                         *)
(* Nothing holds the database still while a file is rendered: every SELECT *)
(* sees what crawlers and reviewers have committed by then.  An export     *)
(* reads all rows for the inventory formats (CSV, JSON, Jira, Markdown),   *)
(* lists the issues, reads the status of each issue's rows again to file   *)
(* them under cards, leads or appendix, and the workbook lists the issues  *)
(* a second time for its tickets and a third time for its page references. *)
(*                                                                         *)
(* A row is its position in "evidence", as its id is; a page is its number *)
(* in the order pages were stored.  OpenWithoutConfirmed is wrong on       *)
(* purpose: a slip of the definition it precedes, kept to show that the    *)
(* property notices it.                                                    *)
(***************************************************************************)
EXTENDS Integers, Sequences, FiniteSets

CONSTANTS
    Problem,        \* the issues: one rule of one engine (Alfa: and outcome)
    Barrier,        \* those in the lane "likely_barrier"
    ExpertLead,           \* those in the lane "expert_review"
    Mapped,         \* those mapped to a WCAG criterion
    Element,        \* identities of elements: hash, selector and markup
    PageLevel,      \* stands for a target that is the page itself
    StoredPages,    \* how many pages the scan stores
    Verdict,        \* the statuses a reviewer sets
    MaxEvidence,    \* bound: rows
    MaxVerdicts     \* bound: verdicts

ASSUME IssuesAssumption ==
    /\ Barrier \cup ExpertLead \cup Mapped \subseteq Problem
    /\ Barrier \cap ExpertLead = {}
    /\ PageLevel \notin Element
    /\ StoredPages \in Nat \ {0}
    /\ MaxEvidence \in Nat /\ MaxVerdicts \in Nat

VARIABLES
    evidence,       \* the rows of page_a11y_findings, in the order of their ids
    verdicts,       \* verdicts given so far (bounded)
    stage,          \* what the export does next
    inventory,      \* the rows as collect_scan read them
    listing,        \* the issues as list_issues returned them
    unfiled,        \* the issues the report has not filed yet
    halfway,        \* the lead whose confirmed rows are filed, the rest not
    cards,          \* rows in the report's issue cards
    appendixB,      \* rows in the report's review leads
    receipts,       \* per issue, the decided rows its appendix A line counts
    tickets,        \* the issues as the workbook's index lists them
    references,     \* the issues as its page references list them
    moved           \* rows a commit changed since the export began

issuesVars == <<evidence, verdicts, stage, inventory, listing, unfiled, halfway,
                cards, appendixB, receipts, tickets, references, moved>>

OpenStatus == {"new", "reviewing", "in_progress"}
TriagedStatus == {"remediated", "accepted_risk", "false_positive"}
ConfirmedStatus == {"in_progress"}
UnconfirmedStatus == {"new", "reviewing"}

\* _STATUS_OPTIONS
ASSUME VerdictAssumption == Verdict \subseteq OpenStatus \cup TriagedStatus

EvidenceRow == [page : 1 .. StoredPages, problem : Problem,
                element : Element \cup {PageLevel},
                verdict : OpenStatus \cup TriagedStatus]

\* An issue as list_issues returns it: the rows it reports, the repeats it
\* leaves out, and how many of the reported rows are decided and open.
NoIssue == [ids |-> {}, repeats |-> {}, triaged |-> 0, open |-> 0]
Nothing == [p \in Problem |-> NoIssue]

IssuesTypeOK ==
    /\ evidence \in Seq(EvidenceRow) /\ Len(evidence) <= MaxEvidence
    /\ verdicts \in 0 .. MaxVerdicts
    /\ stage \in {"none", "collected", "filing", "filed", "referenced"}
    /\ \A i \in DOMAIN inventory : inventory[i] \in EvidenceRow
    /\ DOMAIN listing = Problem /\ DOMAIN tickets = Problem
    /\ DOMAIN references = Problem
    /\ unfiled \subseteq Problem /\ halfway \subseteq ExpertLead
    /\ cards \cup appendixB \cup moved \subseteq 1 .. MaxEvidence
    /\ receipts \in [Problem -> 0 .. MaxEvidence]

IssuesInit ==
    /\ evidence = <<>> /\ verdicts = 0
    /\ stage = "none"
    /\ inventory = <<>> /\ listing = Nothing /\ tickets = Nothing
    /\ references = Nothing
    /\ unfiled = {} /\ halfway = {}
    /\ cards = {} /\ appendixB = {} /\ moved = {}
    /\ receipts = [p \in Problem |-> 0]

-----------------------------------------------------------------------------
(* The issues of the rows R.                                               *)

RowsOfIssue(R, p) == {i \in DOMAIN R : R[i].problem = p}

\* _first_instances: rows of one issue with one identity, first by (page, id).
Earlier(R, i, j) ==
    \/ R[i].page < R[j].page
    \/ R[i].page = R[j].page /\ i < j

Instances(R, p, i) ==
    IF R[i].element = PageLevel
    THEN {i}
    ELSE {j \in RowsOfIssue(R, p) : R[j].element = R[i].element}

FirstInstances(R, p) ==
    {i \in RowsOfIssue(R, p) :
        \A j \in Instances(R, p, i) \ {i} : Earlier(R, i, j)}

InStatus(R, S, statuses) == {i \in S : R[i].verdict \in statuses}

\* The statuses a report takes for open, without the confirmed ones.
OpenWithoutConfirmed == {"new", "reviewing"}
CountedOpen == OpenStatus

IssueOf(R, p) ==
    LET reported == FirstInstances(R, p)
    IN  [ids |-> reported, repeats |-> RowsOfIssue(R, p) \ reported,
         triaged |-> Cardinality(InStatus(R, reported, TriagedStatus)),
         open |-> Cardinality(InStatus(R, reported, CountedOpen))]

ListIssues(R) == [p \in Problem |-> IssueOf(R, p)]

-----------------------------------------------------------------------------
(* The crawler and the reviewers.                                          *)

ExportBegun == stage # "none"

\* A page's results are stored.  A rule that reports the same element of the
\* same page again finds its row there.  A new row may become the first
\* instance of an element that later pages stored before.
StoreRow(g, p, e) ==
    LET row == [page |-> g, problem |-> p, element |-> e, verdict |-> "new"]
    IN  /\ Len(evidence) < MaxEvidence
        /\ \A i \in RowsOfIssue(evidence, p) :
              ~(evidence[i].page = g /\ evidence[i].element = e)
        /\ evidence' = Append(evidence, row)
        /\ moved' = IF ~ExportBegun THEN moved
                    ELSE moved \cup Instances(evidence', p, Len(evidence'))
        /\ UNCHANGED <<verdicts, stage, inventory, listing, unfiled, halfway,
                       cards, appendixB, receipts, tickets, references>>

\* A reviewer sets the status of the rows S: those an issue reports (the bulk
\* control of the issue), or any one row (the page inspector).
SetStatus(S, v) ==
    /\ verdicts < MaxVerdicts /\ S # {}
    /\ \E i \in S : evidence[i].verdict # v
    /\ evidence' = [i \in DOMAIN evidence |->
                      IF i \in S THEN [evidence[i] EXCEPT !.verdict = v]
                      ELSE evidence[i]]
    /\ verdicts' = verdicts + 1
    /\ moved' = IF ExportBegun THEN moved \cup S ELSE moved
    /\ UNCHANGED <<stage, inventory, listing, unfiled, halfway, cards, appendixB,
                   receipts, tickets, references>>

SettleIssue == \E p \in Problem, v \in Verdict :
    SetStatus(FirstInstances(evidence, p), v)
SettleRow == \E i \in DOMAIN evidence, v \in Verdict : SetStatus({i}, v)

-----------------------------------------------------------------------------
(* An export.                                                              *)

\* collect_scan: one SELECT of every row.
Collect ==
    /\ stage = "none"
    /\ stage' = "collected" /\ inventory' = evidence
    /\ UNCHANGED <<evidence, verdicts, listing, unfiled, halfway, cards,
                   appendixB, receipts, tickets, references, moved>>

\* The Jira file leaves out what is decided.
JiraRows == {i \in DOMAIN inventory : inventory[i].verdict \notin TriagedStatus}

ListForReport ==
    /\ stage = "collected"
    /\ stage' = "filing"
    /\ listing' = ListIssues(evidence)
    /\ unfiled' = {p \in Problem : RowsOfIssue(evidence, p) # {}}
    /\ UNCHANGED <<evidence, verdicts, inventory, halfway, cards, appendixB,
                   receipts, tickets, references, moved>>

\* _project_row_for_statuses: the issue's rows whose status, read again now,
\* is one of these.
Projected(p, statuses) == InStatus(evidence, listing[p].ids, statuses)

Filing == stage = "filing" /\ halfway = {}

\* _is_fully_triaged: appendix A, and nothing is read again.
FileTriaged(p) ==
    /\ Filing /\ p \in unfiled
    /\ listing[p].open = 0
    /\ receipts' = [receipts EXCEPT ![p] = listing[p].triaged]
    /\ unfiled' = unfiled \ {p}
    /\ UNCHANGED <<evidence, verdicts, stage, inventory, listing, halfway, cards,
                   appendixB, tickets, references, moved>>

\* An expert lead: what the expert confirmed is a card, ...
FileConfirmed(p) ==
    /\ Filing /\ p \in unfiled
    /\ listing[p].open > 0 /\ p \in ExpertLead
    /\ receipts' = [receipts EXCEPT ![p] = listing[p].triaged]
    /\ cards' = cards \cup Projected(p, ConfirmedStatus)
    /\ unfiled' = unfiled \ {p} /\ halfway' = {p}
    /\ UNCHANGED <<evidence, verdicts, stage, inventory, listing, appendixB,
                   tickets, references, moved>>

\* ... and what is left, by another query, a lead.
FileUnconfirmed(p) ==
    /\ stage = "filing" /\ p \in halfway
    /\ appendixB' = appendixB \cup Projected(p, UnconfirmedStatus)
    /\ halfway' = {}
    /\ UNCHANGED <<evidence, verdicts, stage, inventory, listing, unfiled, cards,
                   receipts, tickets, references, moved>>

\* A likely barrier mapped to a criterion is a card; what is mapped to none,
\* or only informs, is not.
FileOpen(p) ==
    /\ Filing /\ p \in unfiled
    /\ listing[p].open > 0 /\ p \notin ExpertLead
    /\ receipts' = [receipts EXCEPT ![p] = listing[p].triaged]
    /\ LET projected == Projected(p, OpenStatus)
       IN  IF p \in Barrier \cap Mapped
           THEN cards' = cards \cup projected /\ UNCHANGED appendixB
           ELSE appendixB' = appendixB \cup projected /\ UNCHANGED cards
    /\ unfiled' = unfiled \ {p}
    /\ UNCHANGED <<evidence, verdicts, stage, inventory, listing, halfway,
                   tickets, references, moved>>

\* The report is rendered; the workbook lists the issues again.
ListForWorkbook ==
    /\ Filing /\ unfiled = {}
    /\ stage' = "filed" /\ tickets' = ListIssues(evidence)
    /\ UNCHANGED <<evidence, verdicts, inventory, listing, unfiled, halfway,
                   cards, appendixB, receipts, references, moved>>

ListForReferences ==
    /\ stage = "filed"
    /\ stage' = "referenced" /\ references' = ListIssues(evidence)
    /\ UNCHANGED <<evidence, verdicts, inventory, listing, unfiled, halfway,
                   cards, appendixB, receipts, tickets, moved>>

IssuesNext ==
    \/ \E g \in 1 .. StoredPages, p \in Problem, e \in Element \cup {PageLevel} :
          StoreRow(g, p, e)
    \/ SettleIssue \/ SettleRow
    \/ Collect \/ ListForReport \/ ListForWorkbook \/ ListForReferences
    \/ \E p \in Problem : \/ FileTriaged(p) \/ FileConfirmed(p)
                          \/ FileUnconfirmed(p) \/ FileOpen(p)

IssuesSpec == IssuesInit /\ [][IssuesNext]_issuesVars

-----------------------------------------------------------------------------
(* Correctness.                                                            *)

\* Every stored row is in one issue, reported or as a repeat, and a repeat has
\* a reported row for its own element on a page that is no later.  A target
\* that is the page itself is reported on every page it fails.
EachRowOnce ==
    \A i \in DOMAIN evidence :
        LET p == evidence[i].problem
            issue == IssueOf(evidence, p)
        IN  \/ i \in issue.ids
            \/ /\ i \in issue.repeats /\ evidence[i].element # PageLevel
               /\ \E j \in issue.ids :
                     /\ evidence[j].element = evidence[i].element
                     /\ evidence[j].page <= evidence[i].page

Placed(p) == listing[p].ids # {} /\ p \notin unfiled \cup halfway
Untouched(p) == listing[p].ids \ moved

\* Once an issue is filed, each of its rows that nobody touched meanwhile is
\* where its status says, once: open in a card or a lead, and a lead nobody
\* confirmed never in a card; decided in the count of appendix A only.  What
\* does not add up is no more than what was touched.
EachRowFiled ==
    \A p \in Problem : Placed(p) =>
        /\ \A i \in Untouched(p) :
              /\ (evidence[i].verdict \in OpenStatus) <=> i \in cards \cup appendixB
              /\ i \in cards <=> \/ evidence[i].verdict \in ConfirmedStatus /\ p \in ExpertLead
                                 \/ evidence[i].verdict \in OpenStatus
                                    /\ p \in Barrier \cap Mapped
              /\ i \notin cards \cap appendixB
        /\ LET decided == Cardinality(InStatus(evidence, Untouched(p), TriagedStatus))
               touched == Cardinality(listing[p].ids \cap moved)
           IN  decided <= receipts[p] /\ receipts[p] <= decided + touched

\* The files of one export agree about the rows nobody touched: the workbook
\* has each row of the report, and what the Jira file opens a ticket for is a
\* row of the report, or repeats one that is.
FilesAgree ==
    stage \in {"filed", "referenced"} =>
        /\ \A i \in (cards \cup appendixB) \ moved :
              i \in tickets[inventory[i].problem].ids
        /\ \A i \in JiraRows \ moved :
              \/ i \in cards \cup appendixB
              \/ \E j \in listing[inventory[i].problem].ids :
                    /\ i \in listing[inventory[i].problem].repeats
                    /\ evidence[j].element = inventory[i].element

\* Three facts of the files made from a scan while it is crawled and reviewed
\* (issues.py _first_instances, audit_report.py _bucket_rows_into_cards,
\* xlsx_export.py _build_tickets): no row is lost or shown twice.
NoRowIsLost == EachRowOnce /\ EachRowFiled /\ FilesAgree
=============================================================================
