----------------------------- MODULE PageIndex -----------------------------
(***************************************************************************)
(* The page index of one protected report: what the runs of its companion  *)
(* find (crawl in src/audit/protected/companion.py) and the server keeps   *)
(* (record_protected_page_index in src/audit/protected/repository.py,      *)
(* agent_event in src/audit/web/protected_api.py).                         *)
(*                                                                         *)
(* A run visits one page after another and waits for the answer to each    *)
(* page event.  The event, or its answer, may be lost, and an event may    *)
(* arrive when its run is over.  A later run of the same report visits the *)
(* pages again, and names them by the same opaque keys.                    *)
(*                                                                         *)
(* Enrollment and the ways to obtain and lose the lease are Companions';   *)
(* here a run has the lease until the report leaves it.                    *)
(*                                                                         *)
(* IndexAgain is wrong on purpose: a slip of the definition it precedes,   *)
(* kept to show that the property notices it.                              *)
(***************************************************************************)
EXTENDS Naturals, FiniteSets

CONSTANTS
  Url,       \* the addresses of the application's pages
  Entry,     \* the one the crawl starts from
  Lead,      \* the findings a page can have
  MaxPages,  \* the page limit of the scan's configuration
  MaxRuns    \* bound on the runs of the companion

ASSUME PageIndexAssumption ==
  Entry \in Url /\ MaxPages \in Nat \ {0} /\ MaxRuns \in Nat

VARIABLES
  protection,  \* protected_scans.protection_status
  holder,      \* the run that has the lease, 0 when none has
  retained,    \* the report has not passed its cleanup deadline
  indexed,     \* the pages with a row
  leads,       \* the findings stored for each of them
  engines,     \* the engines whose evaluation of the page was counted
  axeCount, alfaCount, pageCount,  \* totals in the scan's row
  runs,        \* the runs so far
  run,         \* the present one: the addresses it has seen and still has to
               \* visit, how many pages it counts and which, and what it does
  events       \* the page events on their way

indexRow == <<indexed, leads, engines, axeCount, alfaCount, pageCount>>
indexVars == <<protection, holder, retained, indexRow, runs, run, events>>

Engine == {"axe", "alfa"}
Event == [by : 1..MaxRuns, page : Url, leads : SUBSET Lead, engines : SUBSET Engine]
NoRun == [at |-> "over", seen |-> {}, todo |-> {}, count |-> 0, counted |-> {}]

IndexTypeOK ==
  /\ protection \in {"awaiting_authentication", "running", "authentication_required",
                     "interrupted", "failed", "completed"}
  /\ holder \in 0..MaxRuns /\ retained \in BOOLEAN
  /\ indexed \in SUBSET Url /\ leads \in [Url -> SUBSET Lead]
  /\ engines \in [Url -> SUBSET Engine]
  /\ axeCount \in Nat /\ alfaCount \in Nat /\ pageCount \in Nat
  /\ runs \in 0..MaxRuns
  /\ run \in [at : {"crawling", "waiting", "over"}, seen : SUBSET Url, todo : SUBSET Url,
              count : 0..MaxPages, counted : SUBSET Url]
  /\ events \in SUBSET Event

IndexInit ==
  /\ protection = "awaiting_authentication" /\ holder = 0 /\ retained = TRUE
  /\ indexed = {} /\ leads = [u \in Url |-> {}] /\ engines = [u \in Url |-> {}]
  /\ axeCount = 0 /\ alfaCount = 0 /\ pageCount = 0
  /\ runs = 0 /\ run = NoRun /\ events = {}

-----------------------------------------------------------------------------
(* The server *)

\* _require_current_run_lease: the event's run still has its lease.
Authorized(n) == holder = n /\ retained

\* The report leaves the lease with status s.
LeavesAs(s) == protection' = s /\ holder' = 0

Add(e, E) == IF e \in E THEN 1 ELSE 0

IndexAgain(e) ==
  /\ indexed' = indexed \cup {e.page}
  /\ leads' = [leads EXCEPT ![e.page] = @ \cup e.leads]
  /\ engines' = [engines EXCEPT ![e.page] = @ \cup e.engines]
  /\ axeCount' = axeCount + Add("axe", e.engines) /\ alfaCount' = alfaCount + Add("alfa", e.engines)
  /\ pageCount' = Cardinality(indexed')

\* record_protected_page_index under the writer's lock: a page that is indexed
\* stays as it is.
Index(e) ==
  IF e.page \in indexed THEN UNCHANGED indexRow
  ELSE /\ indexed' = indexed \cup {e.page}
       /\ leads' = [leads EXCEPT ![e.page] = e.leads]
       /\ engines' = [engines EXCEPT ![e.page] = e.engines]
       /\ axeCount' = axeCount + Add("axe", e.engines) /\ alfaCount' = alfaCount + Add("alfa", e.engines)
       /\ pageCount' = Cardinality(indexed')

Full(e) == e.page \notin indexed /\ Cardinality(indexed) >= MaxPages

Refuses(e) == ~Authorized(e.by) \/ protection # "running" \/ Full(e)

\* The run goes on when the answer reaches it: a refusal (409) ends it without
\* a word, and its lease is left to expire.
Deliver ==
  \E e \in events, answered \in BOOLEAN :
    /\ events' = events \ {e}
    /\ IF Refuses(e) THEN UNCHANGED indexRow ELSE Index(e)
    /\ IF answered /\ e.by = runs /\ run.at = "waiting"
         THEN run' = IF Refuses(e) THEN NoRun
                     ELSE [run EXCEPT !.at = "crawling", !.count = @ + 1,
                                      !.counted = @ \cup {e.page}]
         ELSE UNCHANGED run
    /\ UNCHANGED <<protection, holder, retained, runs>>

\* interrupt_protected_scan, or recover_stale_protected_run_leases.
Interrupt ==
  /\ holder # 0 /\ LeavesAs("interrupted")
  /\ UNCHANGED <<retained, indexRow, runs, run, events>>

Deadline == retained /\ retained' = FALSE /\ UNCHANGED <<protection, holder, indexRow, runs, run, events>>

-----------------------------------------------------------------------------
(* The companion *)

\* A run has its work and the auditor has signed in.
StartRun ==
  /\ runs < MaxRuns /\ run.at = "over" /\ holder = 0 /\ retained
  /\ protection \notin {"running", "failed", "completed"}
  /\ runs' = runs + 1 /\ holder' = runs' /\ protection' = "running"
  /\ run' = [NoRun EXCEPT !.at = "crawling", !.seen = {Entry}, !.todo = {Entry}]
  /\ UNCHANGED <<retained, indexRow, events>>

GoesOn == run.at = "crawling" /\ run.todo # {} /\ run.count < MaxPages

\* The page is not HTML or has an error status.
Unusable ==
  /\ GoesOn
  /\ \E u \in run.todo : run' = [run EXCEPT !.todo = @ \ {u}]
  /\ UNCHANGED <<protection, holder, retained, indexRow, runs, events>>

\* The page is analysed and reported under the address it landed on, with its
\* first findings, and its links are followed.  Alfa may not have run.
Report ==
  /\ GoesOn
  /\ \E u \in run.todo, p \in Url, L \in SUBSET Lead, E \in {{"axe"}, Engine}, links \in SUBSET Url :
       /\ events' = events \cup {[by |-> runs, page |-> p, leads |-> L, engines |-> E]}
       /\ run' = [run EXCEPT !.at = "waiting", !.seen = @ \cup links,
                             !.todo = (@ \ {u}) \cup (links \ run.seen)]
  /\ UNCHANGED <<protection, holder, retained, indexRow, runs>>

\* The run ends, and its last event sets the report's status if it arrives and
\* the run still has the lease.
EndsAs(s) ==
  /\ run' = NoRun
  /\ \/ Authorized(runs) /\ LeavesAs(s)
     \/ UNCHANGED <<protection, holder>>
  /\ UNCHANGED <<retained, indexRow, runs, events>>

\* The session has expired: the page asks for a sign-in or cannot be loaded.
SignedOut == GoesOn /\ EndsAs("authentication_required")

\* A page too large to read: the event about it has details agent_event does
\* not allow, and its refusal (422) is an error like any other.
TooLarge == GoesOn /\ EndsAs("failed")

\* No answer comes to a page event, or the companion is stopped.
GivesUp == run.at = "waiting" /\ \E s \in {"failed", "interrupted"} : EndsAs(s)

Completed == run.at = "crawling" /\ ~GoesOn /\ EndsAs("completed")

IndexNext ==
  \/ Deliver \/ Interrupt \/ Deadline
  \/ StartRun \/ Unusable \/ Report \/ SignedOut \/ TooLarge \/ GivesUp \/ Completed

IndexSpec == IndexInit /\ [][IndexNext]_indexVars

-----------------------------------------------------------------------------
(* Properties *)

\* The totals of a report are those of its pages: each page is counted once,
\* with the engines that evaluated it, over lost answers and later runs
\* (record_protected_page_index).
TotalsExact ==
  /\ axeCount = Cardinality({u \in indexed : "axe" \in engines[u]})
  /\ alfaCount = Cardinality({u \in indexed : "alfa" \in engines[u]})
  /\ pageCount = Cardinality(indexed)

\* The pages stay within the limit, whichever runs found them.
WithinLimit == Cardinality(indexed) <= MaxPages

\* What a run tells its auditor it indexed is in the report.
CountedIsIndexed == run.counted \subseteq indexed

\* A report's page index: exact, within its limit, and holding what the
\* companion counts.
IndexIsSound == IndexTypeOK /\ TotalsExact /\ WithinLimit /\ CountedIsIndexed
=============================================================================
