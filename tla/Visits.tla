------------------------------- MODULE Visits -------------------------------
(***************************************************************************)
(* How the workers of a crawl visit pages: the browser tab a visit uses    *)
(* and the order of its checks (JsFetcher.fetch in src/audit/crawler/      *)
(* js_fetcher.py, _process_job in src/audit/crawler/orchestrator.py), and  *)
(* the table of checks that the progress page shows (src/audit/crawler/    *)
(* live_progress.py).                                                      *)
(*                                                                         *)
(* A signed-in scan has a pool of tabs that stay open from page to page;   *)
(* other scans make a new one for each fetch (Tab is empty then).  Some    *)
(* checks change the document they run on.  A check can be cut off by an   *)
(* exception, which fails the visit; the page is visited again later.      *)
(*                                                                         *)
(* ReadAsIs is wrong on purpose: a slip of the definition it precedes,     *)
(* kept to show that the property notices it.                              *)
(***************************************************************************)
EXTENDS Integers, FiniteSets

CONSTANTS
  Visitor,    \* the workers of the crawl
  Address,    \* the pages
  Tab,        \* the pooled tabs
  OwnTab,     \* a tab made for one fetch
  Enabled,    \* the checks the scan's settings turn on
  Keep,       \* _KEEP_FINISHED
  CheckedRows, \* _PROGRESS_CHECKED_ROWS
  MaxVisits   \* bound on the visits of a page

ASSUME VisitsAssumption ==
  OwnTab \notin Tab /\ IsFiniteSet(Tab) /\ {Keep, CheckedRows, MaxVisits} \subseteq Nat

VARIABLES
  visit,    \* what each worker does: the page, the tab, the checks left
  pool,     \* _shared_page_pool
  altered,  \* the pooled tabs whose document a check changed since it loaded
  table,    \* live_progress._scans of the scan: an ordered map from pages, of
            \* which each entry knows the pages that were put in after it
  ended,    \* the checks that ran to their end in each page's last visit
  visits,   \* how often each page was visited
  astray    \* evidence of a page as it loads was read from a changed document

visitVars == <<visit, pool, altered, table, ended, visits, astray>>

\* The checks in the order of a visit: those of fetch, then those of _process_job.
Order == <<"axe", "keyboard", "focus", "visual", "interaction", "responsive", "screenshots", "search",
           "image", "alfa", "semantic">>
AllChecks == {Order[i] : i \in DOMAIN Order}
Afterwards == {"image", "alfa", "semantic"}
InBrowser == AllChecks \ Afterwards

\* The one that comes first of those left.
First(left) ==
  Order[CHOOSE i \in DOMAIN Order : Order[i] \in left /\ \A j \in 1..(i - 1) : Order[j] \notin left]

\* The checks the table has a column for (_tracked_checks).
Tracked == Enabled \cap {"axe", "keyboard", "responsive", "interaction", "alfa", "image", "semantic"}

\* axe must see the page as it loads; these change it.
Altering == {"keyboard", "focus", "interaction", "responsive", "screenshots", "search"}
CheckState == {"waiting", "running", "done", "not_run"}

Away == [at |-> "away"]
NoPages == [u \in {} |-> {}]
Visit == [at : {"begun", "opening", "loaded", "checking", "storing"}, page : Address,
          tab : Tab \cup {OwnTab}, left : SUBSET AllChecks, under : BOOLEAN]

PageEntry == [finished : BOOLEAN, checks : [Tracked -> CheckState], newer : SUBSET Address]

VisitsTypeOK ==
  /\ visit \in [Visitor -> Visit \cup {Away}]
  /\ pool \in SUBSET Tab /\ altered \in SUBSET Tab
  /\ DOMAIN table \subseteq Address /\ \A u \in DOMAIN table : table[u] \in PageEntry
  /\ ended \in [Address -> SUBSET AllChecks] /\ visits \in [Address -> 0..MaxVisits]
  /\ astray \in BOOLEAN

VisitsInit ==
  /\ visit = [w \in Visitor |-> Away] /\ pool = Tab /\ altered = {} /\ table = NoPages
  /\ ended = [u \in Address |-> {}] /\ visits = [u \in Address |-> 0] /\ astray = FALSE

-----------------------------------------------------------------------------
(* live_progress *)

\* page() puts a new entry at the end of the map.
Entered(u) ==
  [p \in DOMAIN table \cup {u} |->
     IF p = u THEN [finished |-> FALSE, checks |-> [k \in Tracked |-> "waiting"], newer |-> {}]
     ELSE [table[p] EXCEPT !.newer = @ \cup {u}]]

\* _set: the page's entry, if the table follows the check.
Marked(u, k, state) ==
  [p \in DOMAIN table |-> IF p = u /\ k \in Tracked THEN [table[p] EXCEPT !.checks[k] = state]
                          ELSE table[p]]

Settled(state) == IF state = "done" THEN state ELSE "not_run"

\* _trim: all but the newest finished entries go.
Over(t) == {p \in DOMAIN t : t[p].finished}
Remaining(t) == {p \in DOMAIN t : t[p].finished => Cardinality(t[p].newer \cap Over(t)) < Keep}
Trimmed(t) == [p \in Remaining(t) |-> [t[p] EXCEPT !.newer = @ \cap Remaining(t)]]

\* The end of page(): checks that are not done never ran.
Closed(u) ==
  Trimmed([p \in DOMAIN table |->
             IF p = u THEN [finished |-> TRUE, newer |-> table[p].newer,
                            checks |-> [k \in Tracked |-> Settled(table[p].checks[k])]]
             ELSE table[p]])

-----------------------------------------------------------------------------
(* A visit *)

Visited == {visit[w].page : w \in {v \in Visitor : visit[v].at # "away"}}

\* The queue gives a page to one worker (JobQueue).
Enter(w) ==
  /\ visit[w] = Away
  /\ \E u \in Address \ Visited :
       /\ visits[u] < MaxVisits /\ visits' = [visits EXCEPT ![u] = @ + 1]
       /\ visit' = [visit EXCEPT ![w] = [at |-> "begun", page |-> u, tab |-> OwnTab,
                                         left |-> {}, under |-> FALSE]]
       /\ table' = Entered(u)
       /\ ended' = [ended EXCEPT ![u] = {}]
  /\ UNCHANGED <<pool, altered, astray>>

\* The visit goes on as v; the tab it does not use any more goes back.
Proceed(w, v) ==
  /\ visit' = [visit EXCEPT ![w] = v]
  /\ pool' = IF visit[w].tab \in Tab /\ (v = Away \/ v.tab = OwnTab)
             THEN pool \cup {visit[w].tab} ELSE pool

Leave(w) ==
  /\ Proceed(w, Away) /\ table' = Closed(visit[w].page)
  /\ UNCHANGED <<altered, ended, visits, astray>>

\* The checks that need no browser; none if the page has an error status.
ThenStore(w) ==
  \E left \in {{}, Afterwards \cap Enabled} :
    Proceed(w, [visit[w] EXCEPT !.at = "storing", !.tab = OwnTab, !.left = left])

\* The page is fetched without the browser, or the browser failed on it.
FetchPlain(w) ==
  /\ visit[w].at = "begun" /\ ThenStore(w)
  /\ UNCHANGED <<altered, table, ended, visits, astray>>

\* fetch waits for a pooled tab, or makes its own.
Open(w) ==
  /\ visit[w].at = "begun"
  /\ \E t \in IF Tab = {} THEN {OwnTab} ELSE pool :
       /\ visit' = [visit EXCEPT ![w].at = "opening", ![w].tab = t]
       /\ pool' = pool \ {t}
  /\ UNCHANGED <<altered, table, ended, visits, astray>>

\* goto fails, or the page is too large: FetchError.  There may be a plain
\* document to go on with.
OpenFails(w) ==
  /\ visit[w].at = "opening"
  /\ ThenStore(w) \/ Proceed(w, [visit[w] EXCEPT !.at = "storing", !.tab = OwnTab, !.left = {}])
  /\ UNCHANGED <<altered, table, ended, visits, astray>>

ReadAsIs(w, same) == IF same THEN altered ELSE altered \ {visit[w].tab}

\* A navigation within the document the tab has (same) gives no response, and
\* the tab is reloaded.
LoadedAnew(w, same) == altered \ {visit[w].tab}

LoadPage(w) ==
  /\ visit[w].at = "opening"
  /\ \E same \in BOOLEAN : altered' = LoadedAnew(w, same)
  /\ visit' = [visit EXCEPT ![w].at = "loaded"]
  /\ UNCHANGED <<pool, table, ended, visits, astray>>

\* The document, its CSS and frames.  The checks are for successful HTML only.
Read(w) ==
  /\ visit[w].at = "loaded" /\ astray' = (astray \/ visit[w].tab \in altered)
  /\ \E left \in {{}, InBrowser \cap Enabled} :
       visit' = [visit EXCEPT ![w].at = "checking", ![w].left = left]
  /\ UNCHANGED <<pool, altered, table, ended, visits>>

\* with live_progress.check(k): ... and k itself.
StartCheck(w) ==
  /\ visit[w].at \in {"checking", "storing"} /\ visit[w].left # {} /\ ~visit[w].under
  /\ LET k == First(visit[w].left)
     IN /\ table' = Marked(visit[w].page, k, "running")
        /\ astray' = (astray \/ (k = "axe" /\ visit[w].tab \in altered))
        /\ altered' = IF k \in Altering /\ visit[w].tab \in Tab
                      THEN altered \cup {visit[w].tab} ELSE altered
  /\ visit' = [visit EXCEPT ![w].under = TRUE]
  /\ UNCHANGED <<pool, ended, visits>>

EndCheck(w) ==
  /\ visit[w].at \in {"checking", "storing"} /\ visit[w].under
  /\ LET k == First(visit[w].left)
     IN /\ table' = Marked(visit[w].page, k, "done")
        /\ ended' = [ended EXCEPT ![visit[w].page] = @ \cup {k}]
        /\ visit' = [visit EXCEPT ![w].under = FALSE, ![w].left = @ \ {k}]
  /\ UNCHANGED <<pool, altered, visits, astray>>

\* fetch returns, its finally having given the tab back.
Fetched(w) ==
  /\ visit[w].at = "checking" /\ visit[w].left = {} /\ ThenStore(w)
  /\ UNCHANGED <<altered, table, ended, visits, astray>>

\* An exception at any point, or the crawl is cancelled.
Raise(w) == visit[w].at # "away" /\ Leave(w)

Complete(w) == visit[w].at = "storing" /\ visit[w].left = {} /\ Leave(w)

\* run_crawl, once no worker is left.
Forget ==
  /\ \A w \in Visitor : visit[w] = Away
  /\ table # NoPages /\ table' = NoPages
  /\ UNCHANGED <<visit, pool, altered, ended, visits, astray>>

VisitsNext ==
  \/ \E w \in Visitor :
       \/ Enter(w) \/ FetchPlain(w) \/ Open(w) \/ OpenFails(w) \/ LoadPage(w) \/ Read(w)
       \/ StartCheck(w) \/ EndCheck(w) \/ Fetched(w) \/ Raise(w) \/ Complete(w)
  \/ Forget

VisitsSpec == VisitsInit /\ [][VisitsNext]_visitVars

-----------------------------------------------------------------------------
(* The progress page *)

RowOf(u, state, checks) == [page |-> u, state |-> state, checks |-> checks]

\* _page_checks, by what the queue said a moment before: the pages under check,
\* those that wait, and the last ones fetched.
PageChecks(checking, waiting, recent) ==
  LET rest == Over(table) \ checking
      newest == {u \in rest : Cardinality(table[u].newer \cap rest) < CheckedRows}
  IN {RowOf(u, "checking", {table[x].checks : x \in {u} \cap (DOMAIN table \ Over(table))}) :
        u \in checking}
     \cup {RowOf(u, "checked", {table[u].checks}) : u \in newest}
     \cup {RowOf(u, "checked", {}) : u \in IF Over(table) = {} THEN recent \ checking ELSE {}}
     \cup {RowOf(u, "waiting", {}) : u \in waiting}

-----------------------------------------------------------------------------
(* Properties *)

\* The table says of a page that is done which of its checks ran to their end,
\* and of none that it still waits or runs; the page's earlier visits and the
\* other workers do not show in it (live_progress.page).
ShownAsRun ==
  \A u \in Over(table) :
    table[u].checks = [k \in Tracked |-> IF k \in ended[u] THEN "done" ELSE "not_run"]

\* The table follows the pages under way, and no more than Keep of the others
\* (live_progress._trim).
TableIsBounded ==
  /\ Visited = DOMAIN table \ Over(table)
  /\ Cardinality(Over(table)) <= Keep

\* A pooled tab is in one fetch or in the pool, whatever ended the last fetch.
TabsAccounted ==
  \A t \in Tab : Cardinality({w \in Visitor : visit[w].at # "away" /\ visit[w].tab = t})
                 = IF t \in pool THEN 0 ELSE 1

\* What is kept of a page as it loads comes from no document that a check of
\* this visit, or of an earlier one in the same tab, has changed (fetch).
ReadAsLoaded == ~astray

\* However old what the queue said, the progress page has one row at most for a
\* page that is or was checked, tells of no check as done that did not run to its
\* end in the page's last visit, and of none as waiting or running on a page that
\* no worker visits (_page_checks).
RowsAreTrue ==
  DOMAIN table # {} => \A checking, recent \in SUBSET Address :
    LET rows == PageChecks(checking, {}, recent)
    IN /\ \A q, r \in rows : q.page = r.page => q = r
       /\ \A r \in rows : \A c \in r.checks : \A k \in Tracked :
            /\ c[k] = "done" => k \in ended[r.page]
            /\ c[k] \in {"waiting", "running"} => r.page \in Visited

\* What the progress page and the fetches rely on (live_progress.py, js_fetcher.py).
VisitsAreTrue == VisitsTypeOK /\ ShownAsRun /\ TableIsBounded /\ RowsAreTrue /\ TabsAccounted /\ ReadAsLoaded
=============================================================================
