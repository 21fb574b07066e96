------------------------------ MODULE Settings ------------------------------
(***************************************************************************)
(* The settings of a scan: what the New scan form, the sign-in form and    *)
(* the command line ask for (src/audit/web/server.py, cli.py), what is     *)
(* stored on the scan's row (crawler/orchestrator.py config_json_for_scan),*)
(* what a crawl that takes a row over does with it, and what "Edit settings*)
(* and retry" reads back (web/scan_settings.py).                           *)
(*                                                                         *)
(* All scans are of one seed.  The server runs one crawl at a time; the    *)
(* command line may run another on the same database.  Scans has the steps *)
(* of a stop, Crawl those of the workers.                                  *)
(*                                                                         *)
(* TakeVersion is wrong on purpose: a slip of the definition it precedes,  *)
(* kept to show that the property notices it.                              *)
(***************************************************************************)
EXTENDS Scope, FiniteSets, FiniteSetsExt

CONSTANTS
  Version, Legacy, Newest,  \* WCAG versions, that of rows without one, the default
  Page, Home,               \* the site's pages, and the one a scan starts from
  Link,                     \* the pages each links to
  SessionEnding,            \* those the default patterns block
  Disallowed,               \* those robots.txt refuses
  Answer,                   \* how the site may answer for it: "rules", "none", "down"
  Body,                     \* what a plain fetch gets of each
  Direct,                   \* skip_static_when_rendering, which no form sets
  Asked, AskedSignedIn, AskedCli,  \* what is asked for in these scans
  MaxLimit, DefaultLimit, Boundless, \* the most pages, those if none are named, no limit
  Missing,                  \* what an older row does not have
  MaxRows, MaxCrawls

ASSUME SettingsAssumption ==
  /\ {Legacy, Newest} \subseteq Version /\ Missing \notin Version \cup Nat
  /\ Page \subseteq SiteUrl /\ Home \in Page /\ Link \in [Page -> SUBSET Page]
  /\ SessionEnding \cup Disallowed \subseteq Page
  /\ Body \in [Page -> [status : Nat, html : BOOLEAN, empty : BOOLEAN, sparse : BOOLEAN, refresh : BOOLEAN,
                       signal : BOOLEAN, mountEmpty : BOOLEAN, marker : BOOLEAN]]
  /\ Answer \subseteq {"rules", "none", "down"} /\ Direct \in BOOLEAN /\ {MaxRows, MaxCrawls} \subseteq Nat
  /\ MaxLimit \in Nat /\ DefaultLimit \in 1 .. MaxLimit /\ Boundless \notin Nat

VARIABLES
  rows,  \* the scans rows, oldest first
  crawls,   \* what the server and the command line are running
  used,  \* the settings each crawl so far ran with
  robots \* how the site answers for robots.txt

settingsVars == <<rows, crawls, used, robots>>

Check == {"axe", "alfa", "interaction", "keyboard"}  \* "keyboard" for the other probes
Config == [methods : SUBSET Check, eager : BOOLEAN, version : Version \cup {Missing}, wide : BOOLEAN,
           ignoreRobots : BOOLEAN, blocks : BOOLEAN, limit : Nat \cup {Boundless, Missing},
           resumable : BOOLEAN \cup {Missing}, browserOnly : BOOLEAN]
Form == [engine : (SUBSET {"axe", "alfa"}) \ {{}}, static : BOOLEAN, skip : SUBSET {"interaction", "keyboard"},
         version : Version, wide : BOOLEAN, ignoreRobots : BOOLEAN, all : BOOLEAN,
         limit : (0 .. MaxLimit + 1) \cup {Missing}]

Runner == {"server", "cli"}
NotRunning == [at |-> "idle"]
ScanRow == [status : {"running", "interrupted", "completed", "failed"}, pending : SUBSET Page,
        done : SUBSET Page, stored : Config, signedIn : BOOLEAN,
        got : SUBSET (Nat \X Page \X {"plain", "browser", "none"})]

ASSUME AskedAssumption ==
  /\ Asked \cup AskedSignedIn \subseteq Form
  /\ AskedCli \subseteq {c \in Config : c.version \in Version /\ c.resumable = TRUE /\ ~c.browserOnly}

SettingsTypeOK ==
  /\ rows \in Seq(ScanRow) /\ used \in Seq(Config) /\ robots \in Answer
  /\ crawls \in [Runner -> {NotRunning} \cup
       [at : {"asked", "crawling"}, shown : Nat, row : Nat, id : Nat, config : Config]]

-----------------------------------------------------------------------------
(* The forms and the settings *)

\* limit_refusal: a limit that is named has to be in range.
LimitRefused(f) == ~f.all /\ f.limit # Missing /\ f.limit \notin 1 .. MaxLimit

\* api_create_scan: alfa: that engine is installed.
FormRefused(f, alfa) ==
  \/ "alfa" \in f.engine /\ ~alfa
  \/ f.static /\ "axe" \in f.engine
  \/ LimitRefused(f)

\* _build_crawl_config, of a form that was not refused.
Build(f) ==
  [methods |-> f.engine
     \cup (IF f.static \/ "axe" \notin f.engine THEN {} ELSE {"interaction"} \ f.skip)
     \cup ({"keyboard"} \ f.skip),
   eager |-> ~f.static, version |-> f.version, wide |-> f.wide, ignoreRobots |-> f.ignoreRobots,
   blocks |-> TRUE, resumable |-> TRUE, browserOnly |-> FALSE,
   limit |-> IF f.all THEN Boundless ELSE IF f.limit = Missing THEN DefaultLimit ELSE f.limit]

\* api_create_local_login_scan, of the form LocalLoginScanRequest accepts.
BuildSignedIn(f) ==
  [Build([f EXCEPT !.static = FALSE]) EXCEPT
     !.ignoreRobots = TRUE, !.resumable = FALSE, !.browserOnly = TRUE]

\* LocalLoginScanRequest: what the sign-in form may not ask for.
SignInRefused(f) == f.all \/ LimitRefused(f)

\* run_crawl: the engines a scan is given; axe needs the file it comes in, and
\* click-through needs axe.
Engines(c, bundle) ==
  LET rule == IF bundle THEN c.methods \cap {"axe"} ELSE {}
  IN rule \cup (c.methods \cap {"alfa", "keyboard"})
       \cup (IF rule = {} THEN {} ELSE c.methods \cap {"interaction"})

\* _run_local_login_background attaches those of its own browser itself.
EnginesSignedIn(c) ==
  c.methods \cap (IF "axe" \in c.methods THEN Check ELSE Check \ {"interaction"})

\* stored_wcag_version
StoredVersion(c) == IF c.version = Missing THEN Legacy ELSE c.version

\* snapshot_from_config: the form that the stored settings came from.
ReadBack(c) ==
  [engine |-> IF "alfa" \in c.methods THEN c.methods \cap {"axe", "alfa"} ELSE {"axe"},
   static |-> ~c.eager, skip |-> {"interaction", "keyboard"} \ c.methods,
   version |-> StoredVersion(c), wide |-> c.wide, ignoreRobots |-> c.ignoreRobots,
   all |-> c.limit = Boundless, limit |-> IF c.limit \in Nat THEN c.limit ELSE DefaultLimit]

\* _mode: a form the signed-in scan is started from again.
Mode(c) == IF c.browserOnly /\ c.resumable = FALSE THEN "login" ELSE "public"

-----------------------------------------------------------------------------
(* Rows *)

Adoptable(r) == rows[r].stored.resumable # FALSE
LatestOf(S) == IF S = {} THEN 0 ELSE Max(S)

\* _prepare_scan_row takes an interrupted row over whatever is left of it,
\* _ensure_scan one that still has work.
ForServer == LatestOf({r \in DOMAIN rows : rows[r].status \in {"running", "interrupted"} /\ Adoptable(r)})
ForCrawl == LatestOf({r \in DOMAIN rows :
              /\ Adoptable(r)
              /\ rows[r].status = "running" \/ (rows[r].status = "interrupted" /\ rows[r].pending # {})})

TakeVersion(r, c) == c

\* _keep_stored_wcag_version: a row keeps the version it started with.
KeepVersion(r, c) == [c EXCEPT !.version = StoredVersion(rows[r].stored)]

Started(c, signedIn) == [status |-> "running", pending |-> {}, done |-> {}, stored |-> c,
                         signedIn |-> signedIn, got |-> {}]
TakenOver(r, c) == [rows EXCEPT ![r].status = "running", ![r].stored = KeepVersion(r, c)]

InScope(c, page) == isInScope(page, buildScope(Canonical(Home), c.wide), FALSE)
BlocksPage(c, page) == c.blocks /\ page \in SessionEnding

SettingsInit ==
  /\ robots \in Answer /\ crawls = [p \in Runner |-> NotRunning]
  /\ \/ rows = <<>> /\ used = <<>>
     \/ \E c \in AskedCli :  \* a row from before the version was stored
          /\ InScope(c, Home) /\ ~BlocksPage(c, Home)
          /\ LET old == [c EXCEPT !.version = Missing, !.resumable = Missing, !.limit = Missing,
                                !.ignoreRobots = TRUE]
             IN /\ used = <<[old EXCEPT !.version = Legacy]>>
                /\ rows = <<[Started(old, FALSE) EXCEPT !.status = "interrupted", !.done = {Home},
                               !.pending = Link[Home], !.got = {<<1, Home, "browser">>}]>>

\* api_create_scan and _prepare_scan_row.
Ask ==
  /\ crawls["server"] = NotRunning /\ Len(used) < MaxCrawls
  /\ \E f \in Asked, alfa \in BOOLEAN :
       /\ ~FormRefused(f, alfa)
       /\ LET r == ForServer
              n == IF r = 0 THEN Len(rows) + 1 ELSE r
          IN /\ n <= MaxRows
             /\ rows' = IF r = 0 THEN Append(rows, Started(Build(f), FALSE)) ELSE TakenOver(r, Build(f))
             /\ crawls' = [crawls EXCEPT !["server"] =
                  [at |-> "asked", shown |-> n, row |-> 0, id |-> 0, config |-> Build(f)]]
  /\ UNCHANGED <<used, robots>>

\* api_start_local_sign_in_scan: always a row of its own, which the crawl is
\* told.
AskAsSignedIn ==
  /\ crawls["server"] = NotRunning /\ Len(used) < MaxCrawls /\ Len(rows) < MaxRows
  /\ \E f \in AskedSignedIn :
       /\ ~SignInRefused(f)
       /\ rows' = Append(rows, Started(BuildSignedIn(f), TRUE))
       /\ crawls' = [crawls EXCEPT !["server"] = [at |-> "asked", shown |-> Len(rows) + 1, row |-> Len(rows) + 1,
                                            id |-> 0, config |-> BuildSignedIn(f)]]
  /\ UNCHANGED <<used, robots>>

AskOnCommandLine ==
  /\ crawls["cli"] = NotRunning /\ Len(used) < MaxCrawls
  /\ \E c \in AskedCli :
       crawls' = [crawls EXCEPT !["cli"] = [at |-> "asked", shown |-> 0, row |-> 0, id |-> 0, config |-> c]]
  /\ UNCHANGED <<rows, used, robots>>

-----------------------------------------------------------------------------
(* The crawl *)

\* RobotsChecker: a site without the file allows all, as one that cannot be
\* reached does, and one that is down allows none.
RobotsAllow(c, page) ==
  \/ c.ignoreRobots
  \/ robots = "none"
  \/ robots = "rules" /\ page \notin Disallowed

\* run_crawl: _ensure_scan, _purge_out_of_scope_jobs, _seed_queue.
BeginCrawl ==
  /\ Len(used) < MaxCrawls
  /\ \E p \in Runner :
       /\ crawls[p].at = "asked"
       /\ LET x == crawls[p]
              r == IF x.row # 0 THEN x.row ELSE ForCrawl
              n == IF r = 0 THEN Len(rows) + 1 ELSE r
              c == IF r = 0 THEN x.config ELSE KeepVersion(r, x.config)
              held == IF r = 0 THEN Append(rows, Started(c, FALSE)) ELSE TakenOver(r, x.config)
          IN /\ n <= MaxRows /\ used' = Append(used, c)
             /\ rows' = [held EXCEPT ![n].pending =
                  {q \in @ : InScope(c, q)} \cup ({Home} \ held[n].done)]
             /\ crawls' = [crawls EXCEPT ![p] =
                  [x EXCEPT !.at = "crawling", !.row = n, !.id = Len(used) + 1, !.config = c]]
  /\ UNCHANGED robots

\* An engine that was there when the scan was asked for is not: run_crawl
\* raises, and the server marks the newest running row failed.
EngineGone ==
  /\ crawls["server"].at = "crawling" /\ "alfa" \in crawls["server"].config.methods
  /\ \A x \in rows[crawls["server"].row].got : x[1] # crawls["server"].id
  /\ LET x == crawls["server"]
         r == IF x.config.browserOnly THEN x.row
              ELSE LatestOf({k \in DOMAIN rows : rows[k].status = "running"})
     IN rows' = IF r = 0 THEN rows ELSE [rows EXCEPT ![r].status = "failed"]
  /\ crawls' = [crawls EXCEPT !["server"] = NotRunning]
  /\ UNCHANGED <<used, robots>>

\* is_js_only: the content comes from scripts; is_challenge_response: a bot
\* check answered in the page's place.
IsJsOnly(b) == ~b.empty /\ (b.sparse \/ b.refresh \/ (b.signal /\ b.mountEmpty))
IsChallenge(b) == b.status \in {403, 429, 503} /\ ~b.empty /\ b.marker

\* _should_escalate_to_js, of what the plain fetch got.
EscalatesToJs(c, b) ==
  \/ b.html /\ c.eager
  \/ b.html /\ b.status \in 200 .. 299 /\ IsJsOnly(b)
  \/ IsChallenge(b)

\* StaticFetcher.fetch: any answer is a page, and a network failure is none.
PlainFetch == {"plain", "none"}
\* _renders_without_static_fetch
GoesStraight(c) == Direct /\ c.eager /\ ~c.browserOnly

\* _process_job: how a page is got, if it is.  A signed-in scan goes by its
\* browser only; another falls back on what the plain fetch got.
Fetch(c, page) ==
  IF c.browserOnly THEN {"browser", "none"}
  ELSE PlainFetch \cup (IF GoesStraight(c) \/ EscalatesToJs(c, Body[page]) THEN {"browser"} ELSE {})

\* _enqueue_children, of what the page links to.
Children(c, page, r) ==
  {q \in Link[page] : InScope(c, q) /\ ~BlocksPage(c, q)} \ (rows[r].done \cup {page})

FetchedBy(x) == Cardinality({g \in rows[x.row].got : g[1] = x.id /\ g[3] # "none"})
LimitReached(x) == x.config.limit \in Nat /\ FetchedBy(x) >= x.config.limit

VisitPage ==
  /\ \E p \in Runner : crawls[p].at = "crawling" /\ ~LimitReached(crawls[p]) /\
       LET x == crawls[p]
           c == x.config
           r == x.row
       IN \E page \in rows[r].pending :
            IF InScope(c, page) /\ ~BlocksPage(c, page) /\ RobotsAllow(c, page)
            THEN \E way \in Fetch(c, page) :
                   rows' = [rows EXCEPT ![r].done = @ \cup {page}, ![r].got = @ \cup {<<x.id, page, way>>},
                              ![r].pending = (@ \ {page}) \cup
                                 (IF way = "none" THEN {} ELSE Children(c, page, r))]
            ELSE rows' = [rows EXCEPT ![r].done = @ \cup {page}, ![r].pending = @ \ {page}]
  /\ UNCHANGED <<crawls, used, robots>>

\* _finalize_scan
End ==
  /\ \E p \in Runner :
       /\ crawls[p].at = "crawling" /\ (rows[crawls[p].row].pending = {} \/ LimitReached(crawls[p]))
       /\ rows' = [rows EXCEPT ![crawls[p].row].status = "completed"]
       /\ crawls' = [crawls EXCEPT ![p] = NotRunning]
  /\ UNCHANGED <<used, robots>>

\* Interrupted, on the command line or by the stop of api_cancel_scan: that
\* clears the work of the row it was asked for.
InterruptCrawl ==
  /\ \E p \in Runner :
       /\ crawls[p] # NotRunning
       /\ LET x == crawls[p]
              ended == IF x.at = "crawling" THEN [rows EXCEPT ![x.row].status = "interrupted"] ELSE rows
          IN rows' = IF p = "server" /\ rows[x.shown].status = "running"
                     THEN [ended EXCEPT ![x.shown].status = "interrupted", ![x.shown].pending = {}]
                     ELSE ended
       /\ crawls' = [crawls EXCEPT ![p] = NotRunning]
  /\ UNCHANGED <<used, robots>>

\* The process dies, and its row keeps saying that it runs.
Dies ==
  /\ \E p \in Runner : crawls[p] # NotRunning /\ crawls' = [crawls EXCEPT ![p] = NotRunning]
  /\ UNCHANGED <<rows, used, robots>>

SettingsNext ==
  \/ Ask \/ AskAsSignedIn \/ AskOnCommandLine \/ BeginCrawl \/ EngineGone \/ VisitPage \/ End \/ InterruptCrawl \/ Dies

SettingsSpec == SettingsInit /\ [][SettingsNext]_settingsVars

-----------------------------------------------------------------------------
(* Properties *)

\* All evidence of a scan was collected under the WCAG version that the row
\* names, however many crawls took the row over (_keep_stored_wcag_version).
OneVersion ==
  \A r \in DOMAIN rows : \A g \in rows[r].got : used[g[1]].version = StoredVersion(rows[r].stored)

\* The report of a signed-in scan holds what one crawl got with its browser,
\* and what it holds is never anybody else's (resumable, browser_only).
SignedInIsAlone ==
  \A r \in DOMAIN rows : rows[r].signedIn =>
    /\ Cardinality({g[1] : g \in rows[r].got}) <= 1
    /\ \A g \in rows[r].got : g[3] # "plain" /\ used[g[1]].browserOnly
    /\ Mode(rows[r].stored) = "login"

\* No crawl fetches a page its own settings refuse, though another crawl with
\* other settings queued it (_process_job).
OnlyAsAsked ==
  \A r \in DOMAIN rows : \A g \in rows[r].got :
    InScope(used[g[1]], g[2]) /\ ~BlocksPage(used[g[1]], g[2]) /\ RobotsAllow(used[g[1]], g[2])

\* A scan started again from what is read back of its settings is not refused
\* and has the same settings (scan_settings.py).  The checks that the settings
\* name are those that are run, with and without a sign-in.
RetryIsTheSame ==
  \A f \in Form : ~FormRefused(f, TRUE) =>
    /\ ~FormRefused(ReadBack(Build(f)), TRUE) /\ Build(ReadBack(Build(f))) = Build(f)
    /\ BuildSignedIn(ReadBack(BuildSignedIn(f))) = BuildSignedIn(f)
    /\ Mode(Build(f)) = "public"
    /\ Engines(Build(f), TRUE) = Build(f).methods
    /\ ~SignInRefused(f) => EnginesSignedIn(BuildSignedIn(f)) = Engines(Build([f EXCEPT !.static = FALSE]), TRUE)

\* Scopes and spellings agree, for every address; and whatever settings a row
\* is taken over with, the site's home stays in the scope they give, so that a
\* crawl that goes on never loses the page it started from (_ensure_scan).
ScopeHolds == ScopeIsSound /\ \A r \in DOMAIN rows : InScope(rows[r].stored, Home)

\* What is asked of a scan is what it does, and all it does.
SettingsHold ==
  SettingsTypeOK /\ OneVersion /\ SignedInIsAlone /\ OnlyAsAsked /\ RetryIsTheSame /\ ScopeHolds
=============================================================================
