# A formal model of Axcess

Axcess scans a web site for accessibility problems on the user's own computer: a
crawler visits the site's pages in a browser, engines and probes examine each
page, and everything found is kept in one SQLite database that a local web
application shows. This directory holds TLA+ specifications of the parts of it
whose correctness depends on order, failure or concurrency, the configurations
that check them with TLC on small instances, and proofs, checked by TLAPS, that
hold for every instance.

Paths below are relative to the repository; `audit/` stands for `src/audit/`.

## 1. The system

One process holds everything: a FastAPI server (or the command line) on one
asyncio event loop, one SQLite database in WAL mode with autocommit statements,
and at most one crawl. Two helpers live outside it: the browsers Playwright
starts, and, for protected scans, a companion program on the auditor's computer
that talks to the server over HTTP.

| Component | State | Operations | What is hard about it |
| --- | --- | --- | --- |
| Job queue (`audit/db/queue.py`) | table `jobs` | enqueue, lease, complete, fail, reclaim_expired, pending_count | leases outlive their holders; retries; dedupe across runs |
| Crawl orchestrator (`audit/crawler/orchestrator.py`) | scan row, worker coroutines, `in_flight`, summary | run_crawl, _worker, _process_job, _finalize_scan | interleaving at every await; cancellation; crash between statements; resume |
| Entity rows (`audit/db/repo.py`) | pages, saved copies and states, findings and their history, counters | upserts, replacements, increments, decisions | a page is processed again after any prefix of its writes, while people decide on its findings |
| Scan lifecycle (`audit/web/server.py`) | scan rows of a seed, `crawl_state` | create, stop, delete, start-up sweep | cancellation is delivered later than it is requested; rows are shared between runs |
| Sign-in registry (`audit/web/local_sign_in.py`) | the one pending sign-in, its clock | add, take, cancel, fail, expire_due, window events | window events, timeouts and requests race |
| Sign-in session (`audit/protected/session.py`) | browser, context, kept sign-in | start, reopen_window, enter_scan_mode, switch_to_headless, close | callbacks from the browser arrive between awaits |
| Protected scans (`audit/protected/repository.py`, `audit/web/protected_api.py`, `audit/protected/companion.py`) | protection status, run lease, enrollment | create, claim, acquire lease, heartbeat, stop, recover, record page | leases held over a network by a program that may die |
| Page index of a protected report (`audit/protected/repository.py`, `companion.py`) | indexed pages, totals | record a page, report an event | a limit, lost answers, later runs |
| Erasure of protected data (`audit/protected/repository.py`, `audit/cli.py`) | keys, retention deadlines | retention worker, maintenance command, deletion | two processes, several steps each, one key manager or another |
| Live progress (`audit/crawler/live_progress.py`) | pages under way | page, check, forget | bounded, shared with readers |
| Rate limit (`audit/crawler/rate_limit.py`) | token bucket per host | take, throttle | waiters computed from a shared clock |
| Fetchers and their checks (`audit/crawler/js_fetcher.py`, `audit/analyzer/keyboard`, `focus`, `visual`, `responsive`) | a pool of tabs; a page's focus, window, style | fetch, walk, probe, photograph | the checks share a page and change it |
| Interaction probe (`audit/analyzer/interaction/`) | clicks, limits, dialogs, captures | run, _explore, _operate | clicks reveal controls and cover others; limits at every depth |
| Search (`audit/crawler/search.py`) | results followed, addresses | run | limits, results that are not links |
| Language checks and places (`audit/analyzer/semantic/`, `audit/extractor/`, `highlightTargets.ts`) | requests under way | analyse a page, name and find an element | any answer of a model; the page changes between reading and showing |
| Images and synthesizer (`audit/extractor/pipeline.py`, `audit/synthesizer/`) | images, analyses, findings, history | process_page, synthesize, diff | analyses are shared between scans and change later |
| Scan settings, scope, robots (`audit/web/scan_settings.py`, `audit/crawler/url_policy.py`) | stored configuration | form, command line, adoption, read back | several ways in, one row |
| Review and export readiness (`audit/evaluation.py`, `audit/web/export_readiness.py`) | evaluation, outcomes | save, complete, reopen, export | several statements per request, in threads |
| Issues and reports (`audit/web/issues.py`, `audit/exports/`) | none | list, file, render | read several times while rows change |
| Comparison and coverage (`audit/web/comparison.py`, `_methods_used`, `interaction_coverage.py`) | none | compare, tell | absence of evidence is not evidence of absence |
| Inspector (`audit/web/page_inspector.py`) | none | show a page or a state | read between two writes |
| Command line, desktop shell, MCP server (`audit/cli.py`, `desktop/`, `audit/mcp_server.py`) | child process | start, stop | process supervision |
| Front end (`audit/web/frontend/`) | browser state | polling, forms | presentation |

How they interact: the server prepares a scan row and starts `run_crawl` as a
task; `run_crawl` adopts the row and drives the queue; workers write entity rows;
the synthesizer runs when a crawl completes; readers query the database at any
time. A sign-in lives in the registry until it is handed over to a scan. Stop,
delete and shutdown reach a crawl only through asyncio cancellation.

What makes each of them correct:

- queue: a URL is queued once for a scan, held by one worker, settled once, and
  retried a bounded number of times;
- crawl: it ends, not before its work is done, stays within its page and depth
  limits, and every page it settled has a row;
- lifecycle: a row listed as running is being crawled, the row a reader follows is
  the one being written, a stopped scan stays stopped;
- sign-in: one at a time, its secrets gone when it ends, forgotten on time;
- protected scans: one companion at a time, whose authority ends with its lease; a key
  gone before its evidence is called erased, and not before its time;
- what is kept of a page: nothing lost, relabelled or mixed up by fetching it again, and
  every status the last decision of a person;
- what is found: in the state of the page the rule is about, and shown at the very
  element;
- what is told: coverage no larger than what was done, an absence only where the
  method was run, every row in a report once.

## 2. Modules

| Module | Models | Checked or proved by |
| --- | --- | --- |
| `JobQueue` | table `jobs` and each statement of `queue.py` as a function on it | used by `Crawl`; `Crawl_proofs` |
| `Crawl` | one scan: run_crawl, its workers, failures, resumed runs | runs `crawl_*`; `Crawl_proofs` |
| `CrawlLedger` | what the queue promises, without leases, retries or rows | `KeepsLedger`, `LedgerCorrect` |
| `Scans` | the scans of one address, `crawl_state` and its one crawl task, the requests that start, stop and delete | runs `scans*`; `Scans_proofs` |
| `SignIn` | one sign-in: registry entry, session, browser windows, hand-over to a scan | runs `sign_in*`; `SignIn_proofs` |
| `Companions` | protected reports, their enrollments, the run lease, and the companions that hold it | runs `companions*`; `Companions_proofs` |
| `Tenures` | what the run leases promise, without deadlines, codes, requests or restarts | `KeepsTenures`, `TenuresCorrect` |
| `Evidence`, `Inspector` | what the report keeps of a page through attempts and decisions, and what the Inspector shows of it | `RowsOnlyGrow`, `EvidenceIsShown`; `Report_proofs` |
| `Review` | an evaluation, its criteria and the exports released from it | `ReviewIsHonest`; `Report_proofs` |
| `Comparison`, `Probe`, `Coverage` | two scans and what may be said of their difference; the clicks on a page; what a reader is told was checked | `TotalsAreTrue`, `ClicksAreTrue`, `OperatedIsReal`; `Coverage_proofs` |
| `PageIndex` | the index of a protected report | `IndexIsSound`; `Protected_proofs` |
| `Erasure` | the end of a protected report | `ErasureIsExact`; `Protected_proofs` |
| `Pace` | how fast a host is fetched from | `HostIsSpared`; `Page_proofs` |
| `Visits` | tabs, the order of a visit's checks, the progress table | `VisitsAreTrue`; `Page_proofs` |
| `LiveChecks` | the keyboard, focus, visual and responsive checks in one tab | `ChecksAreTrue`; `Page_proofs` |
| `Searching` | the search of a site | `SearchIsHonest`; `Page_proofs` |
| `Places`, `Language` | naming an element and finding it again; the language checks | `PermitsReturn`, `OutlinesAreTrue`; `Page_proofs` |
| `Images` | text in images, from the page to the report and its history | `ImageReportHolds`, `LabelsStay`; `Report_proofs` |
| `Issues`, `Report` | the issues of a scan and the files and lists made of them | `NoRowIsLost`, `ReportIsTrue`; `Report_proofs` |
| `Scope`, `Settings` | addresses and scopes; the settings of a scan from the form to its retry | `SettingsHold`; `Coverage_proofs` |
| `MCCrawl`, `MCScans`, `MCSignIn`, `MCCompanions`, `MCParts` | small instances for TLC | |
| `Crawl_proofs`, `Scans_proofs`, `SignIn_proofs`, `Companions_proofs` | the theorems about these modules (section 5) | |
| `Protected_proofs` | the theorems about `PageIndex` and `Erasure` | |
| `Page_proofs` | those about what happens to one page: `Pace`, `Visits`, `Searching`, `LiveChecks`, `Places`, `Language` | |
| `Report_proofs` | those about what is kept and told: `Evidence`, `Inspector`, `Review`, `Images`, `Issues`, `Report` | |
| `Coverage_proofs` | those about how far a scan went: `Comparison`, `Probe`, `Coverage`, `Scope`, `Settings` | |

`Crawl` EXTENDS `JobQueue` and refines `CrawlLedger`. `Scans` and `SignIn` each
look at the crawl from one side: to `Scans` it is a task that owns a row and a
queue, to `SignIn` a task that takes the browser over. None of the three needs the
detail of the others, and together they would be out of TLC's reach. `Companions`
stands alone: a protected scan is crawled by the companion, not by `run_crawl`. It
refines `Tenures`.

### JobQueue and Crawl

`jobs` maps each URL to its row; `dedupe_key` is UNIQUE and holds the scan and the
URL, so a URL has at most one. Row ids order the leases. Time is reduced to
whether a lease has lapsed. `Crawl` adds the scan row's status, the process
(`phase`: down, setting up, crawling), the workers (`pc`, `held`), the shared
counter `inFlight`, the run's page count `fetched`, and what pages leave in the
database (`pageRow`, `axeRows`, `axePages`).

A worker action is what the coroutine does from one await to the next: `Lease` up
to the robots check and fetch; `Refuse`, `FetchFails` or `FetchPage` when those
return; `PersistAxe` when the images are in; `Finish` when Alfa and the language
checks are; `Raise` when any of them raises. `Exit` is the test an idle worker
makes. Statements commit one by one, so `Crash` may leave a half of an action
behind (`HalfDone`). `Cancel` and `WorkerDies` are the two ways the task group
ends early, and `BeginRun` is everything from `_ensure_scan` to `_seed_queue`.

Abstracted: what pages contain (a link list, whether they are usable HTML,
whether they can fail), which fetcher answered, and the evidence of the engines
other than axe, whose writes Evidence has in full.

### Scans

`crawl_state` is `shown` (its scan_id) and `place`, where the task is: `created`
but not begun, `starting` (run_crawl has a row and builds its analyzers),
`crawling`, `closing`, or `none`. The task's own row is `run`, looked up anew by
`_ensure_scan`; that the two are the same row is a property, not an assumption. A
request is handled in one turn of the event loop and is one action. `task.cancel()`
sets `cancelling`; `CancelDelivered` is the turn in which the task finds out, and
`late` are the workers whose own turn was queued before it.

| Action | Code |
| --- | --- |
| `CreateScan` | api_create_scan with _prepare_scan_row |
| `StartSignedIn` | api_start_local_sign_in_scan |
| `Stop`, `Delete` | api_cancel_scan, api_delete_scan |
| `Begin`, `StartWorkers`, `Lease`, `Finish`, `EndRun` | run_crawl, in outline |
| `SetupFails`, `CancelDelivered`, `Close` | _run_background_crawl, _run_local_login_background |
| `Quit`, `Die`, `Boot` | shutdown, process death, start-up with _sweep_stale_running_scans |

Abstracted: a page is a value and its links are any pages not yet known; a fetch
yields nothing, a sign-in wall or a page of the application; page limit, depth,
retries and a dying worker are Crawl's. Left out: protected rows and rows of other
addresses, which the queries filter out, and a second process on the same database.
Expired leases are taken back for the run's own row only, the only ones it leases.

### SignIn

The entry (`entry`, `listed`, `clock`) is `PendingSignIn` in the registry; `state`,
`context`, `login`, `tabs`, `open`, `restoring` and `kept` are the session's fields
of the same meaning; `windows` is what is on the screen, which the fields may be
wrong about. Five kinds of coroutine run through these between their awaits, each
with a program counter: the opener (`_open_local_sign_in`, `start`), the reopen
requests, the captures (`refresh_kept_state`), the scan's task (`enter_scan_mode`,
`switch_to_headless`) and `close`. The person closes windows at any time.

Abstracted: what a sign-in consists of (`kept` is whether a copy of it is held);
launching a browser and opening its first page are one step; each reopen request is
made once. The driver's end takes every window with it. The close event of a window
may arrive late. Left out: the scan in a visible browser
(prepare_background_scan_pages), the companion's use of the same session, and the
sign-ins that come after this one.

### Companions

`protection`, `lease`, `lapsed` and `enrolled` are the columns of `protected_scans` and
`protected_agent_enrollments`; a lease is named by the run of the companion it was
given to, which no other run is given again. `place` is how far such a run has come in
`ProtectedCompanionRunner.run`, and `mail` the requests it has sent. The server's
handlers are one action each (`CreateEnrollment`, `ClaimEnrollment`, `Serve`, `Stop`,
`RetentionWorker`, `Restart`), except that a request for work waits between the check
of its enrollment (`AdmitWork`) and the rest (`GiveWork`). A request may be lost, its
answer too, and it may arrive long after its sender has given up.

Abstracted: time (a lease has lapsed or not, evidence is retained or not); expired and
revoked enrollments, which nothing treats differently; heartbeats, whose acceptance
renews a lease and whose refusal is a reason to give up (`Dies`). The page index and
the events of a crawl are in PageIndex, deletion in Erasure. Left out: the mirror of a
report's status in `scans`, and audit rows.

### Evidence and Inspector

The page row (`copy`, `css`, `frames`, each the number of the fetch it comes of), its
saved `states`, and the rows of all engines with `status`, `shownBy` and the history
of `decisions`. An attempt is a sequence of places in `_process_job`, one action per
transaction (`RecordPage`, `RecordStyles`, ..., `PersistSemantic`); `CutShort` ends it
at any of them, by an exception or with the process, and reviewers decide between any
two. A row the database refuses is left out, and what could not be written of a copy is
`spoiled`. Inspector adds what a request shows in any of these states, whatever the
scan's status, readable files and answers of the site.

### Review

`evaluation` and `outcome` are the rows; `req` is how far each request has come, since
every endpoint is a thread that interleaves with the others between two statements.
`late` are the criteria that one request was reopening while another completed, which
is the one exception to "completed means decided" that the code allows.

### Comparison, Probe and Coverage

Comparison has two scans of a site one after the other: `tried` is the pages of each that
a method was run on and counted, `checked` those of them it did evaluate, the totals are
what the crawl added up, and `Category` what the comparison says of a group. The two
sets differ for a `Silent` method, axe or a language check, which counts a page it
failed on as if it had found nothing there; Alfa raises, and the page is not counted.

Probe is the recursion of `_explore` and `_operate` as a stack of levels, with the page's
controls, what a click reveals, dialogs that cover the page and may not close, and every
limit; `budget` is what it reports. `captured.loaded` has the documents (the page, the
frame) whose check as they loaded worked: one that failed is an empty baseline
(`Baselines`). `Lands` is what a click that changed the address leaves: the guard lets no
document load, so that the address is another of the same document (a hash, pushState),
and `_restore` may or may not undo what the click showed. `hit` remembers a click that
hit a dialog, and the two ways this can come about: the browser did not say what was
open (`blind`), or a click that changed the address left its dialog (`left`).

Coverage has no steps of its own: it states over both what a reader is told.

### PageIndex, Erasure and Pace

PageIndex has one report and the runs of its companion: pages reported in events that
may be answered, lost or refused, the limit, the page too large. Erasure has the
retention worker and the maintenance command as two processes (`job`), a key manager for
each that changes between starts (`vault`), and `live` keys. Pace has a clock in ticks,
a bucket, a semaphore and `taken`, the instants at which fetches began.

### Visits, LiveChecks and Searching

Visits has workers, the pool of tabs and the progress table: which check a visit is at,
and which document the tab holds after the checks before it. LiveChecks follows one tab
through axe, the keyboard walk and the probes in the order of `JsFetcher.fetch`: where
the focus is, how wide the window and how large the text is, whether the spacing sheet
is in, and what each check therefore finds. Searching goes through result pages and
results under their limits.

### Places and Language

A document is the sequence of its elements. Places has the walks that name an element by
an ordinal, a selector and its markup, and `Locate`, by which the server and the
Inspector find it in a copy saved later. Language sends each check's list to a model
that may answer anything, through one semaphore, and stores what came of it.

### Images, Issues and Report

Images has two scans that share images by their hash: analyses, findings as the
synthesizer computes them, and the history told. Issues has the rows of a scan, repeats,
the statuses and the several readings of one export (`stage`), between which rows are
stored and decided. Report computes from these what each file and list tells.

### Scope and Settings

Scope is a set of operators over addresses taken apart. Settings has the rows of one
seed with what is stored on them, the forms and command lines that prepare or adopt
them, and the pages each crawl got with its own configuration (`got`).

### MCParts

The parts above share no state. `MCParts` extends them all and puts small instances side
by side: `part` is chosen at the start, each behaviour moves that one and the others
stay in an initial state. This explores the sum of their state spaces and not the
product. A property speaks of the variables of its part; one of each part includes its type
invariant.

## 3. Runs

The bounds are the smallest at which each hazard can happen and the state space is
exhausted: two workers for anything between workers, three pages for a page found
while another is being processed, two attempts for a retry, three runs for a resumed
run that is itself resumed, two reports for one companion.

| Run | Instance | Shows |
| --- | --- | --- |
| `crawl_faults` | 2 workers, 3 pages, one flaky, one not HTML, 2 scopes, limit of 2 pages, 2 attempts, 3 runs, refused statements | `ExclusiveLease`, `InFlightExact`, `QuietExit`, `Budgets` (of pages and of attempts), `NoSilentPage`, and the ledger (`KeepsLedger`), through failures, cancellation, crashes and resumed runs |
| `crawl_ends` | 2 workers, 4 pages, one flaky, one disallowed, 1 run | `Drained`, and that the run ends (`RunEnds`, under `FairSpec`) |
| `crawl_depth_race` | 2 workers, 6 pages, two paths of different length to one page | `DepthCoverage` fails |
| `crawl_resume` | 1 worker, 2 runs | `Drained` fails |
| `scans` | 2 rows, 2 pages, 2 workers | `ShownRow`, `RunningIsLive`, `SignedInApart`, `StoppedStays`, `DeletedForGood` |
| `scans_stop_race` | 1 row, 2 workers | `StoppedQueueEmpty` fails |
| `scans_continue` | 1 row, 1 worker | `ContinuedIsWhole` fails |
| `sign_in` | 2 reopen requests, so 3 windows | `KeptErased`, `GoneStaysGone`, `OpenNotForgotten`, `ClosedForgotten` |
| `sign_in_cleanup` | the same | `CleanedUp` fails |
| `companions` | 2 reports, 1 certificate, 2 runs of a companion | `Alone` (one companion, one pairing), `RunningIsSignedIn`, the tenures (`KeepsTenures`), `AbandonedIsInterrupted` |
| `companions_renewal` | 1 report, 1 certificate | `CodeCanBeRenewed` fails |
| `parts` | a small instance of each part, see below | the properties of the parts, named in section 2 |

Two rows in `scans` are enough for one public and one signed-in scan of an address,
for an older row that could be adopted instead of a newer one, and for a row deleted
while another is made. Two reopen requests are enough for one to fail beside the
other's window; a third meets only states two can produce. In `companions` each run
of a companion may be enrolled for either report, so that the two compete for one
report or hold one after the other for two; a second certificate adds only codes
that nobody uses. Workers are symmetric in the crawl;
symmetry is not used in runs with liveness properties. Deadlock is not checked:
a finished scan with its runs used up, an ended sign-in, or a report whose companions
have all been run has nothing left to do.

The instances of `parts`, and the case each bound is for:

| Part | Instance | So that |
| --- | --- | --- |
| Evidence | 2 controls, 1 axe finding, 2 attempts, 1 decision for each finding | an attempt is cut short anywhere and made again over a decided row, with states of two visits to mix |
| Review | 1 criterion, 2 requests | one reopens while another completes or exports |
| Comparison | 2 pages, 2 counted methods, one of them silent, 1 process end; the first scan comes to 1 page, the second to 1 or 2 | a page is in one report only, counted twice, or met by a method that fails, with a word or without |
| Probe | 9 controls: a menu, a dialog with buttons, twins of one shape, a frame; 3 clicks, depth 3; violations in the dialog and, from the start, in the frame | each limit is reached, a dialog stays open over what is clicked next, and a failed check of the frame is followed by a click in it |
| PageIndex | 2 pages, limit 1, 2 runs | a retry, a second run, and a page beyond the limit |
| Erasure | 2 reports, 2 key managers, one of which cannot destroy | a batch of which one key is gone, and a manager that is not the report's |
| Pace | 3 fetches, 2 slots, a burst of 2 | one more waiter than the semaphore admits, and than the bucket has tokens |
| Visits | 2 workers, 1 pooled tab, 2 addresses, 2 visits | the tab of a failed visit is used by the next |
| LiveChecks | 2 elements, one a frame, with any two ways of Tab and of Shift+Tab | traps that are real, apparent or in a frame; each element looks wrong in other windows than it is checked in |
| Searching | 2 results, 2 pages, 3 places; no next button, one, or several of its name | any limit ends the search with results left, and a result leads out of scope |
| Language | 2 criteria, 3 versions of a page, 2 entries of an answer, 1 permit | answers out of order, twins and hidden elements, a copy of a later version |
| Images | 1 image, 2 scans, 2 analysts, 3 passes | an analysis changes under a computed report |
| Issues, Report | 2 rows, 3 problems (a barrier, a best practice, a lead), 2 pages, 1 decision | a row is stored or decided between two readings of one export |
| Settings | 2 crawls on 2 rows, 2 forms, 2 command lines | a crawl takes over a row prepared otherwise |

Every action and disjunct of each part fires. In each part the next larger value of a
bound was run alone and violated nothing; three of those larger instances (Review with
three requests, PageIndex with three pages, a limit of two and three runs, Issues with three pieces
of evidence) were stopped before TLC had exhausted them.

### Where the code departs from what is said of it

- `crawl_resume`: a run that continues an interrupted scan within the 120 seconds of
  its old leases does not see the pages that were being processed, and completes
  the scan without them.
- `crawl_depth_race`: a URL keeps the depth of whichever page enqueued it first.
  With several workers that need not be its shortest, and pages within `max_depth`
  are missed.
- `scans_stop_race`: a worker whose turn is already queued when a stop empties the
  queue puts its page's links into it. The stopped scan then looks like an
  interrupted one.
- `scans_continue`: starting a stopped scan again, which the documentation says
  continues it, completes it at once, without the pages the stop dropped.
- `sign_in_cleanup`: a `close()` that is cancelled between its awaits is not
  finished by anybody, because the session already counts as closed.
- `companions_renewal`: a new pairing code for a report and a certificate that had
  one before is refused by a UNIQUE constraint, although the code means to replace
  the old one. After an expired code or a stop the report cannot be given to that
  computer any more.

With `Worker = {w1}` in `crawl_depth_race.cfg`, `DepthCoverage` holds. Each of these
properties is left as it is said,
in a run that is expected to fail.
The other properties of the same modules hold beside them.

While the parts were modelled, more was met that a reader of the code should know of. The
properties are stated so that they say what does hold in spite of it, and what they
exclude is named in them (`spoiled`, `late`, `cut`, `disturbed`, `moved`, `Reached`,
`loaded`, `left`). No run is
spent on these.

*Kept evidence.*
- A page processed again after a late failure is counted twice in `axe_pages_scanned`
  (orchestrator.py:1950), though repo.py:3-4 calls its operations idempotent.
- Between two attempts the saved states, and CSS or frames that could not be written,
  are of an older document than the copy. The Inspector tells a saved state as captured
  when the page was last fetched.
- `_validate` refuses a saved state too when the page has no stored copy and the scan is
  not completed, although its comment says that reading a capture back is always allowed;
  and stored captures are served whatever the scan's status, although the docstring of
  `api_page_inspect` says that running and failed scans are refused.

*Review and reports.*
- Two requests that create an evaluation at once may leave the defaults in place of what
  one of them saved. An evaluation may be completed with a criterion that is being
  reopened at the same moment; no file is released as final from it.
- `_conformance_estimate` is None when no open card has a rated effort, and the summary
  then says that no likely barriers remain beside the cards it lists
  (audit_report.py:735-746). `NothingRemains` speaks of rated cards.
- Cards and tickets come of two readings of the database, although xlsx_export.py says
  they cannot drift apart; a row decided between them may be in both or neither. The
  image branch of `_locations_for_row` reads the rows of every scan. The shared sheet
  "More issues" drops rows without a word when it is full.
- A page whose only limit is one of pictures or saved states is listed as stopped early.
- Readiness does not look at repeats, and Jira opens tickets for them.

*Coverage and comparison.*
- A scan whose process ended counts the page under way twice and forgets its errors, so
  that a method may be told as complete, and an absence as checked, that is not
  (comparison.py:3-5 promises otherwise; `cut` is excluded).
- A page on which axe failed is stored and counted like one that it found clean
  (axe.py:303-308 and 323-329, orchestrator.py:1950-1955), although orchestrator.py:1410-1413
  says that the count tells the two apart. When all totals are complete, a comparison
  tells what was found there before as no longer detected, against comparison.py:3-5. A
  language check whose model did not answer is counted alike (orchestrator.py:2325;
  repo.py:1200 says "pages actually evaluated"). With `checked` for `Reached` in it,
  `AbsenceIsCovered` is violated in four steps: two scans of one page, and axe fails in the
  second. What holds is that the method was run there, and of Alfa, which raises, that it
  evaluated the page.
- A configuration without the interaction setting is read as off by the server and as
  on by the exports.

*Checks.*
- js_fetcher.py:209-213 gives as the reason for the order of two probes that the later
  must not inherit an opened menu; the order it chooses makes the responsive probe
  inherit it. A spacing finding is not compared with the page without the sheet. A tab
  that crashes in the middle of the checks yields a page without findings, and a pooled
  one stays in the pool.
- An exception after a click of the interaction probe leaves the dialog open (`blind`).
- So does a click that opens one and changes the address within the document (a hash,
  pushState): it is taken for one that navigated, `_operate` returns before it reads what
  was opened (probe.py:873-884, 905), and going back in the same document need not close
  anything (1204-1220; in a frame nothing is done). The next click hits the dialog and is
  counted as a control operated, which the comment at probe.py:962-967 means to rule out.
  Without `hit.left`, `OperatedIsReal` is violated in three clicks.
- When the rule check of the page or of a frame as it loaded failed, or axe is off, the
  baseline is empty (axe.py:303-308, js_fetcher.py:428-430, probe.py:618-620), and the first
  click that reveals anything is credited with what was there before it, against
  probe.py:602-603. Without its two premises on `captured.loaded`, `RevealedIsNew` is
  violated by one click.
- A slow second result page overwrites the status of a search with "no results". One whose
  next button is not the only control of its name (search.py:214) ends as completed after
  the first page.
- `_stable_selector` raises on a class attribute of blanks, which loses the criterion on
  that page; a low-confidence entry of a model hides a later confident one for the same
  link; `_ordinal`-less findings are matched by markup and may outline a visible twin of
  a hidden element.

*Images.* An image met by a later scan moves in the groups of an earlier report, whose
stored remediation stays (image_findings_queries.py:117-122 claims that there is no
ambiguity). A page analysed again keeps rows of images it no longer has.

*Settings and scope.*
- A command-line scan without axe reads back with axe; a static one with axe is refused
  when retried. Adoption overwrites stored settings, so that methods that ran before
  may read as not selected.
- A redirect's landing page is not tested against scope and blocklist, although the
  comment at orchestrator.py:1248 gives landing pages as the reason for the test. The
  crawl uses neither sitemap.py nor the crawl delay of robots.txt.
- An exception inside the workers of `run_crawl` finalizes the scan as completed before
  the server marks it failed.
- `_LazyJs.get` (orchestrator.py:976-995) lets two workers start a browser each, one of
  which nobody closes; this is not modelled.
- egress.py says that the browser of a signed-in scan switches to an exact-origin policy;
  `build_manual_auth_policies` gives the scan a public-HTTPS one.

*Protected scans.* A page too large is reported with a reason, in an event that the
server refuses, and the run fails for good (companion.py:584).

## 4. Fairness

`Crawl!FairSpec`: weak fairness for each worker and for the start and the end of a
run. Every await of a page's processing has a timeout (fetch, images, axe, Alfa,
language), so a worker that can take a step eventually does. Nothing is assumed of
`BeginRun`, `Cancel`, `Crash`, `SweepStale` or lapsing leases.

`SignIn!Spec`: weak fairness for the opener, each reopen request and `close()`
(Playwright calls answer, fail or time out), for the passing of the clock, and for
`Refresh`, which `_expire_sign_ins` performs every few seconds while the server
runs. Nothing is assumed of the person: no window has to be closed, nobody has to
cancel or start the scan.

`Companions!Spec`: weak fairness for the retention worker, which runs every minute,
and for the lapse of a lease whose companion is gone, since nothing renews it. No
companion has to make progress, and no request has to arrive.

`Scans` and the parts state no liveness and assume no fairness. For `Pace` there is none
to state: the code does not say which sleeper comes next, and one may be overtaken as
long as others come.

## 5. Proofs

All theorems are proved by TLAPS for every value of the constants that satisfies the
named assumption of the module (`SiteAssumption`, `ConfigAssumption` and so on, one or two
in each module that has constants). They say what the constants are, such as that the
pages of a site are finitely many, that the limits are numbers and that the kinds of an
element do not overlap; TLC evaluates all of them in the runs. `OperatedCorrect` has
one hypothesis more, about the page, which `MCParts` has evaluated as `PageAssumption`;
`DrainedCorrect` and `NoneWaitCorrect` say in the theorem for which scans they hold.

Every safety and action property of the runs that are expected to pass is the statement
of a theorem. The liveness properties are not.

### Crawl

The first part of `Crawl_proofs` states what each statement of the queue does, row by row,
so that the proofs about the crawl never open a definition of the queue. On it rest five
layers, each an inductive invariant that uses the ones before:

1. `Counted` (`TypeCorrect`, `InFlightCorrect`): types, the agreement between a
   worker's place and the job it holds, and `inFlight` as the number of busy workers.
   The three need each other: `inFlight - 1` is a number only because it counts
   something.
2. `ExclusiveLeaseCorrect`: by itself inductive over `Counted`. A lease takes a
   pending job and a held job is leased, so two workers cannot hold one.
3. `QuietExitCorrect`: needs only that `inFlight = 0` means nobody holds a job.
4. `PageBudgetCorrect`: `PageBudget` is not inductive, for a page is counted when its
   fetch ends. The invariant counts the fetches under way as well (`PageSlots`).
   `AttemptBudgetCorrect`: likewise not inductive until a pending job is known to
   have one attempt to spare (`Tries`). `NoSilentPageCorrect`: a worker past its
   fetch has the row of its page (`Recorded`).
5. `DrainedCorrect`: for a scan of one run whose statements succeed, as `crawl_ends` has
   it. `Attended` says that in a first run a lease is always somebody's, so that with
   `QuietExit` nothing waits or is leased when the workers have left. `crawl_resume` shows
   why it stops there: a second run finds leases that are nobody's. What is left of the
   promise then is `NoneWaitCorrect`: over any number of runs a scan does not complete
   with a page that waits.

`LedgerCorrect` shows that every step of a crawl is a step of `CrawlLedger` or leaves
it alone, under the mapping waiting = pending rows, working = leased rows, settled =
completed and failed rows.

### Scans

No property of `Scans` but `SignedInApart` and `DeletedForGood` is close to inductive,
and they hold together or not at all. `IInv` joins them with four facts:

- `TaskSound`: the task's row is the row shown once it has taken one, and that row is
  a signed-in one exactly when the task is;
- `OfferSound`: while a public task has been created and has not begun, the row
  prepared for it is the newest any public run may take, and still running unless
  the task was told to stop. This is what makes the two separate lookups agree;
- `StopSound`: the row of a task that was not told to stop was not stopped;
- `AbsentSound`: a row that was never made has left no traces.

Each action has a lemma of its own (`CreateScanStep`, ...). The two steps that need
an argument are `StopTypes`, where an action is entered through another operator, and
`BeginKeepsStopped`: run_crawl sets a row running, and it is not a stopped one.

### Companions

`OneCompanion` is inductive with the types: a lease is given after every lapsed lease was
taken back, when no other is left. `OnePairing` is inductive because a claim looks at both
sides of the pair. The other two need a fact each:

- `WordIsTrue`: a request that says the crawl has started is on its way only from a run
  that has signed in. With it `RunningIsSignedIn` is inductive: only the lease's holder is
  believed, and a new holder finds the report paused.
- `EndedIsFree`: a completed or failed report has no lease, so that no event can prove
  one; `FinalStays` follows step by step.

`FinalStaysCorrect` is about steps rather than states and is proved from the same
invariant.

`TenuresCorrect` shows that every step is a step of `Tenures` or leaves it alone. A tenure
is a row's lease; who may yet be given one is read off the companion and the mail: it has
not asked, or its request is still to be handled (`Asked`: an admitted request is still
there, and nobody who asked asks again). A request for work that succeeds is `Give`, an
event that counts is `Start` or `Finish`, or `Withdraw` when it pauses the report; a stop,
a recovery, a start of the server and a lost request are `Withdraw` too. What `FinalStays`
says is part of `KeepsTenures`, which the run checks.

### SignIn

`KeptErased` is not inductive: a capture that comes late looks at the session's state, so
that nothing may bring the waiting state back. Two facts see to it. `Untouched`: until
the opener has launched its browser nothing else has begun, so that `Launched`, which
makes the session wait, cannot come after a close or a hand-over; with `CreatedOnce`, a
sign-in is launched once. `Confirmed`: from its confirmation on, the scan's task never
waits for the person. `GoneStaysGone` and `OpenNotForgotten` are about steps and follow
from what window events may do to an entry (`EntryEvents`, `WindowEvents`).

### PageIndex and Erasure (`Protected_proofs`)

- `IndexIsSound` needs that the pages are finitely many, for their totals are
  cardinalities, and `RunHasRoom`: a run that waits for an answer had room for its page.
- `ErasureIsExact` needs `OnlyWhatItMay`: the keys a process has yet to destroy are of
  reports that are due or asked for, at their own key manager; and `DoneIsUnreadable`:
  what it has dealt with is unreadable, whoever comes in between. Both processes are
  covered by one argument.

### What happens to a page (`Page_proofs`)

- `PaceCorrect`: `HostIsSpared` bounds every stretch between two fetches, and a new fetch
  makes a new stretch with each earlier one. `BucketIsHonest` says of the stretch from each
  fetch to now that what began in it and what the bucket still holds are paid for by the
  time that went by; taking a token and refilling keep the balance (`TimePays`).
- `VisitsCorrect`: `VisitFits` says what is left and what is done of a visit at each place,
  `Apart` that no two workers share a page or a tab. That the table keeps within its
  bound needs the order of its entries: each knows which were put in after it (`Ordered`),
  and of any of them one is the oldest (`OldestIs`).
- `SearchCorrect`: `FollowedIsKnown` carries what a completed search promises through the
  search: behind it everything is handed over, on this page what is neither followed
  nor ahead was left out by the limit.
- `ChecksCorrect`: `WindowFits` and `WalkFits` are the page as each check finds it. That
  no trap is missed needs the way of the focus: as long as nothing cut the walk short,
  it is on any way of Tab that leads to a trap, or has been held there for all presses
  since (`TrackFits`), and then Shift+Tab is tried in time.
- `PermitsCorrect`: as many permits are taken as checks ask, and hence never more than
  there are.
- `OutlinesCorrect` is about three functions on documents: the list that a check sends
  (`Lists`), the element an entry of it names, and `Locate`, which finds it again. Lists
  are put in order by counting what comes before each element; the lemmas on `InOrder`
  show that in a strict total order these counts are just `0` to one less than the
  number of elements, so that nothing is lost or doubled. `Entry` then says of each
  entry which element it is of, with which ordinal, selector and markup, `PlaceOfIs` and
  `ByPlaceFinds` that an ordinal is found again in the same document, and `OnlyIs`
  that in a later one an element is outlined only when it is the only one that fits.
  `MadeFits` ties what is in memory to the list that was sent.

### What is kept and told (`Report_proofs`)

- `EvidenceCorrect`, `InspectorCorrect`, `EvidenceOnlyGrows`: `EvidenceIsKept` is inductive
  once a writing attempt is known to have a number of its own and the saved copy to be
  that of the last fetch. `RowsOnlyGrow` is about steps; it compares the histories of
  decisions and not only the rows.
- `ReviewCorrect`: the requests' places are part of the invariant. `ReadyIsDecided`: what a
  request is about to complete was decided when it looked, but for what was being
  reopened, which `ReopeningIsLate` finds in `late`; `ReadyToExport`: a final file is
  released only by a request that saw a verdict on every criterion.
- `ImagesCorrect`, `LabelsStayCorrect`: a row is under the models that made it (`KindsFit`),
  so that the latest of a kind can be looked up, and no row of an image is lost
  (`RowsStay`).
- `IssuesCorrect`: `ListedFits` says what a listing still tells of the rows nobody touched,
  `FiledFits` where the rows of a filed issue are, and `Commits` what every statement of a
  crawler or a reviewer has in common, so that the proof deals with them once. The counts
  of a listing are cardinalities of sets that change afterwards; the invariant keeps the
  set as it was counted.
- `ReportCorrect`: the report, the workbook and the list are functions of such a state.
  `LaterFits` adds what the second and the third listing have of the cards. Each section
  has a lemma; the report's numbers are compared card by card and row by row, of which
  the sums over the report follow.

### How far a scan went (`Coverage_proofs`)

- `TotalsCorrect`: `CountedOnce` and `CountShows` tie the counters to the pages tried, in
  a scan that nothing interrupted and in any scan, and what was tried is what was
  evaluated unless the method is silent (`FailureTells`).
- `ClicksCorrect`: the invariant goes through the stack of levels. `FoundIsExplained` says
  that a control that was found is ahead in some level, tried, refused, or explained by a
  limit; `LevelsFit` what a level may have ahead, `HaltIsTold` that a dialog that will
  not close is told of. `LoadIsSeen` keeps what the check of a loaded document found known
  for good, so that no click can be credited with it (`NewIs`).
- `OperatedCorrect`: for pages whose dialogs show what they hold and nothing behind it
  (`DialogsHold`; without it a click could reveal a control that the open dialog
  covers). While a dialog is open that a click showed and did not leave, the level that
  has to close it is on the stack (`OpenIsHeld`), and all above it is within the dialog
  (`LevelsAreInside`). `hit.blind` and `hit.left` are exceptions the code makes (section 3).
- `SettingsCorrect`: `GotFits` is about what a row has, `SignedInFits` about the rows of
  signed-in scans, `CrawlsFit` about a crawl from the request to its end, which the other
  two rest on: between them the row may have been prepared anew. The scopes in it
  (`ScopeHolds`) are theorems about addresses: sorting and writing out a query is
  found again by comparing, and what is below a folder stays below it when normalised.

Fairness plays no part in any of these proofs.

## 6. What is only model-checked, and what is not modelled

Checked by TLC only are the three liveness properties (`RunEnds`, `ClosedForgotten`,
`AbandonedIsInterrupted`), whose proofs would need fairness and ENABLED, and the
properties that are expected to fail. `DepthCoverage`, one of these, is defined by
recursion over the depth. TLC also sees what the proofs do not speak of: that every
action happens, and that no property holds for want of a state that could violate it.

The sum of a page's locations (`PageLoad`) is a fold over a set, of which nothing can be
proved here; no property depends on its value.

Not modelled:

- what analyzers find: axe and Alfa, prompts and models, OCR, parsers. They are inputs:
  any finding, any answer;
- a finding whose single row SQLite refuses: the loops of `_persist_axe` and its like drop
  it, keep the others and count the page;
- changes a page makes by itself while it is probed: controls and dialogs come and go by
  clicks only;
- the rounding of an issue's priority to three digits (issues.py:1417), by which issues on
  very many pages may count as equal;
- IPv6 addresses as hosts: `normalize` drops their brackets (url_policy.py:92-96), and what
  comes out cannot be normalised again;
- the first-150 cap of the focus checks, and the Alfa locators of the Inspector's
  outline with its cap on elements;
- rewriting of saved HTML and CSS, content security policy, pictures;
- encryption, redaction, egress policies, hand-over files and client certificates: each
  is a function of its input, without state that two actors share;
- wording, layout and styling of reports, the webhook, screenshots in the workbook;
- lists of sites and scans, the MCP server, the other commands of the command line, the
  desktop's supervision of its backend, the React pages: they read or print;
- migrations, run once under a lock, and blobs, written once under their hash;
- benchmarks, detection evaluations and the documentation site.

Timeouts are choices (a call answers or fails), and clocks are reduced to whether a
deadline has passed, but for `Pace`. SQLite is assumed to execute a statement atomically
and durably, asyncio to run one coroutine at a time.

## 7. Plan

What is left, in this order:

1. A second process: the command line as another crawler on the same database.
   reclaim_expired of one process takes leases a slow worker of the other still
   uses. An extension of `Crawl` with two groups of workers, where only `Settings` has
   two crawls now.
2. `Companions`: `scans.status`, which is meant to follow the report and does not when a
   lease is recovered by another report's request for work (protected_api.py:812).
3. `SignIn`: a property about the scan's own browser when a reopen request is
   overtaken by the start of the scan, and about the window itself when its close
   event is late.
4. The race of `_LazyJs.get`, as an extension of `Visits`.
5. Proofs: that the steps of `Scans` between request and delivery implement a scan that is stopped at once, but for
   what `late` workers do.
6. Egress and redaction as operators, if their rules come to depend on state.
