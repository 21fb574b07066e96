-------------------------------- MODULE Crawl --------------------------------
(***************************************************************************)
(* One scan, crawled by run_crawl (src/audit/crawler/orchestrator.py): the *)
(* scan row, the run that adopts it, the asyncio workers that lease jobs   *)
(* from the queue, and the page and evidence rows they write.  A run may   *)
(* fail to set up, be cancelled, or die with its process; a later run of   *)
(* the same seed adopts the scan row and goes on with its queue.           *)
(*                                                                         *)
(* Workers are coroutines of one event loop: what a worker does between    *)
(* two awaits is one action.  Each SQL statement commits by itself, so a   *)
(* dying process can still leave half of such an action behind (Crash).    *)
(*                                                                         *)
(* The definitions PageLimitLate, LetGoLeaky, ExitEarly and                *)
(* FetchFailsUnrecorded are wrong on purpose: slips of the definition each *)
(* precedes, kept to show that the properties notice them.                 *)
(***************************************************************************)
EXTENDS JobQueue

CONSTANTS
  Worker,      \* config.workers coroutines
  Seed,        \* the normalized seed URL
  Links,       \* Links[u]: the hrefs of page u, in document order
  Html,        \* the URLs that answer with a usable HTML page
  Flaky,       \* the URLs whose fetch or processing can fail
  Blocked,     \* the URLs the operator's block list refuses
  Disallowed,  \* the URLs robots.txt refuses
  Scopes,      \* the scopes a run may be started with
  MaxPages,    \* config.max_pages, or NoLimit
  MaxDepth,    \* config.max_depth
  DbErrors,    \* whether a statement of the worker loop itself can be refused
  MaxRuns,     \* bound on the runs of the scan
  NoLimit,     \* max_pages = None
  NoUrl        \* the worker holds no job

ASSUME SiteAssumption ==
  /\ Seed \in Url /\ NoUrl \notin Url
  /\ Links \in [Url -> Seq(Url)]
  /\ Html \subseteq Url /\ Flaky \subseteq Url
  /\ Blocked \subseteq Url /\ Disallowed \subseteq Url
  /\ Scopes \subseteq SUBSET Url
  /\ \A sc \in Scopes : Seed \in sc

ASSUME ConfigAssumption ==
  /\ IsFiniteSet(Worker) /\ Worker # {}
  /\ MaxDepth \in Nat /\ MaxRuns \in Nat
  /\ NoLimit \notin Nat /\ MaxPages \in (Nat \ {0}) \cup {NoLimit}
  /\ DbErrors \in BOOLEAN

VARIABLES
  jobs,        \* the queue (module JobQueue)
  lastRow,     \* the highest row id of the queue so far
  scanStatus,  \* scans.status; "none" before the row exists
  phase,       \* the process: "down", "setup" or "crawling"
  runs,        \* how many runs have begun
  scope,       \* the scope of the current run
  pc,          \* where each worker is
  held,        \* the job each worker is processing
  inFlight,    \* ctx.in_flight
  fetched,     \* summary.pages_fetched
  pageRow,     \* pages: "none", "unfetched" (status NULL) or "fetched"
  axeRows,     \* the pages that have their axe evidence
  axePages     \* scans.axe_pages_scanned

queueVars == <<jobs, lastRow>>
runVars == <<scanStatus, phase, runs, scope>>
workerVars == <<pc, held, inFlight>>
pageVars == <<fetched, pageRow, axeRows, axePages>>
vars == <<queueVars, runVars, workerVars, pageVars>>

ScanStatus == {"none", "running", "interrupted", "completed", "failed"}
WorkerPc == {"idle", "fetching", "imaging", "checking", "exited"}

TypeOK ==
  /\ jobs \in [Url -> Job]
  /\ lastRow \in Nat
  /\ scanStatus \in ScanStatus
  /\ phase \in {"down", "setup", "crawling"}
  /\ runs \in Nat
  /\ scope \in SUBSET Url
  /\ pc \in [Worker -> WorkerPc]
  /\ held \in [Worker -> Url \cup {NoUrl}]
  /\ inFlight \in Nat
  /\ fetched \in Nat
  /\ pageRow \in [Url -> {"none", "unfetched", "fetched"}]
  /\ axeRows \in SUBSET Url
  /\ axePages \in Nat

Init ==
  /\ jobs = NoJobs /\ lastRow = 0
  /\ scanStatus = "none" /\ phase = "down" /\ runs = 0 /\ scope = {}
  /\ pc = [w \in Worker |-> "idle"] /\ held = [w \in Worker |-> NoUrl]
  /\ inFlight = 0
  /\ fetched = 0 /\ pageRow = [u \in Url |-> "none"]
  /\ axeRows = {} /\ axePages = 0

-----------------------------------------------------------------------------
PageLimitLate == MaxPages # NoLimit /\ fetched > MaxPages

\* _page_limit_reached.
PageLimitReached == MaxPages # NoLimit /\ fetched >= MaxPages

\* The workers that hold a job.
Busy == {w \in Worker : held[w] # NoUrl}

\* _ensure_scan: a running row is always adopted, an interrupted one only
\* while work is still queued; with no row yet, one is inserted.
Adoptable ==
  \/ scanStatus \in {"none", "running"}
  \/ scanStatus = "interrupted" /\ InState(jobs, {"pending", "leased"}) # {}

\* The queue a run starts from: expired leases reclaimed, pending rows outside
\* the scope deleted, the seed enqueued.
StartingQueue(sc) ==
  Enqueued(Purged(Reclaimed(jobs), sc), lastRow, <<Seed>>, Url, 0)

\* run_crawl up to the point where the analyzers are built.
BeginRun ==
  /\ phase = "down" /\ runs < MaxRuns /\ Adoptable
  /\ \E sc \in Scopes : scope' = sc /\ jobs' = StartingQueue(sc)
  /\ lastRow' = lastRow + 1
  /\ scanStatus' = "running" /\ phase' = "setup" /\ runs' = runs + 1
  /\ fetched' = 0
  /\ UNCHANGED <<workerVars, pageRow, axeRows, axePages>>

\* An analyzer cannot be built, or the run is cancelled while it is: nothing
\* is finalized.  The web layer marks the row failed, the command line leaves
\* it running.
SetupFails ==
  /\ phase = "setup" /\ phase' = "down"
  /\ scanStatus' \in {"running", "failed"}
  /\ UNCHANGED <<queueVars, runs, scope, workerVars, pageVars>>

StartWorkers ==
  /\ phase = "setup" /\ phase' = "crawling"
  /\ UNCHANGED <<queueVars, scanStatus, runs, scope, workerVars, pageVars>>

-----------------------------------------------------------------------------
(* _worker *)

LetGoLeaky(w) ==
  /\ pc' = [pc EXCEPT ![w] = "idle"]
  /\ held' = [held EXCEPT ![w] = NoUrl]
  /\ inFlight' = inFlight

\* The job is over: the worker goes back to the head of its loop.
LetGo(w) ==
  /\ pc' = [pc EXCEPT ![w] = "idle"]
  /\ held' = [held EXCEPT ![w] = NoUrl]
  /\ inFlight' = inFlight - 1

At(w, place) == phase = "crawling" /\ pc[w] = place

Lease(w) ==
  /\ At(w, "idle") /\ ~PageLimitReached
  /\ \E u \in Url : /\ IsNextJob(jobs, u)
                    /\ jobs' = LeasedJob(jobs, u)
                    /\ held' = [held EXCEPT ![w] = u]
  /\ pc' = [pc EXCEPT ![w] = "fetching"]
  /\ inFlight' = inFlight + 1
  /\ UNCHANGED <<lastRow, runVars, pageVars>>

ExitEarly(w) ==
  /\ At(w, "idle")
  /\ PageLimitReached \/ NonePending(jobs)
  /\ pc' = [pc EXCEPT ![w] = "exited"]
  /\ UNCHANGED <<queueVars, runVars, held, inFlight, pageVars>>

\* A worker stops at the page limit, or when the queue is empty and no peer
\* is processing a job that could add to it; otherwise it sleeps and looks
\* again.
Exit(w) ==
  /\ At(w, "idle")
  /\ PageLimitReached \/ (inFlight = 0 /\ NonePending(jobs))
  /\ pc' = [pc EXCEPT ![w] = "exited"]
  /\ UNCHANGED <<queueVars, runVars, held, inFlight, pageVars>>

\* The handler raised: queue.fail, and the worker moves on.
Raise(w) ==
  /\ phase = "crawling" /\ pc[w] \in {"fetching", "imaging", "checking"}
  /\ held[w] \in Flaky
  /\ jobs' = FailedJob(jobs, held[w])
  /\ LetGo(w)
  /\ UNCHANGED <<lastRow, runVars, pageVars>>

-----------------------------------------------------------------------------
(* _process_job *)

Refused(u) == u \notin scope \/ u \in Blocked \/ u \in Disallowed

\* Scope, block list or robots.txt: the job completes and nothing is recorded.
Refuse(w) ==
  /\ At(w, "fetching") /\ Refused(held[w])
  /\ jobs' = CompletedJob(jobs, held[w])
  /\ LetGo(w)
  /\ UNCHANGED <<lastRow, runVars, pageVars>>

FetchFailsUnrecorded(w) ==
  /\ At(w, "fetching") /\ ~Refused(held[w]) /\ held[w] \in Flaky
  /\ jobs' = CompletedJob(jobs, held[w])
  /\ LetGo(w)
  /\ UNCHANGED <<lastRow, runVars, pageVars>>

\* FetchError: the page is recorded without a status and the job completes.
FetchFails(w) ==
  /\ At(w, "fetching") /\ ~Refused(held[w]) /\ held[w] \in Flaky
  /\ pageRow' = [pageRow EXCEPT ![held[w]] = "unfetched"]
  /\ jobs' = CompletedJob(jobs, held[w])
  /\ LetGo(w)
  /\ UNCHANGED <<lastRow, runVars, fetched, axeRows, axePages>>

\* A response: the page is recorded and counted.  One that is not usable HTML
\* has nothing more to do; the others go on to their images.
FetchPage(w) ==
  /\ At(w, "fetching") /\ ~Refused(held[w])
  /\ pageRow' = [pageRow EXCEPT ![held[w]] = "fetched"]
  /\ fetched' = fetched + 1
  /\ \/ /\ held[w] \in Html
        /\ pc' = [pc EXCEPT ![w] = "imaging"]
        /\ UNCHANGED <<jobs, held, inFlight>>
     \/ /\ held[w] \notin Html
        /\ jobs' = CompletedJob(jobs, held[w])
        /\ LetGo(w)
  /\ UNCHANGED <<lastRow, runVars, axeRows, axePages>>

\* The images are in.  A page the browser rendered gets its axe rows, upserted
\* by (page, rule, target), and adds one to the scan's counter; a page that
\* fell back to the plain fetch has none.
PersistAxe(w) ==
  /\ At(w, "imaging")
  /\ \/ /\ axeRows' = axeRows \cup {held[w]}
        /\ axePages' = axePages + 1
     \/ held[w] \in Flaky /\ UNCHANGED <<axeRows, axePages>>
  /\ pc' = [pc EXCEPT ![w] = "checking"]
  /\ UNCHANGED <<queueVars, runVars, held, inFlight, fetched, pageRow>>

\* The links _enqueue_children keeps.
Follow(u) == IF jobs[u].depth >= MaxDepth \/ PageLimitReached
             THEN {}
             ELSE scope \ Blocked

\* Alfa and the language checks are done: queue the links, complete the job.
Finish(w) ==
  LET u == held[w] IN
  /\ At(w, "checking")
  /\ jobs' = CompletedJob(
               Enqueued(jobs, lastRow, Links[u], Follow(u), jobs[u].depth + 1), u)
  /\ lastRow' = lastRow + Len(Links[u])
  /\ LetGo(w)
  /\ UNCHANGED <<runVars, pageVars>>

WorkerStep(w) ==
  \/ Lease(w) \/ Exit(w) \/ Raise(w)
  \/ Refuse(w) \/ FetchFails(w) \/ FetchPage(w) \/ PersistAxe(w) \/ Finish(w)

-----------------------------------------------------------------------------
(* How a run ends *)

\* The process, or its task group, takes its workers with it.
RunOver ==
  /\ phase' = "down"
  /\ pc' = [w \in Worker |-> "idle"]
  /\ held' = [w \in Worker |-> NoUrl]
  /\ inFlight' = 0

\* Every worker returned: _finalize_scan.
EndRun ==
  /\ phase = "crawling" /\ \A w \in Worker : pc[w] = "exited"
  /\ RunOver /\ scanStatus' = "completed"
  /\ UNCHANGED <<queueVars, runs, scope, pageVars>>

\* A statement of the worker loop itself is refused (the database stays locked
\* past busy_timeout): the task group cancels the other workers and the
\* "finally" finalizes the scan.
WorkerDies(w) ==
  /\ DbErrors /\ phase = "crawling" /\ pc[w] # "exited"
  /\ RunOver /\ scanStatus' = "completed"
  /\ UNCHANGED <<queueVars, runs, scope, pageVars>>

\* Ctrl-C, or the task is cancelled: leased jobs stay leased.
Cancel ==
  /\ phase = "crawling" /\ RunOver /\ scanStatus' = "interrupted"
  /\ UNCHANGED <<queueVars, runs, scope, pageVars>>

\* What an action of a worker leaves behind when the process dies inside it:
\* the page recorded but its job not completed, or the first links queued.
\* (The axe rows and their counter are one transaction.)
HalfDone(w) ==
  LET u == held[w] IN
  \/ /\ At(w, "fetching") /\ ~Refused(u)
     /\ \/ pageRow' = [pageRow EXCEPT ![u] = "fetched"]
        \/ u \in Flaky /\ pageRow' = [pageRow EXCEPT ![u] = "unfetched"]
     /\ UNCHANGED queueVars
  \/ /\ At(w, "checking")
     /\ \E n \in 1..Len(Links[u]) :
          /\ jobs' = Enqueued(jobs, lastRow, SubSeq(Links[u], 1, n), Follow(u),
                             jobs[u].depth + 1)
          /\ lastRow' = lastRow + n
     /\ UNCHANGED pageRow

\* The process dies.
Crash ==
  /\ phase # "down" /\ RunOver
  /\ UNCHANGED <<queueVars, pageRow>> \/ \E w \in Worker : HalfDone(w)
  /\ UNCHANGED <<scanStatus, runs, scope, fetched, axeRows, axePages>>

\* The app starts: a row still listed as running is marked interrupted.
SweepStale ==
  /\ phase = "down" /\ scanStatus = "running" /\ scanStatus' = "interrupted"
  /\ UNCHANGED <<queueVars, phase, runs, scope, workerVars, pageVars>>

\* A lease reaches its deadline.
LeaseLapses(u) ==
  /\ jobs[u].state = "leased" /\ ~jobs[u].lapsed
  /\ jobs' = LapsedLease(jobs, u)
  /\ UNCHANGED <<lastRow, runVars, workerVars, pageVars>>

Next ==
  \/ BeginRun \/ SetupFails \/ StartWorkers
  \/ \E w \in Worker : WorkerStep(w) \/ WorkerDies(w)
  \/ EndRun \/ Cancel \/ Crash \/ SweepStale
  \/ \E u \in Url : LeaseLapses(u)

Spec == Init /\ [][Next]_vars

\* The event loop keeps running every worker that can move: each await of a
\* page's processing has a timeout.  Nobody has to start, cancel or kill a run.
FairSpec ==
  /\ Spec
  /\ WF_vars(StartWorkers) /\ WF_vars(EndRun)
  /\ \A w \in Worker : WF_vars(WorkerStep(w))

-----------------------------------------------------------------------------
(* What a crawl promises *)

Settled == InState(jobs, {"completed", "failed"})

\* No two workers process the same job, and the job a worker processes is
\* leased: neither a peer's failure, nor a reclaim or purge at the start of a
\* run, can put it back in front of the other workers (_worker, queue.lease).
ExclusiveLease ==
  /\ \A w \in Busy : jobs[held[w]].state = "leased"
  /\ \A v, w \in Busy : held[v] = held[w] => v = w

\* ctx.in_flight, read by an idle worker to decide whether the crawl is over,
\* is exactly the number of jobs being processed.
InFlightExact == inFlight = Cardinality(Busy)

\* Once one worker has left because the queue was drained, nothing can appear
\* in the queue any more: no peer still holds a page whose links would be left
\* behind, however the workers' waits interleave (_worker's exit test).
QuietExit ==
  (\E w \in Worker : pc[w] = "exited") /\ ~PageLimitReached
    => Busy = {} /\ NonePending(jobs)

\* The page limit is tested before a lease and counted after a fetch, so the
\* pages already in flight are the only ones that can pass it
\* (_page_limit_reached, config.max_pages).
PageBudget ==
  MaxPages # NoLimit => fetched <= MaxPages + Cardinality(Worker) - 1

\* A job is tried MaxAttempts times, plus at most once for each time the run
\* that held it ended under it: neither the workers' retries nor the reclaim
\* of expired leases hands a page out without end (queue.lease, queue.fail,
\* queue.reclaim_expired).
AttemptBudget ==
  \A u \in Url : jobs[u].attempts <= MaxAttempts + (IF runs = 0 THEN 0 ELSE runs - 1)

\* What a scan is given is never exceeded by more than the workers' races.
Budgets == PageBudget /\ AttemptBudget

\* A completed job is accounted for: its page has a row, fetched or not, unless
\* scope, block list or robots.txt kept it from being visited (_record_page).
NoSilentPage ==
  \A u \in Url :
    jobs[u].state = "completed" /\ pageRow[u] = "none"
      => u \in Blocked \cup Disallowed \/ \E sc \in Scopes : u \notin sc

\* A completed scan has drained its queue, unless it stopped at the page limit
\* (the module's docstring: a re-run "drains what's left").
Drained ==
  scanStatus = "completed" /\ ~PageLimitReached
    => InState(jobs, {"pending", "leased"}) = {}

\* The pages whose links the scan has followed up, or should have.
Explored == {u \in Html : jobs[u].state = "completed" /\ pageRow[u] = "fetched"}

\* The URLs the seed reaches over at most n links between explored pages.
Within[n \in Nat] ==
  IF n = 0 THEN {Seed}
  ELSE Within[n - 1] \cup
       UNION {Range(Links[u]) \cap (scope \ Blocked) : u \in Within[n - 1] \cap Explored}

\* A completed crawl that met no page limit has tried every URL that is within
\* MaxDepth links of its seed (config.max_depth).
DepthCoverage ==
  scanStatus = "completed" /\ ~PageLimitReached => Within[MaxDepth] \subseteq Settled

\* The queue keeps the ledger's promise: each URL is admitted once, settled at
\* most once, only by the worker that leased it, and never worked on again
\* afterwards, through failures, retries, cancellation, crashes and resumed
\* runs (queue.enqueue's dedupe_key, lease, complete, fail, reclaim_expired).
Ledger == INSTANCE CrawlLedger
            WITH waiting <- Pending(jobs), working <- Leased(jobs), settled <- Settled
KeepsLedger == Ledger!Spec

\* A run whose workers have started comes to an end.
RunEnds == phase = "setup" ~> phase = "down"
=============================================================================
