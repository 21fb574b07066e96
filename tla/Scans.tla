-------------------------------- MODULE Scans --------------------------------
(***************************************************************************)
(* The scans of one address in the web application (src/audit/web/         *)
(* server.py): their rows, the one crawl task of the server process        *)
(* (crawl_state), and the requests that start, stop and delete scans while *)
(* it runs.  A scan is public, crawled by a fresh browser, or signed in,   *)
(* crawled by the browser a person signed in with.                         *)
(*                                                                         *)
(* Crawl has the details of a crawl; here it is a task that adopts a row,  *)
(* sets up, works on the row's queue and cleans up.  A request is handled  *)
(* in one turn of the event loop.  task.cancel() only asks: the task       *)
(* learns of it at a later turn, and workers whose wake-up was already     *)
(* queued run before it (late).                                            *)
(*                                                                         *)
(* DiscoverableByWork, DiscoverableAnyone, VerdictForgetful,               *)
(* SetupFailsSilently and DeleteAnyway are wrong on purpose: slips of the  *)
(* definition they precede, kept to show that the properties notice them.  *)
(***************************************************************************)
EXTENDS Naturals

CONSTANTS
  MaxScans,  \* bound on the rows ever created
  Page,      \* the site's addresses
  Seed,      \* the one the scans start from
  Worker,    \* the workers of a crawl
  NoPage     \* the worker is between pages

ASSUME ScansAssumption ==
  MaxScans \in Nat /\ Seed \in Page /\ NoPage \notin Page

Scan == 1..MaxScans  \* row ids, in the order the rows are made
NoScan == 0

VARIABLES
  server,      \* the server process: "down", "up" or "quitting"
  status,      \* scans.status of each row, "absent" or "deleted"
  signedIn,    \* the rows whose config says resumable: false
  waiting,     \* the pages of each scan with a pending job
  leased,      \* ... with a leased job
  settled,     \* ... with a completed or failed job
  kinds,       \* the kinds of browser each scan's pages were fetched with
  shown,       \* crawl_state["scan_id"]: the row the progress page follows
  place,       \* where crawl_state["task"] is; "none" when it is done
  run,         \* the row the task crawls
  runKind,     \* what it crawls with
  best,        \* the best page it got: "none", a sign-in "wall", "landed"
  held,        \* the page each worker is processing
  cancelling,  \* the task has been asked to stop and does not know yet
  late,        \* the workers that still run before it does
  stopped,     \* the scans a person stopped and did not start again
  dropped      \* the pages whose jobs stopping took from each scan

rowVars == <<status, signedIn, kinds>>
queueVars == <<waiting, leased, settled>>
taskVars == <<shown, place, run, runKind, best>>
workerVars == <<held, cancelling, late>>
history == <<stopped, dropped>>
vars == <<server, rowVars, queueVars, taskVars, workerVars, history>>

Kind == {"public", "signedIn"}
Exists(n) == status[n] \notin {"absent", "deleted"}
Live == place # "none"

TypeOK ==
  /\ server \in {"down", "up", "quitting"}
  /\ status \in [Scan -> {"absent", "running", "interrupted", "completed", "failed", "deleted"}]
  /\ signedIn \in SUBSET Scan
  /\ waiting \in [Scan -> SUBSET Page] /\ leased \in [Scan -> SUBSET Page]
  /\ settled \in [Scan -> SUBSET Page] /\ kinds \in [Scan -> SUBSET Kind]
  /\ shown \in Scan \cup {NoScan} /\ run \in Scan \cup {NoScan}
  /\ place \in {"none", "created", "starting", "crawling", "closing"}
  /\ runKind \in Kind /\ best \in {"none", "wall", "landed"}
  /\ held \in [Worker -> Page \cup {NoPage}]
  /\ cancelling \in BOOLEAN /\ late \in SUBSET Worker
  /\ stopped \in SUBSET Scan /\ dropped \in [Scan -> SUBSET Page]

Init ==
  /\ server = "up"
  /\ status = [n \in Scan |-> "absent"] /\ signedIn = {}
  /\ waiting = [n \in Scan |-> {}] /\ leased = [n \in Scan |-> {}]
  /\ settled = [n \in Scan |-> {}] /\ kinds = [n \in Scan |-> {}]
  /\ shown = NoScan /\ place = "none" /\ run = NoScan
  /\ runKind = "public" /\ best = "none"
  /\ held = [w \in Worker |-> NoPage] /\ cancelling = FALSE /\ late = {}
  /\ stopped = {} /\ dropped = [n \in Scan |-> {}]

-----------------------------------------------------------------------------
Known(n) == waiting[n] \cup leased[n] \cup settled[n]

IsNewest(n, S) == n \in S /\ \A m \in S : m <= n

\* The id an INSERT gives: ids grow and are not used again.
IsFresh(n) == status[n] = "absent" /\ \A m \in Scan : m < n => status[m] # "absent"

\* UPDATE scans SET status ... WHERE id = n, nothing if the row is gone.
SetStatus(n, s) == status' = [status EXCEPT ![n] = IF Exists(n) THEN s ELSE @]

\* _prepare_scan_row: the rows a new public scan may continue.
Adoptable == {n \in Scan \ signedIn : status[n] \in {"running", "interrupted"}}

DiscoverableByWork ==
  {n \in Scan \ signedIn : /\ status[n] \in {"running", "interrupted"}
                           /\ waiting[n] \cup leased[n] # {}}

DiscoverableAnyone ==
  {n \in Scan : \/ status[n] = "running"
                \/ status[n] = "interrupted" /\ waiting[n] \cup leased[n] # {}}

\* _ensure_scan: the rows a public crawl may adopt.
Discoverable ==
  {n \in Scan \ signedIn :
     \/ status[n] = "running"
     \/ status[n] = "interrupted" /\ waiting[n] \cup leased[n] # {}}

-----------------------------------------------------------------------------
(* Requests *)

\* The crawl task is created for row n.
StartTask(n, kind) ==
  /\ server = "up" /\ ~Live
  /\ status' = [status EXCEPT ![n] = "running"]
  /\ shown' = n /\ place' = "created" /\ runKind' = kind /\ best' = "none"
  /\ stopped' = stopped \ {n}
  /\ UNCHANGED <<server, kinds, queueVars, workerVars, dropped>>

\* POST /api/scans: continue the newest adoptable row, or make one.
CreateScan ==
  \E n \in Scan :
    /\ IsNewest(n, Adoptable) \/ (Adoptable = {} /\ IsFresh(n))
    /\ StartTask(n, "public") /\ run' = NoScan /\ UNCHANGED signedIn

\* "I'm signed in, start scan": always a new row, handed to the crawl by id.
StartSignedIn ==
  \E n \in Scan :
    /\ IsFresh(n) /\ StartTask(n, "signedIn")
    /\ run' = n /\ signedIn' = signedIn \cup {n}

\* task.cancel(): the workers in W run once more before the task hears of it.
AskToStop(W) ==
  /\ cancelling' = (cancelling \/ Live)
  /\ late' = IF place = "crawling" /\ ~cancelling THEN W ELSE late
  /\ UNCHANGED held

\* POST /api/scans/{n}/cancel: ask the task to stop if it is this scan's; mark
\* a running row interrupted and empty its queue.
Stop(n) ==
  /\ server = "up" /\ Exists(n)
  /\ IF Live /\ shown = n THEN \E W \in SUBSET Worker : AskToStop(W)
                          ELSE UNCHANGED workerVars
  /\ \/ /\ status[n] = "running"
        /\ SetStatus(n, "interrupted")
        /\ waiting' = [waiting EXCEPT ![n] = {}]
        /\ leased' = [leased EXCEPT ![n] = {}]
        /\ stopped' = stopped \cup {n}
        /\ dropped' = [dropped EXCEPT ![n] = @ \cup waiting[n] \cup leased[n]]
     \/ status[n] # "running" /\ UNCHANGED <<status, waiting, leased, history>>
  /\ UNCHANGED <<server, signedIn, kinds, settled, taskVars>>

DeleteAnyway(n) ==
  /\ server = "up" /\ Exists(n)
  /\ SetStatus(n, "deleted")
  /\ waiting' = [waiting EXCEPT ![n] = {}] /\ leased' = [leased EXCEPT ![n] = {}]
  /\ settled' = [settled EXCEPT ![n] = {}] /\ kinds' = [kinds EXCEPT ![n] = {}]
  /\ UNCHANGED <<server, signedIn, taskVars, workerVars, history>>

\* DELETE /api/scans/{n}: refused while the task is this scan's.
Delete(n) ==
  /\ server = "up" /\ Exists(n)
  /\ shown = n => ~Live /\ status[n] # "running"
  /\ SetStatus(n, "deleted")
  /\ waiting' = [waiting EXCEPT ![n] = {}] /\ leased' = [leased EXCEPT ![n] = {}]
  /\ settled' = [settled EXCEPT ![n] = {}] /\ kinds' = [kinds EXCEPT ![n] = {}]
  /\ UNCHANGED <<server, signedIn, taskVars, workerVars, history>>

-----------------------------------------------------------------------------
(* The crawl task *)

\* run_crawl's beginning, in one turn: take the row it was given or the newest
\* it discovers, take back what expired, seed the queue.
Begin ==
  /\ place = "created" /\ ~cancelling
  /\ \E n \in Scan :
       /\ \/ runKind = "signedIn" /\ n = run
          \/ runKind = "public" /\ IsNewest(n, Discoverable)
          \/ runKind = "public" /\ Discoverable = {} /\ IsFresh(n)
       /\ run' = n /\ status' = [status EXCEPT ![n] = "running"]
       /\ \E expired \in SUBSET leased[n] :
            /\ leased' = [leased EXCEPT ![n] = @ \ expired]
            /\ waiting' = [waiting EXCEPT ![n] = @ \cup expired \cup ({Seed} \ Known(n))]
  /\ place' = "starting"
  /\ UNCHANGED <<server, signedIn, kinds, settled, shown, runKind, best, workerVars, history>>

SetupFailsSilently ==
  /\ place \in {"created", "starting"} /\ ~cancelling
  /\ place' = "none"
  /\ UNCHANGED <<server, rowVars, queueVars, shown, run, runKind, best, workerVars, history>>

\* The hand-over of the signed-in browser or the crawl's set-up raises.  A
\* signed-in run marks its row failed; a public one the newest running row.
SetupFails ==
  /\ place \in {"created", "starting"} /\ ~cancelling
  /\ \/ /\ runKind = "signedIn" /\ SetStatus(run, "failed") /\ place' = "closing"
     \/ /\ runKind = "public" /\ place' = "none"
        /\ status' = [n \in Scan |->
                        IF IsNewest(n, {m \in Scan : status[m] = "running"})
                        THEN "failed" ELSE status[n]]
  /\ UNCHANGED <<server, signedIn, kinds, queueVars, shown, run, runKind, best, workerVars, history>>

StartWorkers ==
  /\ place = "starting" /\ ~cancelling /\ place' = "crawling"
  /\ UNCHANGED <<server, rowVars, queueVars, shown, run, runKind, best, workerVars, history>>

MayStep(w) == place = "crawling" /\ (~cancelling \/ w \in late)

\* A worker takes a page and waits for it: it has had its turn.
Lease(w) ==
  /\ MayStep(w) /\ held[w] = NoPage
  /\ \E p \in waiting[run] :
       /\ waiting' = [waiting EXCEPT ![run] = @ \ {p}]
       /\ leased' = [leased EXCEPT ![run] = @ \cup {p}]
       /\ held' = [held EXCEPT ![w] = p]
  /\ late' = late \ {w}
  /\ UNCHANGED <<server, rowVars, settled, taskVars, cancelling, history>>

Better(a, b) == IF "landed" \in {a, b} THEN "landed"
                ELSE IF "wall" \in {a, b} THEN "wall" ELSE "none"

\* A worker is through with its page: what it got is recorded, the new links
\* are queued, and the job, if it is still there, is settled.
Finish(w) ==
  /\ MayStep(w) /\ held[w] # NoPage
  /\ \E got \in {"none", "wall", "landed"} :
     \E links \in SUBSET (Page \ Known(run)) :
       /\ got = "none" => links = {}
       /\ waiting' = [waiting EXCEPT ![run] = @ \cup links]
       /\ kinds' = [kinds EXCEPT ![run] = IF got = "none" THEN @ ELSE @ \cup {runKind}]
       /\ best' = Better(best, got)
  /\ leased' = [leased EXCEPT ![run] = @ \ {held[w]}]
  /\ settled' = [settled EXCEPT ![run] = @ \cup ({held[w]} \cap leased[run])]
  /\ held' = [held EXCEPT ![w] = NoPage]
  /\ UNCHANGED <<server, status, signedIn, shown, place, run, runKind, cancelling, late, history>>

VerdictForgetful(ending) ==
  IF runKind = "signedIn" /\ best # "landed" THEN "failed" ELSE "completed"

\* _finalize_scan's status, and _local_login_completion's correction of it: a
\* signed-in scan that reached no page of the application has failed.
Verdict(ending) ==
  IF runKind = "signedIn" /\ best # "landed" THEN "failed" ELSE ending

\* The workers found nothing left to do.
EndRun ==
  /\ place = "crawling" /\ ~cancelling
  /\ waiting[run] = {} /\ \A w \in Worker : held[w] = NoPage
  /\ SetStatus(run, Verdict("completed")) /\ place' = "closing"
  /\ UNCHANGED <<server, signedIn, kinds, queueVars, shown, run, runKind, best, workerVars, history>>

\* Browsers and clients are closed, and the task is done.
Close ==
  /\ place = "closing" /\ ~cancelling /\ place' = "none"
  /\ UNCHANGED <<server, rowVars, queueVars, shown, run, runKind, best, workerVars, history>>

\* CancelledError reaches the task.  Before its workers run, a public crawl
\* leaves its row as it is, and so does a task that never started; a crawl
\* cancels its workers and finalizes the row; a clean-up is cut short.
CancelDelivered ==
  /\ cancelling /\ cancelling' = FALSE /\ late' = {}
  /\ held' = [w \in Worker |-> NoPage]
  /\ \/ /\ place = "created" \/ (place = "starting" /\ runKind = "public")
        /\ place' = "none" /\ UNCHANGED status
     \/ /\ place \in {"created", "starting"} /\ runKind = "signedIn"
        /\ place' = "closing" /\ SetStatus(run, "interrupted")
     \/ /\ place = "crawling"
        /\ place' = "closing" /\ SetStatus(run, Verdict("interrupted"))
     \/ /\ place = "closing"
        /\ place' = "none" /\ UNCHANGED status
  /\ UNCHANGED <<server, signedIn, kinds, queueVars, shown, run, runKind, best, history>>

-----------------------------------------------------------------------------
(* The process *)

\* The server shuts down: no more requests, and every task is cancelled, the
\* workers with the crawl.
Quit ==
  /\ server = "up" /\ server' = "quitting"
  /\ cancelling' = (cancelling \/ Live) /\ late' = {}
  /\ UNCHANGED <<rowVars, queueVars, taskVars, held, history>>

\* The process ends, after that or without warning.
Die ==
  /\ server # "down" /\ server' = "down"
  /\ place' = "none" /\ held' = [w \in Worker |-> NoPage]
  /\ cancelling' = FALSE /\ late' = {}
  /\ UNCHANGED <<rowVars, queueVars, shown, run, runKind, best, history>>

\* The server starts: _sweep_stale_running_scans.
Boot ==
  /\ server = "down" /\ server' = "up" /\ shown' = NoScan
  /\ status' = [n \in Scan |-> IF status[n] = "running" THEN "interrupted" ELSE status[n]]
  /\ UNCHANGED <<signedIn, kinds, queueVars, place, run, runKind, best, workerVars, history>>

Next ==
  \/ CreateScan \/ StartSignedIn \/ \E n \in Scan : Stop(n) \/ Delete(n)
  \/ Begin \/ SetupFails \/ StartWorkers
  \/ \E w \in Worker : Lease(w) \/ Finish(w)
  \/ EndRun \/ Close \/ CancelDelivered
  \/ Quit \/ Die \/ Boot

Spec == Init /\ [][Next]_vars

-----------------------------------------------------------------------------
(* What the scans of an address promise *)

\* The row the server names as the running scan is the row the crawl writes,
\* although the two are looked up apart (_prepare_scan_row, _ensure_scan).
ShownRow == place \in {"starting", "crawling"} => run = shown

\* While the server is up, a row listed as running has a task that will bring
\* it to an end: no failure, stop or restart leaves one running for ever.
RunningIsLive ==
  server = "up" =>
    \A n \in Scan : status[n] = "running"
      => shown = n /\ place \in {"created", "starting", "crawling"}

\* A report holds pages seen signed in or pages seen as the public sees them,
\* never both, whatever is interrupted and continued (RESUMABLE_SCAN_SQL).
SignedInApart ==
  \A n \in Scan : kinds[n] \subseteq {IF n \in signedIn THEN "signedIn" ELSE "public"}

\* A scan a person stopped is not turned into a completed one by the crawl that
\* was still under way, until somebody starts it again (api_cancel_scan).
StoppedStays == \A n \in stopped : status[n] \in {"interrupted", "failed", "deleted"}

\* A deleted scan leaves no job behind, and no crawl adds one: the queue's rows
\* are tied to the scan by nothing but their payload (api_delete_scan).
DeletedForGood ==
  \A n \in Scan : status[n] = "deleted" => Known(n) = {} /\ kinds[n] = {}

\* "A stopped scan must leave no work for a later crawl to adopt."
StoppedQueueEmpty == \A n \in stopped : waiting[n] \cup leased[n] = {}

\* Starting a stopped scan again continues it: once it is completed, the pages
\* that the stop took from its queue have been visited.
ContinuedIsWhole == \A n \in Scan : status[n] = "completed" => dropped[n] \subseteq settled[n]
=============================================================================
