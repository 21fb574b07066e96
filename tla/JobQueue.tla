------------------------------ MODULE JobQueue ------------------------------
(***************************************************************************)
(* The durable work queue of one scan: the rows of the SQLite table "jobs" *)
(* (src/audit/db/queue.py, migration 0001).  A row is addressed here by    *)
(* its URL: dedupe_key is UNIQUE and is "fetch:<scan>:<url>", so a scan    *)
(* has at most one row for a URL.  Each operator below is one SQL          *)
(* statement, as a function from the table before to the table after, so   *)
(* that a caller which issues several of them in a row composes them.      *)
(*                                                                         *)
(* Time is kept only as far as the queue looks at it: a lease is either    *)
(* still running or lapsed (lease_until < now).                            *)
(*                                                                         *)
(* EnqueuedAnew, IsAnyJob, FailedLate and FailedStuck are wrong on         *)
(* purpose: slips of the definition they precede, kept to show that the    *)
(* properties of a crawl notice them.                                      *)
(***************************************************************************)
EXTENDS Naturals, Sequences, FiniteSets, Functions

CONSTANTS
  Url,          \* the addresses that can become jobs of the scan
  MaxAttempts   \* queue.fail's max_attempts: leases a failing job is given

ASSUME MaxAttemptsAssumption == MaxAttempts \in Nat \ {0}

\* "absent": the table holds no row for the URL.
JobState == {"absent", "pending", "leased", "completed", "failed"}

Job == [state: JobState, row: Nat, depth: Nat, attempts: Nat, lapsed: BOOLEAN]

NoRow == [state |-> "absent", row |-> 0, depth |-> 0, attempts |-> 0,
          lapsed |-> FALSE]

NoJobs == [u \in Url |-> NoRow]

-----------------------------------------------------------------------------
\* The URLs whose job is in one of the given states.
InState(js, states) == {u \in Url : js[u].state \in states}

Pending(js) == InState(js, {"pending"})
Leased(js) == InState(js, {"leased"})

\* pending_count(...) == 0.
NonePending(js) == Pending(js) = {}

\* Where a URL first occurs in the list of URLs being enqueued: one more than
\* the number of places the list goes on without it.
Position(us, u) ==
  1 + Cardinality({i \in DOMAIN us : \A k \in 1..i : us[k] # u})

EnqueuedAnew(js, last, us, ok, d) ==
  [u \in Url |->
     IF u \in Range(us) \cap ok /\ js[u].state \notin {"pending", "leased"}
     THEN [state |-> "pending", row |-> last + Position(us, u), depth |-> d,
           attempts |-> 0, lapsed |-> FALSE]
     ELSE js[u]]

\* enqueue, once for each URL of the list "us" that is in "ok", in order:
\* INSERT OR IGNORE, so a URL that already has a row, whatever its state, is
\* left alone.  "last" is the last row id given (AUTOINCREMENT: ids grow).
Enqueued(js, last, us, ok, d) ==
  [u \in Url |->
     IF u \in Range(us) \cap ok /\ js[u].state = "absent"
     THEN [state |-> "pending", row |-> last + Position(us, u), depth |-> d,
           attempts |-> 0, lapsed |-> FALSE]
     ELSE js[u]]

IsAnyJob(js, u) == u \in Pending(js) \cup Leased(js)

\* The job lease would pick: the pending row with the lowest id.
IsNextJob(js, u) == /\ u \in Pending(js)
                    /\ \A v \in Pending(js) : js[u].row <= js[v].row

\* lease: claim the row and count the attempt.
LeasedJob(js, u) ==
  [js EXCEPT ![u].state = "leased", ![u].attempts = @ + 1, ![u].lapsed = FALSE]

\* complete: UPDATE ... WHERE id = ?, whatever the row's state.
CompletedJob(js, u) ==
  [js EXCEPT ![u].state = "completed", ![u].lapsed = FALSE]

FailedLate(js, u) ==
  [js EXCEPT ![u].state = IF js[u].attempts > MaxAttempts THEN "failed" ELSE "pending",
             ![u].lapsed = FALSE]

FailedStuck(js, u) ==
  [js EXCEPT ![u].state = IF js[u].attempts >= MaxAttempts THEN "failed" ELSE "leased",
             ![u].lapsed = FALSE]

\* fail: back to pending while attempts remain.
FailedJob(js, u) ==
  [js EXCEPT ![u].state = IF js[u].attempts >= MaxAttempts THEN "failed" ELSE "pending",
             ![u].lapsed = FALSE]

\* reclaim_expired: every lapsed lease goes back to pending, its attempts kept.
Reclaimed(js) ==
  [u \in Url |-> IF js[u].state = "leased" /\ js[u].lapsed
                 THEN [js[u] EXCEPT !.state = "pending", !.lapsed = FALSE]
                 ELSE js[u]]

\* _purge_out_of_scope_jobs: delete the pending rows outside the scope.
Purged(js, scope) ==
  [u \in Url |-> IF js[u].state = "pending" /\ u \notin scope THEN NoRow ELSE js[u]]

\* 120 seconds pass since a lease: what makes its row reclaimable.
LapsedLease(js, u) == [js EXCEPT ![u].lapsed = TRUE]
=============================================================================
