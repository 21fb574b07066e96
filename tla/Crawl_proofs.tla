---------------------------- MODULE Crawl_proofs ----------------------------
(***************************************************************************)
(* The safety of a crawl, for every site, number of workers, page limit    *)
(* and number of runs.  First what each statement of the queue does to each *)
(* row, so that a proof about a crawl cites a fact and never a definition of *)
(* JobQueue; then the invariants in layers, each inductive relative to the *)
(* ones before it.                                                         *)
(***************************************************************************)
EXTENDS Crawl, FiniteSetTheorems, TLAPS

-----------------------------------------------------------------------------
(* The statements of the queue *)

\* A row id given by enqueue is a number.
LEMMA PositionType ==
  ASSUME NEW us \in Seq(Url), NEW u
  PROVE  Position(us, u) \in Nat
<1> DEFINE before == {i \in DOMAIN us : \A k \in 1..i : us[k] # u}
<1>1. DOMAIN us = 1..Len(us) /\ Len(us) \in Nat
  OBVIOUS
<1>2. IsFiniteSet(1..Len(us))
  BY <1>1, FS_Interval
<1>3. IsFiniteSet(before)
  BY <1>1, <1>2, FS_Subset
<1>4. Cardinality(before) \in Nat
  BY <1>3, FS_CardinalityType
<1> QED
  BY <1>4 DEF Position

\* enqueue adds rows and changes none: a row that exists, whatever its state,
\* is left alone, and a new one is pending, unleased and never tried.
LEMMA EnqueuedRows ==
  ASSUME NEW js \in [Url -> Job], NEW last \in Nat, NEW us \in Seq(Url),
         NEW ok, NEW d \in Nat
  PROVE  /\ Enqueued(js, last, us, ok, d) \in [Url -> Job]
         /\ \A u \in Url :
              \/ Enqueued(js, last, us, ok, d)[u] = js[u]
              \/ /\ js[u].state = "absent"
                 /\ u \in Range(us) \cap ok
                 /\ Enqueued(js, last, us, ok, d)[u].state = "pending"
                 /\ Enqueued(js, last, us, ok, d)[u].attempts = 0
         /\ \A u \in Range(us) \cap ok \cap Url :
              Enqueued(js, last, us, ok, d)[u].state # "absent"
<1> DEFINE new == Enqueued(js, last, us, ok, d)
<1> SUFFICES ASSUME NEW u \in Url
             PROVE  /\ new[u] \in Job
                    /\ \/ new[u] = js[u]
                       \/ /\ js[u].state = "absent" /\ u \in Range(us) \cap ok
                          /\ new[u].state = "pending" /\ new[u].attempts = 0
                    /\ u \in Range(us) \cap ok => new[u].state # "absent"
  BY DEF Enqueued
<1>1. Position(us, u) \in Nat
  BY PositionType
<1>2. last + Position(us, u) \in Nat
  BY <1>1
<1> HIDE DEF new
<1>3. CASE u \in Range(us) \cap ok /\ js[u].state = "absent"
  <2>1. new[u] = [state |-> "pending", row |-> last + Position(us, u),
                  depth |-> d, attempts |-> 0, lapsed |-> FALSE]
    BY <1>3 DEF new, Enqueued
  <2> QED
    BY <1>2, <1>3, <2>1 DEF Job, JobState
<1>4. CASE ~(u \in Range(us) \cap ok /\ js[u].state = "absent")
  <2>1. new[u] = js[u]
    BY <1>4 DEF new, Enqueued
  <2> QED
    BY <1>4, <2>1
<1> QED
  BY <1>3, <1>4

\* lease claims the row it is given, counts the attempt and touches no other.
LEMMA LeasedRow ==
  ASSUME NEW js \in [Url -> Job], NEW u \in Url
  PROVE  /\ LeasedJob(js, u) \in [Url -> Job]
         /\ \A v \in Url \ {u} : LeasedJob(js, u)[v] = js[v]
         /\ LeasedJob(js, u)[u].state = "leased"
         /\ LeasedJob(js, u)[u].attempts = js[u].attempts + 1
<1>1. js[u] \in Job /\ js[u].attempts + 1 \in Nat
  BY DEF Job
<1> DEFINE row == [js[u] EXCEPT !.state = "leased", !.attempts = @ + 1,
                                !.lapsed = FALSE]
<1>2. row \in Job /\ row.state = "leased" /\ row.attempts = js[u].attempts + 1
  BY <1>1 DEF Job, JobState
<1>3. LeasedJob(js, u) = [js EXCEPT ![u] = row]
  BY DEF LeasedJob
<1> QED
  BY <1>2, <1>3

\* complete settles the row it is given and touches no other.
LEMMA CompletedRow ==
  ASSUME NEW js \in [Url -> Job], NEW u \in Url
  PROVE  /\ CompletedJob(js, u) \in [Url -> Job]
         /\ \A v \in Url \ {u} : CompletedJob(js, u)[v] = js[v]
         /\ CompletedJob(js, u)[u].state = "completed"
         /\ CompletedJob(js, u)[u].attempts = js[u].attempts
BY DEF CompletedJob, Job, JobState

\* fail puts the row it is given back only while it has attempts left, and
\* touches no other.
LEMMA FailedRow ==
  ASSUME NEW js \in [Url -> Job], NEW u \in Url
  PROVE  /\ FailedJob(js, u) \in [Url -> Job]
         /\ \A v \in Url \ {u} : FailedJob(js, u)[v] = js[v]
         /\ FailedJob(js, u)[u].state \in {"pending", "failed"}
         /\ FailedJob(js, u)[u].state = "pending" => js[u].attempts < MaxAttempts
         /\ FailedJob(js, u)[u].attempts = js[u].attempts
<1>1. js[u] \in Job /\ js[u].attempts \in Nat
  BY DEF Job
<1> DEFINE st == IF js[u].attempts >= MaxAttempts THEN "failed" ELSE "pending"
           row == [js[u] EXCEPT !.state = st, !.lapsed = FALSE]
<1>2. st \in {"pending", "failed"} /\ (st = "pending" => js[u].attempts < MaxAttempts)
  BY <1>1, MaxAttemptsAssumption
<1>3. FailedJob(js, u) = [js EXCEPT ![u] = row]
  BY DEF FailedJob
<1> HIDE DEF st
<1>4. row \in Job /\ row.state = st /\ row.attempts = js[u].attempts
  BY <1>1, <1>2 DEF Job, JobState
<1> QED
  BY <1>2, <1>3, <1>4

\* A lease that reaches its deadline changes what can be reclaimed, no more.
LEMMA LapsedRow ==
  ASSUME NEW js \in [Url -> Job], NEW u \in Url
  PROVE  /\ LapsedLease(js, u) \in [Url -> Job]
         /\ \A v \in Url : /\ LapsedLease(js, u)[v].state = js[v].state
                           /\ LapsedLease(js, u)[v].attempts = js[v].attempts
BY DEF LapsedLease, Job, JobState

\* reclaim_expired moves leased rows to pending with their attempts and touches
\* no other.
LEMMA ReclaimedRows ==
  ASSUME NEW js \in [Url -> Job]
  PROVE  /\ Reclaimed(js) \in [Url -> Job]
         /\ \A u \in Url :
              \/ Reclaimed(js)[u] = js[u]
              \/ /\ js[u].state = "leased"
                 /\ Reclaimed(js)[u].state = "pending"
                 /\ Reclaimed(js)[u].attempts = js[u].attempts
BY DEF Reclaimed, Job, JobState

\* The scope purge drops pending rows and touches no other.
LEMMA PurgedRows ==
  ASSUME NEW js \in [Url -> Job], NEW sc
  PROVE  /\ Purged(js, sc) \in [Url -> Job]
         /\ \A u \in Url :
              \/ Purged(js, sc)[u] = js[u]
              \/ /\ js[u].state = "pending" /\ u \notin sc
                 /\ Purged(js, sc)[u].state = "absent"
                 /\ Purged(js, sc)[u].attempts = 0
BY DEF Purged, NoRow, Job, JobState

-----------------------------------------------------------------------------
(* The invariants of a crawl *)

Processing == {"fetching", "imaging", "checking"}

\* Who holds a job is written twice, in a worker's place and in the job it
\* holds; and what is outside a running crawl has no worker under way.
Placed ==
  /\ \A w \in Worker : pc[w] \in Processing <=> held[w] # NoUrl
  /\ phase # "crawling" => \A w \in Worker : pc[w] = "idle"
  /\ phase # "down" => scope \in Scopes /\ runs # 0

\* The first layer: inFlight is a number only because it counts something.
Counted == TypeOK /\ Placed /\ InFlightExact

-----------------------------------------------------------------------------
(* Facts about the groups of assignments the actions share *)

\* The workers that hold a job are finitely many, so they can be counted.
LEMMA BusyFinite == IsFiniteSet(Busy) /\ Cardinality(Busy) \in Nat
<1>1. IsFiniteSet(Busy)
  BY ConfigAssumption, FS_Subset DEF Busy
<1> QED
  BY <1>1, FS_CardinalityType

\* A worker that lets its job go is one fewer at work.
LEMMA LetGoCounts ==
  ASSUME Counted, NEW w \in Worker, phase = "crawling", pc[w] \in Processing, LetGo(w)
  PROVE  /\ pc' \in [Worker -> WorkerPc] /\ held' \in [Worker -> Url \cup {NoUrl}]
         /\ inFlight' \in Nat
         /\ \A v \in Worker : pc'[v] \in Processing <=> held'[v] # NoUrl
         /\ \A v \in Worker \ {w} : pc'[v] = pc[v] /\ held'[v] = held[v]
         /\ pc'[w] = "idle" /\ held'[w] = NoUrl
         /\ held[w] \in Url /\ w \in Busy
         /\ Busy' = Busy \ {w}
         /\ InFlightExact'
<1> USE DEF Counted, TypeOK
<1>1. held[w] \in Url /\ w \in Busy
  BY DEF Placed, Busy
<1>2. /\ pc' \in [Worker -> WorkerPc] /\ held' \in [Worker -> Url \cup {NoUrl}]
      /\ \A v \in Worker \ {w} : pc'[v] = pc[v] /\ held'[v] = held[v]
      /\ pc'[w] = "idle" /\ held'[w] = NoUrl
  BY DEF LetGo, WorkerPc
<1>3. \A v \in Worker : pc'[v] \in Processing <=> held'[v] # NoUrl
  BY <1>2 DEF Placed, Processing
<1>4. Busy' = Busy \ {w}
  BY <1>2 DEF Busy
<1>5. IsFiniteSet(Busy) /\ Cardinality(Busy) \in Nat
  BY BusyFinite
<1>6. Cardinality(Busy \ {w}) = Cardinality(Busy) - 1 /\ Cardinality(Busy \ {w}) \in Nat
  BY <1>1, <1>5, FS_RemoveElement, FS_CardinalityType
<1>7. inFlight' = Cardinality(Busy) - 1
  BY DEF LetGo, InFlightExact
<1> QED
  BY <1>1, <1>2, <1>3, <1>4, <1>6, <1>7 DEF InFlightExact

\* When the run is over nobody is at work.
LEMMA RunOverCounts ==
  ASSUME Counted, RunOver
  PROVE  /\ pc' \in [Worker -> WorkerPc] /\ held' \in [Worker -> Url \cup {NoUrl}]
         /\ inFlight' \in Nat /\ phase' = "down"
         /\ Placed' /\ InFlightExact'
         /\ Busy' = {} /\ \A w \in Worker : pc'[w] = "idle"
<1>1. /\ pc' \in [Worker -> WorkerPc] /\ held' \in [Worker -> Url \cup {NoUrl}]
      /\ inFlight' \in Nat /\ inFlight' = 0 /\ phase' = "down"
      /\ \A w \in Worker : pc'[w] = "idle" /\ held'[w] = NoUrl
  BY DEF RunOver, WorkerPc
<1>2. Busy' = {}
  BY <1>1 DEF Busy
<1>3. InFlightExact'
  BY <1>1, <1>2, FS_EmptySet DEF InFlightExact
<1>4. Placed'
  BY <1>1 DEF Placed, Processing
<1> QED
  BY <1>1, <1>2, <1>3, <1>4

\* The queue a run starts from, row by row.
LEMMA StartingRows ==
  ASSUME jobs \in [Url -> Job], lastRow \in Nat, NEW sc
  PROVE  /\ StartingQueue(sc) \in [Url -> Job]
         /\ \A u \in Url :
              \/ StartingQueue(sc)[u] = jobs[u]
              \/ /\ jobs[u].state = "leased" /\ StartingQueue(sc)[u].state = "pending"
                 /\ StartingQueue(sc)[u].attempts = jobs[u].attempts
              \/ /\ jobs[u].state \in {"absent", "pending", "leased"}
                 /\ StartingQueue(sc)[u].state \in {"absent", "pending"}
                 /\ StartingQueue(sc)[u].attempts = 0
<1> DEFINE r == Reclaimed(jobs)
           p == Purged(r, sc)
           q == Enqueued(p, lastRow, <<Seed>>, Url, 0)
<1>1. r \in [Url -> Job]
  BY ReclaimedRows
<1>2. p \in [Url -> Job]
  BY <1>1, PurgedRows
<1>3. <<Seed>> \in Seq(Url)
  BY SiteAssumption
<1>4. /\ q \in [Url -> Job]
      /\ \A u \in Url :
           \/ q[u] = p[u]
           \/ p[u].state = "absent" /\ q[u].state = "pending" /\ q[u].attempts = 0
  <2> HIDE DEF p
  <2>1. /\ q \in [Url -> Job]
        /\ \A u \in Url :
             \/ q[u] = p[u]
             \/ /\ p[u].state = "absent"
                /\ u \in Range(<<Seed>>) \cap Url
                /\ q[u].state = "pending"
                /\ q[u].attempts = 0
        /\ \A u \in Range(<<Seed>>) \cap Url \cap Url : q[u].state # "absent"
    BY <1>2, <1>3, EnqueuedRows, Zenon
  <2> QED
    BY <2>1
<1>5. ASSUME NEW u \in Url
      PROVE  \/ q[u] = jobs[u]
             \/ /\ jobs[u].state = "leased" /\ q[u].state = "pending"
                /\ q[u].attempts = jobs[u].attempts
             \/ /\ jobs[u].state \in {"absent", "pending", "leased"}
                /\ q[u].state \in {"absent", "pending"} /\ q[u].attempts = 0
  <2>1. \/ r[u] = jobs[u]
        \/ /\ jobs[u].state = "leased" /\ r[u].state = "pending"
           /\ r[u].attempts = jobs[u].attempts
    BY ReclaimedRows
  <2>2. \/ p[u] = r[u]
        \/ /\ r[u].state = "pending" /\ p[u].state = "absent" /\ p[u].attempts = 0
    BY <1>1, PurgedRows
  <2>3. \/ q[u] = p[u]
        \/ /\ p[u].state = "absent" /\ q[u].state = "pending" /\ q[u].attempts = 0
    BY <1>4
  <2> HIDE DEF r, p, q
  <2> QED
    BY <2>1, <2>2, <2>3
<1> QED
  BY <1>4, <1>5 DEF StartingQueue

\* The queue a dying process leaves, row by row.
LEMMA HalfDoneRows ==
  ASSUME Counted, phase = "crawling", NEW w \in Worker, HalfDone(w)
  PROVE  /\ jobs' \in [Url -> Job] /\ lastRow' \in Nat
         /\ pageRow' \in [Url -> {"none", "unfetched", "fetched"}]
         /\ \A u \in Url :
              \/ jobs'[u] = jobs[u]
              \/ /\ jobs[u].state = "absent" /\ jobs'[u].state = "pending"
                 /\ jobs'[u].attempts = 0
         /\ \A u \in Url : pageRow[u] # "none" => pageRow'[u] # "none"
<1> USE DEF Counted, TypeOK
<1>1. CASE /\ At(w, "fetching") /\ UNCHANGED queueVars
           /\ \/ pageRow' = [pageRow EXCEPT ![held[w]] = "fetched"]
              \/ pageRow' = [pageRow EXCEPT ![held[w]] = "unfetched"]
  <2>1. UNCHANGED <<jobs, lastRow>>
    BY <1>1 DEF queueVars
  <2>2. /\ pageRow' \in [Url -> {"none", "unfetched", "fetched"}]
        /\ \A u \in Url : pageRow[u] # "none" => pageRow'[u] # "none"
    BY <1>1
  <2> QED
    BY <2>1, <2>2
<1>2. ASSUME NEW n \in 1..Len(Links[held[w]]), At(w, "checking"),
             jobs' = Enqueued(jobs, lastRow, SubSeq(Links[held[w]], 1, n),
                              Follow(held[w]), jobs[held[w]].depth + 1),
             lastRow' = lastRow + n, UNCHANGED pageRow
      PROVE  /\ jobs' \in [Url -> Job] /\ lastRow' \in Nat
             /\ \A u \in Url :
                  \/ jobs'[u] = jobs[u]
                  \/ /\ jobs[u].state = "absent" /\ jobs'[u].state = "pending"
                     /\ jobs'[u].attempts = 0
  <2>1. held[w] \in Url
    BY <1>2 DEF At, Placed, Processing
  <2>2. Links[held[w]] \in Seq(Url)
    BY <2>1, SiteAssumption
  <2>3. SubSeq(Links[held[w]], 1, n) \in Seq(Url) /\ n \in Nat
    BY <2>2
  <2>4. jobs[held[w]].depth + 1 \in Nat
    BY <2>1 DEF Job
  <2> DEFINE us == SubSeq(Links[held[w]], 1, n)
             ok == Follow(held[w])
             d == jobs[held[w]].depth + 1
  <2>5. /\ jobs' = Enqueued(jobs, lastRow, us, ok, d)
        /\ jobs \in [Url -> Job] /\ lastRow \in Nat /\ us \in Seq(Url) /\ d \in Nat
        /\ lastRow' \in Nat
    BY <1>2, <2>3, <2>4
  <2> HIDE DEF us, ok, d, Counted, TypeOK
  <2> QED
    BY <2>5, EnqueuedRows
<1> QED
  BY <1>1, <1>2 DEF HalfDone

\* What is left in the queue by a Finish, row by row.
LEMMA FinishRows ==
  ASSUME Counted, NEW w \in Worker, Finish(w)
  PROVE  /\ jobs' \in [Url -> Job] /\ lastRow' \in Nat
         /\ jobs'[held[w]].state = "completed"
         /\ jobs'[held[w]].attempts
              \in {jobs[held[w]].attempts, 0}
         /\ jobs[held[w]].state # "absent"
              => jobs'[held[w]].attempts = jobs[held[w]].attempts
         /\ \A u \in Url \ {held[w]} :
              \/ jobs'[u] = jobs[u]
              \/ /\ jobs[u].state = "absent" /\ jobs'[u].state = "pending"
                 /\ jobs'[u].attempts = 0
<1>1. held[w] \in Url
  BY DEF Finish, At, Counted, TypeOK, Placed, Processing
<1> DEFINE us == Links[held[w]]
           ok == Follow(held[w])
           d == jobs[held[w]].depth + 1
           new == Enqueued(jobs, lastRow, us, ok, d)
<1>2. /\ jobs \in [Url -> Job] /\ lastRow \in Nat /\ us \in Seq(Url) /\ d \in Nat
      /\ jobs' = CompletedJob(new, held[w]) /\ lastRow' = lastRow + Len(us)
  BY <1>1, SiteAssumption DEF Finish, Counted, TypeOK, Job
<1>3. lastRow' \in Nat
  BY <1>2
<1> HIDE DEF us, ok, d
<1>4. /\ new \in [Url -> Job]
      /\ \A u \in Url :
           \/ new[u] = jobs[u]
           \/ jobs[u].state = "absent" /\ new[u].state = "pending" /\ new[u].attempts = 0
  BY <1>2, EnqueuedRows
<1> HIDE DEF new
<1> QED
  BY <1>1, <1>2, <1>3, <1>4, CompletedRow

-----------------------------------------------------------------------------
\* Every variable keeps its type; the holder of a job and its place agree; and
\* ctx.in_flight counts the jobs being processed.
LEMMA CountedInit == Init => Counted
<1> SUFFICES ASSUME Init PROVE Counted
  OBVIOUS
<1>1. TypeOK
  BY DEF Init, TypeOK, NoJobs, NoRow, Job, JobState, ScanStatus, WorkerPc
<1>2. Placed
  BY DEF Init, Placed, Processing
<1>3. InFlightExact
  <2>1. Busy = {}
    BY DEF Init, Busy
  <2> QED
    BY <2>1, FS_EmptySet DEF Init, InFlightExact
<1> QED
  BY <1>1, <1>2, <1>3 DEF Counted

\* Every action keeps the types, the agreement and the count.
LEMMA CountedStep == Counted /\ [Next]_vars => Counted'
<1> SUFFICES ASSUME Counted, [Next]_vars PROVE Counted'
  OBVIOUS
<1> USE DEF Counted
<1>0. TypeOK /\ Placed /\ InFlightExact
  OBVIOUS
<1>1. CASE BeginRun
  <2>1. PICK sc \in Scopes : scope' = sc /\ jobs' = StartingQueue(sc)
    BY <1>1 DEF BeginRun
  <2>2. jobs' \in [Url -> Job]
    BY <2>1, StartingRows DEF TypeOK
  <2>3. TypeOK'
    BY <1>1, <2>1, <2>2, SiteAssumption
    DEF BeginRun, TypeOK, ScanStatus, workerVars
  <2>4. Placed'
    BY <1>1, <2>1, <2>3 DEF BeginRun, Placed, workerVars, TypeOK
  <2>5. InFlightExact'
    BY <1>1 DEF BeginRun, InFlightExact, Busy, workerVars
  <2> QED
    BY <2>3, <2>4, <2>5
<1>2. CASE SetupFails \/ StartWorkers \/ SweepStale
  <2>1. TypeOK' /\ Placed'
    BY <1>2 DEF SetupFails, StartWorkers, SweepStale, TypeOK, Placed, ScanStatus,
                queueVars, workerVars, pageVars
  <2>2. InFlightExact'
    BY <1>2 DEF SetupFails, StartWorkers, SweepStale, InFlightExact, Busy, workerVars
  <2> QED
    BY <2>1, <2>2
<1>3. ASSUME NEW w \in Worker, Lease(w)
      PROVE  Counted'
  <2>1. PICK u \in Url : /\ jobs' = LeasedJob(jobs, u)
                         /\ held' = [held EXCEPT ![w] = u]
    BY <1>3 DEF Lease
  <2>2. jobs' \in [Url -> Job]
    BY <2>1, LeasedRow DEF TypeOK
  <2>3. pc[w] = "idle" /\ held[w] = NoUrl /\ u # NoUrl /\ phase = "crawling"
    BY <1>3, SiteAssumption DEF Lease, At, Placed, Processing
  <2>4. TypeOK'
    BY <1>3, <2>1, <2>2 DEF Lease, TypeOK, runVars, pageVars, WorkerPc
  <2>5. Placed'
    BY <1>3, <2>1, <2>3 DEF Lease, TypeOK, runVars, Placed, Processing
  <2>6. Busy' = Busy \cup {w} /\ w \notin Busy
    BY <2>1, <2>3 DEF TypeOK, Busy
  <2>7. InFlightExact'
    BY <1>3, <2>6, BusyFinite, FS_AddElement DEF Lease, InFlightExact
  <2> QED
    BY <2>4, <2>5, <2>7
<1>4. ASSUME NEW w \in Worker, Exit(w)
      PROVE  Counted'
  <2>1. TypeOK' /\ Placed'
    BY <1>4 DEF Exit, At, TypeOK, Placed, Processing, WorkerPc, queueVars, runVars, pageVars
  <2>2. InFlightExact'
    BY <1>4 DEF Exit, InFlightExact, Busy
  <2> QED
    BY <2>1, <2>2
<1>5. ASSUME NEW w \in Worker, phase = "crawling", pc[w] \in Processing, LetGo(w),
             jobs' \in [Url -> Job], lastRow' \in Nat, UNCHANGED runVars,
             pageRow' \in [Url -> {"none", "unfetched", "fetched"}], fetched' \in Nat,
             UNCHANGED <<axeRows, axePages>>
      PROVE  Counted'
  <2>1. TypeOK'
    BY <1>5, LetGoCounts DEF TypeOK, runVars
  <2>2. Placed'
    BY <1>5, LetGoCounts DEF Placed, runVars
  <2> QED
    BY <1>5, <2>1, <2>2, LetGoCounts
<1>6. ASSUME NEW w \in Worker, Raise(w) \/ Refuse(w) \/ FetchFails(w)
      PROVE  Counted'
  <2>1. /\ phase = "crawling" /\ pc[w] \in Processing /\ LetGo(w)
        /\ UNCHANGED <<lastRow, runVars, fetched, axeRows, axePages>>
    BY <1>6 DEF Raise, Refuse, FetchFails, At, Processing, pageVars
  <2>2. held[w] \in Url
    BY <2>1, LetGoCounts
  <2>3. jobs' = FailedJob(jobs, held[w]) \/ jobs' = CompletedJob(jobs, held[w])
    BY <1>6 DEF Raise, Refuse, FetchFails
  <2>4. jobs' \in [Url -> Job]
    BY <2>2, <2>3, FailedRow, CompletedRow DEF TypeOK
  <2>5. pageRow' \in [Url -> {"none", "unfetched", "fetched"}]
    BY <1>6 DEF Raise, Refuse, FetchFails, pageVars, TypeOK
  <2> QED
    BY <1>5, <2>1, <2>4, <2>5 DEF TypeOK
<1>7. ASSUME NEW w \in Worker, FetchPage(w)
      PROVE  Counted'
  <2>0. /\ phase = "crawling" /\ pc[w] = "fetching"
        /\ pageRow' = [pageRow EXCEPT ![held[w]] = "fetched"] /\ fetched' = fetched + 1
        /\ UNCHANGED <<lastRow, runVars, axeRows, axePages>>
    BY <1>7 DEF FetchPage, At
  <2>1. /\ pageRow' \in [Url -> {"none", "unfetched", "fetched"}]
        /\ fetched' \in Nat
    <3>1. /\ pageRow \in [Url -> {"none", "unfetched", "fetched"}]
          /\ fetched \in Nat
      BY DEF TypeOK
    <3> HIDE DEF Counted
    <3>2. fetched' \in Nat
      BY <2>0, <3>1
    <3> QED
      BY <2>0, <3>1, <3>2
  <2>2. CASE pc' = [pc EXCEPT ![w] = "imaging"] /\ UNCHANGED <<jobs, held, inFlight>>
    <3>1. TypeOK' /\ Placed'
      BY <2>0, <2>1, <2>2 DEF TypeOK, Placed, Processing, runVars, WorkerPc
    <3>2. InFlightExact'
      BY <2>2 DEF InFlightExact, Busy
    <3> QED
      BY <3>1, <3>2
  <2>3. CASE jobs' = CompletedJob(jobs, held[w]) /\ LetGo(w)
    <3>1. held[w] \in Url
      BY <2>0 DEF TypeOK, Placed, Processing
    <3>2. jobs' \in [Url -> Job]
      BY <2>3, <3>1, CompletedRow DEF TypeOK
    <3> QED
      BY <1>5, <2>0, <2>1, <2>3, <3>2 DEF Processing, TypeOK
  <2> QED
    BY <1>7, <2>2, <2>3 DEF FetchPage
<1>8. ASSUME NEW w \in Worker, PersistAxe(w)
      PROVE  Counted'
  <2>1. pc[w] = "imaging" /\ held[w] \in Url
    BY <1>8 DEF PersistAxe, At, TypeOK, Placed, Processing
  <2>2. TypeOK' /\ Placed'
    BY <1>8, <2>1 DEF PersistAxe, At, TypeOK, Placed, Processing, queueVars, runVars, WorkerPc
  <2>3. InFlightExact'
    BY <1>8 DEF PersistAxe, InFlightExact, Busy
  <2> QED
    BY <2>2, <2>3
<1>9. ASSUME NEW w \in Worker, Finish(w)
      PROVE  Counted'
  <2>1. /\ phase = "crawling" /\ pc[w] \in Processing /\ LetGo(w)
        /\ UNCHANGED <<runVars, pageRow, fetched, axeRows, axePages>>
    BY <1>9 DEF Finish, At, Processing, pageVars
  <2> QED
    BY <1>5, <1>9, <2>1, FinishRows DEF TypeOK
<1>10. CASE EndRun \/ Cancel \/ \E w \in Worker : WorkerDies(w)
  <2>1. /\ RunOver /\ scanStatus' \in ScanStatus
        /\ UNCHANGED <<queueVars, runs, scope, pageVars>>
    BY <1>10 DEF EndRun, Cancel, WorkerDies, ScanStatus
  <2>2. TypeOK'
    BY <2>1, RunOverCounts DEF TypeOK, queueVars, pageVars
  <2> QED
    BY <2>1, <2>2, RunOverCounts
<1>11. CASE Crash
  <2>1. RunOver /\ UNCHANGED <<scanStatus, runs, scope, fetched, axeRows, axePages>>
    BY <1>11 DEF Crash
  <2>2. /\ jobs' \in [Url -> Job] /\ lastRow' \in Nat
        /\ pageRow' \in [Url -> {"none", "unfetched", "fetched"}]
    <3>1. CASE UNCHANGED <<queueVars, pageRow>>
      BY <3>1 DEF queueVars, TypeOK
    <3>2. ASSUME NEW w \in Worker, HalfDone(w)
          PROVE  /\ jobs' \in [Url -> Job] /\ lastRow' \in Nat
                 /\ pageRow' \in [Url -> {"none", "unfetched", "fetched"}]
      <4>1. phase = "crawling"
        BY <3>2 DEF HalfDone, At
      <4> QED
        BY <3>2, <4>1, HalfDoneRows
    <3> QED
      BY <1>11, <3>1, <3>2 DEF Crash
  <2>3. TypeOK'
    BY <2>1, <2>2, RunOverCounts DEF TypeOK
  <2> QED
    BY <2>1, <2>3, RunOverCounts
<1>12. ASSUME NEW u \in Url, LeaseLapses(u)
       PROVE  Counted'
  <2>1. jobs' \in [Url -> Job]
    BY <1>12, LapsedRow DEF LeaseLapses, TypeOK
  <2>2. TypeOK' /\ Placed'
    BY <1>12, <2>1 DEF LeaseLapses, TypeOK, Placed, runVars, workerVars, pageVars
  <2>3. InFlightExact'
    BY <1>12 DEF LeaseLapses, InFlightExact, Busy, workerVars
  <2> QED
    BY <2>2, <2>3
<1>13. CASE UNCHANGED vars
  BY <1>13 DEF vars, queueVars, runVars, workerVars, pageVars, TypeOK, Placed,
               InFlightExact, Busy
<1> HIDE DEF Counted
<1> QED
  BY <1>1, <1>2, <1>3, <1>4, <1>6, <1>7, <1>8, <1>9, <1>10, <1>11, <1>12, <1>13
  DEF Next, WorkerStep

\* So they hold throughout every behaviour.
LEMMA CountedAlways == Spec => []Counted
BY CountedInit, CountedStep, PTL DEF Spec

\* Type correctness: every variable keeps its type.
THEOREM TypeCorrect == Spec => []TypeOK
<1>1. Counted => TypeOK
  BY DEF Counted
<1> QED
  BY <1>1, CountedAlways, PTL

\* ctx.in_flight, which idle workers read to decide whether the crawl is over,
\* is the number of jobs being processed, in every run.
THEOREM InFlightCorrect == Spec => []InFlightExact
<1>1. Counted => InFlightExact
  BY DEF Counted
<1> QED
  BY <1>1, CountedAlways, PTL

-----------------------------------------------------------------------------
\* No job is processed by two workers, and a job being processed is leased.
LEMMA ExclusiveStep ==
  Counted /\ Counted' /\ ExclusiveLease /\ [Next]_vars => ExclusiveLease'
<1> SUFFICES ASSUME Counted, Counted', ExclusiveLease, [Next]_vars
             PROVE  ExclusiveLease'
  OBVIOUS
<1>0. /\ TypeOK /\ Placed
      /\ \A w \in Busy : held[w] \in Url /\ jobs[held[w]].state = "leased"
  BY DEF Counted, TypeOK, ExclusiveLease, Busy
<1>1. ASSUME Busy' \subseteq Busy,
             \A w \in Busy' : held'[w] = held[w] /\ jobs'[held[w]].state = "leased"
      PROVE  ExclusiveLease'
  BY <1>1 DEF ExclusiveLease
<1>2. ASSUME UNCHANGED held, \A u \in Url : jobs'[u].state = jobs[u].state
      PROVE  ExclusiveLease'
  BY <1>0, <1>1, <1>2 DEF Busy
<1>3. ASSUME Busy' = {}
      PROVE  ExclusiveLease'
  BY <1>3 DEF ExclusiveLease
<1>4. ASSUME NEW w \in Worker, phase = "crawling", pc[w] \in Processing, LetGo(w),
             \A u \in Url \ {held[w]} :
               jobs[u].state = "leased" => jobs'[u].state = "leased"
      PROVE  ExclusiveLease'
  <2>1. Busy' = Busy \ {w} /\ w \in Busy /\ held[w] \in Url
        /\ \A v \in Worker \ {w} : held'[v] = held[v]
    BY <1>4, LetGoCounts
  <2>2. ASSUME NEW v \in Busy'
        PROVE  held'[v] = held[v] /\ jobs'[held[v]].state = "leased"
    <3>1. v \in Busy /\ v # w /\ v \in Worker
      BY <2>1, <2>2 DEF Busy
    <3>2. held[v] # held[w] /\ held[v] \in Url
      BY <1>0, <2>1, <3>1 DEF ExclusiveLease
    <3> QED
      BY <1>0, <1>4, <2>1, <3>1, <3>2
  <2> QED
    BY <1>1, <2>1, <2>2
<1>5. CASE BeginRun
  <2>1. Busy' = {}
    BY <1>0, <1>5 DEF BeginRun, workerVars, Placed, Processing, Busy
  <2> QED
    BY <1>3, <2>1
<1>6. CASE \/ SetupFails \/ StartWorkers \/ SweepStale
           \/ \E w \in Worker : Exit(w) \/ PersistAxe(w)
  BY <1>2, <1>6 DEF SetupFails, StartWorkers, SweepStale, Exit, PersistAxe,
                    queueVars, workerVars
<1>7. ASSUME NEW w \in Worker, Lease(w)
      PROVE  ExclusiveLease'
  <2>1. PICK u \in Url : /\ IsNextJob(jobs, u) /\ jobs' = LeasedJob(jobs, u)
                         /\ held' = [held EXCEPT ![w] = u]
    BY <1>7 DEF Lease
  <2>2. jobs[u].state = "pending"
    BY <2>1 DEF IsNextJob, Pending, InState
  <2>3. /\ jobs'[u].state = "leased"
        /\ \A x \in Url \ {u} : jobs'[x] = jobs[x]
    BY <1>0, <2>1, LeasedRow DEF TypeOK
  <2>4. /\ held'[w] = u /\ \A v \in Worker \ {w} : held'[v] = held[v]
        /\ held[w] = NoUrl
    BY <1>0, <1>7, <2>1 DEF TypeOK, Lease, At, Placed, Processing
  <2>5. \A v \in Busy' \ {w} : v \in Busy /\ held'[v] = held[v] /\ held[v] # u
    BY <1>0, <2>2, <2>4 DEF Busy
  <2>6. \A v \in Busy' : jobs'[held'[v]].state = "leased"
    BY <1>0, <2>3, <2>4, <2>5
  <2>7. ASSUME NEW v \in Busy', NEW x \in Busy', held'[v] = held'[x]
        PROVE  v = x
    BY <2>4, <2>5, <2>7 DEF ExclusiveLease
  <2> QED
    BY <2>6, <2>7 DEF ExclusiveLease
<1>8. ASSUME NEW w \in Worker, Raise(w) \/ Refuse(w) \/ FetchFails(w)
      PROVE  ExclusiveLease'
  <2>1. /\ phase = "crawling" /\ pc[w] \in Processing /\ LetGo(w)
        /\ jobs' = FailedJob(jobs, held[w]) \/ jobs' = CompletedJob(jobs, held[w])
    BY <1>8 DEF Raise, Refuse, FetchFails, At, Processing
  <2>2. \A u \in Url \ {held[w]} : jobs'[u] = jobs[u]
    BY <1>0, <2>1, LetGoCounts, FailedRow, CompletedRow DEF TypeOK
  <2> QED
    BY <1>4, <2>1, <2>2
<1>9. ASSUME NEW w \in Worker, FetchPage(w)
      PROVE  ExclusiveLease'
  <2>1. CASE UNCHANGED <<jobs, held>>
    BY <1>2, <2>1
  <2>2. CASE jobs' = CompletedJob(jobs, held[w]) /\ LetGo(w)
    <3>1. phase = "crawling" /\ pc[w] \in Processing
      BY <1>9 DEF FetchPage, At, Processing
    <3>2. \A u \in Url \ {held[w]} : jobs'[u] = jobs[u]
      BY <1>0, <2>2, <3>1, LetGoCounts, CompletedRow DEF TypeOK
    <3> QED
      BY <1>4, <2>2, <3>1, <3>2
  <2> QED
    BY <1>9, <2>1, <2>2 DEF FetchPage
<1>10. ASSUME NEW w \in Worker, Finish(w)
       PROVE  ExclusiveLease'
  <2>1. phase = "crawling" /\ pc[w] \in Processing /\ LetGo(w)
    BY <1>10 DEF Finish, At, Processing
  <2>2. \A u \in Url \ {held[w]} : jobs[u].state = "leased" => jobs'[u] = jobs[u]
    BY <1>10, FinishRows
  <2> QED
    BY <1>4, <2>1, <2>2
<1>11. CASE EndRun \/ Cancel \/ Crash \/ \E w \in Worker : WorkerDies(w)
  <2>1. RunOver
    BY <1>11 DEF EndRun, Cancel, Crash, WorkerDies
  <2> QED
    BY <1>3, <2>1, RunOverCounts
<1>12. ASSUME NEW u \in Url, LeaseLapses(u)
       PROVE  ExclusiveLease'
  <2>1. UNCHANGED held /\ \A v \in Url : jobs'[v].state = jobs[v].state
    BY <1>0, <1>12, LapsedRow DEF LeaseLapses, workerVars, TypeOK
  <2> QED
    BY <1>2, <2>1
<1>13. CASE UNCHANGED vars
  BY <1>2, <1>13 DEF vars, queueVars, workerVars
<1> QED
  BY <1>5, <1>6, <1>7, <1>8, <1>9, <1>10, <1>11, <1>12, <1>13 DEF Next, WorkerStep

\* No two workers ever process the same job, and no job is in front of the
\* other workers while one processes it: through failures, retries, reclaimed
\* leases, purges and restarts (queue.lease, queue.fail, queue.reclaim_expired).
THEOREM ExclusiveLeaseCorrect == Spec => []ExclusiveLease
<1>1. Init => ExclusiveLease
  BY DEF Init, ExclusiveLease, Busy
<1> QED
  BY <1>1, ExclusiveStep, CountedAlways, PTL DEF Spec

-----------------------------------------------------------------------------
\* When a worker has left a drained queue, nothing can refill it.
LEMMA QuietStep ==
  Counted /\ Counted' /\ QuietExit /\ [Next]_vars => QuietExit'
<1> SUFFICES ASSUME Counted, Counted', QuietExit, [Next]_vars,
                    NEW x \in Worker, pc'[x] = "exited", ~PageLimitReached'
             PROVE  Busy' = {} /\ NonePending(jobs)'
  BY DEF QuietExit
<1>0. TypeOK /\ Placed /\ InFlightExact /\ IsFiniteSet(Busy)
  BY BusyFinite DEF Counted
<1>1. CASE BeginRun \/ SetupFails \/ StartWorkers \/ SweepStale
  <2>1. pc' = pc /\ phase # "crawling"
    BY <1>1 DEF BeginRun, SetupFails, StartWorkers, SweepStale, workerVars
  <2> QED
    BY <1>0, <2>1 DEF Placed
<1>2. CASE EndRun \/ Cancel \/ Crash \/ \E w \in Worker : WorkerDies(w)
  <2>1. RunOver
    BY <1>2 DEF EndRun, Cancel, Crash, WorkerDies
  <2> QED
    BY <2>1, RunOverCounts
<1>3. ASSUME NEW w \in Worker, WorkerStep(w)
      PROVE  Busy' = {} /\ NonePending(jobs)'
  <2>1. fetched' \in {fetched, fetched + 1} /\ fetched \in Nat
    BY <1>0, <1>3 DEF WorkerStep, Lease, Exit, Raise, Refuse, FetchFails, FetchPage,
                      PersistAxe, Finish, pageVars, TypeOK
  <2>2. ~PageLimitReached
    BY <2>1, ConfigAssumption DEF PageLimitReached
  <2>3. CASE Exit(w)
    <3>1. inFlight = 0 /\ NonePending(jobs)
      BY <2>2, <2>3 DEF Exit
    <3>2. Busy = {}
      BY <1>0, <3>1, FS_EmptySet DEF InFlightExact
    <3> QED
      BY <2>3, <3>1, <3>2 DEF Exit, queueVars, Busy, NonePending, Pending, InState
  <2>4. CASE ~Exit(w)
    <3>1. pc[w] # "exited"
      BY <1>3, <2>4 DEF WorkerStep, Lease, Raise, Refuse, FetchFails, FetchPage,
                        PersistAxe, Finish, At
    <3>2. \A v \in Worker : pc'[v] = "exited" => pc[v] = "exited"
      BY <1>0, <1>3, <2>4, <3>1
      DEF WorkerStep, Lease, Raise, Refuse, FetchFails, FetchPage, PersistAxe, Finish,
          LetGo, TypeOK
    <3>3. Busy = {} /\ NonePending(jobs)
      BY <2>2, <3>2 DEF QuietExit
    <3>4. held[w] = NoUrl
      BY <3>3 DEF Busy
    <3>5. pc[w] = "idle"
      BY <1>0, <3>1, <3>4 DEF Placed, Processing, TypeOK, WorkerPc
    <3>6. ~Lease(w)
      BY <3>3 DEF Lease, IsNextJob, NonePending
    <3> QED
      BY <1>3, <2>4, <3>5, <3>6
      DEF WorkerStep, Raise, Refuse, FetchFails, FetchPage, PersistAxe, Finish, At
  <2> QED
    BY <2>3, <2>4
<1>4. ASSUME NEW u \in Url, LeaseLapses(u)
      PROVE  Busy' = {} /\ NonePending(jobs)'
  <2>1. Busy = {} /\ NonePending(jobs)
    BY <1>4 DEF LeaseLapses, QuietExit, PageLimitReached, workerVars, pageVars
  <2>2. \A v \in Url : jobs'[v].state = jobs[v].state
    BY <1>0, <1>4, LapsedRow DEF LeaseLapses, TypeOK
  <2> QED
    BY <1>4, <2>1, <2>2
    DEF LeaseLapses, workerVars, Busy, NonePending, Pending, InState
<1>5. CASE UNCHANGED vars
  BY <1>5 DEF vars, queueVars, workerVars, pageVars, QuietExit, Busy, NonePending,
              Pending, InState, PageLimitReached
<1> QED
  BY <1>1, <1>2, <1>3, <1>4, <1>5 DEF Next

\* A worker leaves a drained crawl only when no peer can add to the queue any
\* more, however the waits of the workers interleave (_worker's exit test).
THEOREM QuietExitCorrect == Spec => []QuietExit
<1>1. Init => QuietExit
  BY DEF Init, QuietExit
<1> QED
  BY <1>1, QuietStep, CountedAlways, PTL DEF Spec

-----------------------------------------------------------------------------
\* A page is counted when its fetch ends, so the limit holds with the fetches
\* under way counted in.
Fetching == {w \in Worker : pc[w] = "fetching"}

PageSlots ==
  MaxPages # NoLimit
    => fetched + Cardinality(Fetching) <= MaxPages + Cardinality(Worker) - 1

\* The fetches under way can be counted, and are at most one for each worker.
LEMMA FetchingFinite ==
  /\ IsFiniteSet(Fetching) /\ Cardinality(Fetching) \in Nat
  /\ Cardinality(Fetching) <= Cardinality(Worker)
  /\ Cardinality(Worker) \in Nat /\ Cardinality(Worker) # 0
<1>1. /\ IsFiniteSet(Fetching) /\ Cardinality(Fetching) <= Cardinality(Worker)
      /\ IsFiniteSet(Worker) /\ Worker # {}
  BY ConfigAssumption, FS_Subset DEF Fetching
<1> QED
  BY <1>1, FS_CardinalityType, FS_EmptySet

\* A fetch under way holds one of the slots left before the limit: a lease takes
\* a slot only below the limit, a response turns a slot into a counted page.
LEMMA SlotsStep ==
  Counted /\ Counted' /\ PageSlots /\ [Next]_vars => PageSlots'
<1> SUFFICES ASSUME Counted, Counted', PageSlots, [Next]_vars, MaxPages # NoLimit
             PROVE  fetched' + Cardinality(Fetching')
                      <= MaxPages + Cardinality(Worker) - 1
  BY DEF PageSlots
<1>0. TypeOK /\ Placed /\ MaxPages \in Nat \ {0} /\ fetched \in Nat /\ fetched' \in Nat
  BY ConfigAssumption DEF Counted, TypeOK
<1>1. /\ IsFiniteSet(Fetching) /\ Cardinality(Fetching) \in Nat
      /\ Cardinality(Worker) \in Nat \ {0}
      /\ fetched + Cardinality(Fetching) <= MaxPages + Cardinality(Worker) - 1
  BY FetchingFinite DEF PageSlots
<1>2. ASSUME Fetching' \subseteq Fetching, fetched' = fetched
      PROVE  fetched' + Cardinality(Fetching') <= MaxPages + Cardinality(Worker) - 1
  <2>1. Cardinality(Fetching') <= Cardinality(Fetching) /\ Cardinality(Fetching') \in Nat
    BY <1>1, <1>2, FS_Subset, FS_CardinalityType
  <2> QED
    BY <1>0, <1>1, <1>2, <2>1
<1>3. CASE BeginRun
  <2>1. fetched' = 0 /\ Fetching' = {}
    BY <1>0, <1>3 DEF BeginRun, Placed, Fetching, workerVars
  <2>2. Cardinality(Fetching') = 0
    BY <2>1, FS_EmptySet
  <2> QED
    BY <1>0, <1>1, <2>1, <2>2
<1>4. ASSUME NEW w \in Worker, Lease(w)
      PROVE  fetched' + Cardinality(Fetching') <= MaxPages + Cardinality(Worker) - 1
  <2>1. fetched < MaxPages /\ fetched' = fetched
    BY <1>0, <1>4 DEF Lease, PageLimitReached, pageVars
  <2>2. /\ Cardinality(Fetching') \in Nat
        /\ Cardinality(Fetching') <= Cardinality(Worker)
    <3>1. IsFiniteSet(Fetching') /\ Cardinality(Fetching') <= Cardinality(Worker)
      BY ConfigAssumption, FS_Subset DEF Fetching
    <3> QED
      BY <3>1, FS_CardinalityType
  <2> QED
    BY <1>0, <1>1, <2>1, <2>2
<1>5. ASSUME NEW w \in Worker, FetchPage(w)
      PROVE  fetched' + Cardinality(Fetching') <= MaxPages + Cardinality(Worker) - 1
  <2>1. fetched' = fetched + 1 /\ w \in Fetching
    BY <1>5 DEF FetchPage, At, Fetching
  <2>2. Fetching' = Fetching \ {w}
    BY <1>0, <1>5 DEF FetchPage, LetGo, Fetching, TypeOK
  <2>3. Cardinality(Fetching') = Cardinality(Fetching) - 1
    BY <1>1, <2>1, <2>2, FS_RemoveElement
  <2> QED
    BY <1>0, <1>1, <2>1, <2>3
<1>6. ASSUME NEW w \in Worker,
             Exit(w) \/ Raise(w) \/ Refuse(w) \/ FetchFails(w) \/ PersistAxe(w) \/ Finish(w)
      PROVE  fetched' + Cardinality(Fetching') <= MaxPages + Cardinality(Worker) - 1
  <2>1. fetched' = fetched
    BY <1>6 DEF Exit, Raise, Refuse, FetchFails, PersistAxe, Finish, pageVars
  <2>2. Fetching' \subseteq Fetching
    BY <1>0, <1>6 DEF Exit, Raise, Refuse, FetchFails, PersistAxe, Finish, LetGo,
                      Fetching, TypeOK
  <2> QED
    BY <1>2, <2>1, <2>2
<1>7. CASE EndRun \/ Cancel \/ Crash \/ \E w \in Worker : WorkerDies(w)
  <2>1. RunOver /\ fetched' = fetched
    BY <1>7 DEF EndRun, Cancel, Crash, WorkerDies, pageVars
  <2>2. Fetching' = {}
    BY <2>1, RunOverCounts DEF Fetching
  <2> QED
    BY <1>2, <2>1, <2>2
<1>8. CASE \/ SetupFails \/ StartWorkers \/ SweepStale \/ UNCHANGED vars
           \/ \E u \in Url : LeaseLapses(u)
  <2>1. UNCHANGED <<pc, fetched>>
    BY <1>8 DEF SetupFails, StartWorkers, SweepStale, LeaseLapses, vars, workerVars,
                pageVars
  <2> QED
    BY <1>2, <2>1 DEF Fetching
<1> QED
  BY <1>3, <1>4, <1>5, <1>6, <1>7, <1>8 DEF Next, WorkerStep

\* A run fetches at most max_pages pages, and one for each other worker that
\* had its fetch under way when the limit was met (_page_limit_reached).
THEOREM PageBudgetCorrect == Spec => []PageBudget
<1>1. Init => PageSlots
  <2> SUFFICES ASSUME Init, MaxPages # NoLimit
               PROVE  fetched + Cardinality(Fetching) <= MaxPages + Cardinality(Worker) - 1
    BY DEF PageSlots
  <2>1. Fetching = {} /\ fetched = 0 /\ MaxPages \in Nat
    BY ConfigAssumption DEF Init, Fetching
  <2> QED
    BY <2>1, FetchingFinite, FS_EmptySet
<1>2. Counted /\ PageSlots => PageBudget
  BY FetchingFinite, ConfigAssumption DEF PageSlots, PageBudget, Counted, TypeOK
<1> QED
  BY <1>1, <1>2, SlotsStep, CountedAlways, PTL DEF Spec

-----------------------------------------------------------------------------
\* A job that waits has one attempt fewer than a job that was tried: what lets
\* the bound survive the lease that follows.
Tries ==
  \A u \in Url :
    /\ jobs[u].attempts <= MaxAttempts + (IF runs = 0 THEN 0 ELSE runs - 1)
    /\ jobs[u].state = "pending" => jobs[u].attempts + 2 <= MaxAttempts + runs
    /\ runs = 0 => jobs[u].state = "absent"

\* A lease that is running or pending has tries left, those of the runs that
\* ended under it included; a settled one has used at most as many.
LEMMA TriesStep ==
  Counted /\ Counted' /\ ExclusiveLease /\ Tries /\ [Next]_vars => Tries'
<1> SUFFICES ASSUME Counted, Counted', ExclusiveLease, Tries, [Next]_vars
             PROVE  Tries'
  OBVIOUS
<1>0. /\ Placed /\ jobs \in [Url -> Job] /\ runs \in Nat /\ runs' \in Nat
      /\ MaxAttempts \in Nat \ {0}
      /\ \A u \in Url : jobs[u].attempts \in Nat
  BY MaxAttemptsAssumption DEF Counted, TypeOK, Job
<1> DEFINE Old(u) == jobs'[u].state = jobs[u].state /\ jobs'[u].attempts = jobs[u].attempts
           Settles(u) == /\ jobs'[u].state \in {"completed", "failed"}
                         /\ jobs'[u].attempts = jobs[u].attempts
           Admitted(u) == jobs'[u].state = "pending" /\ jobs'[u].attempts = 0
           Returned(u) == /\ jobs'[u].state = "pending"
                          /\ jobs'[u].attempts = jobs[u].attempts
                          /\ jobs[u].attempts < MaxAttempts
<1>1. ASSUME UNCHANGED runs,
             \A u \in Url : \/ Old(u)
                            \/ runs # 0 /\ (Settles(u) \/ Admitted(u) \/ Returned(u))
      PROVE  Tries'
  BY <1>0, <1>1 DEF Tries
<1>2. CASE BeginRun
  <2>1. PICK sc \in Scopes : jobs' = StartingQueue(sc)
    BY <1>2 DEF BeginRun
  <2>2. runs' = runs + 1
    BY <1>2 DEF BeginRun
  <2>3. ASSUME NEW u \in Url
        PROVE  /\ jobs'[u].attempts <= MaxAttempts + runs
               /\ jobs'[u].state = "pending" => jobs'[u].attempts + 2 <= MaxAttempts + runs + 1
    <3>1. \/ jobs'[u] = jobs[u]
          \/ /\ jobs[u].state = "leased" /\ jobs'[u].state = "pending"
             /\ jobs'[u].attempts = jobs[u].attempts
          \/ jobs'[u].attempts = 0
      BY <1>0, <2>1, StartingRows DEF Counted, TypeOK
    <3>2. jobs[u].attempts <= MaxAttempts + (IF runs = 0 THEN 0 ELSE runs - 1)
          /\ (jobs[u].state = "pending" => jobs[u].attempts + 2 <= MaxAttempts + runs)
          /\ (runs = 0 => jobs[u].state = "absent")
      BY DEF Tries
    <3> QED
      BY <1>0, <3>1, <3>2
  <2> QED
    BY <1>0, <2>2, <2>3 DEF Tries
<1>3. ASSUME NEW w \in Worker, Lease(w)
      PROVE  Tries'
  <2>1. PICK u \in Url : IsNextJob(jobs, u) /\ jobs' = LeasedJob(jobs, u)
    BY <1>3 DEF Lease
  <2>2. runs' = runs /\ runs # 0
    BY <1>0, <1>3 DEF Lease, At, Placed, runVars
  <2>3. jobs[u].attempts + 2 <= MaxAttempts + runs
    BY <2>1 DEF IsNextJob, Pending, InState, Tries
  <2>4. /\ jobs'[u].state = "leased" /\ jobs'[u].attempts = jobs[u].attempts + 1
        /\ \A v \in Url \ {u} : jobs'[v] = jobs[v]
    BY <1>0, <2>1, LeasedRow
  <2>5. \A v \in Url :
          /\ jobs'[v].attempts <= MaxAttempts + (IF runs' = 0 THEN 0 ELSE runs' - 1)
          /\ jobs'[v].state = "pending" => jobs'[v].attempts + 2 <= MaxAttempts + runs'
    BY <1>0, <2>2, <2>3, <2>4 DEF Tries
  <2> QED
    BY <2>2, <2>5 DEF Tries
<1>4. ASSUME NEW w \in Worker, phase = "crawling", pc[w] \in Processing,
             jobs' = CompletedJob(jobs, held[w]) \/ jobs' = FailedJob(jobs, held[w]),
             UNCHANGED runs
      PROVE  Tries'
  <2>1. held[w] \in Url /\ runs # 0
    BY <1>0, <1>4 DEF Counted, TypeOK, Placed
  <2>2. \A u \in Url \ {held[w]} : Old(u)
    BY <1>0, <1>4, <2>1, CompletedRow, FailedRow
  <2>3. Settles(held[w]) \/ Returned(held[w])
    <3>1. CASE jobs' = CompletedJob(jobs, held[w])
      BY <1>0, <2>1, <3>1, CompletedRow
    <3>2. CASE jobs' = FailedJob(jobs, held[w])
      BY <1>0, <2>1, <3>2, FailedRow
    <3> QED
      BY <1>4, <3>1, <3>2
  <2> QED
    BY <1>1, <1>4, <2>1, <2>2, <2>3
<1>5. ASSUME NEW w \in Worker, Raise(w) \/ Refuse(w) \/ FetchFails(w) \/ FetchPage(w)
      PROVE  Tries'
  <2>1. phase = "crawling" /\ pc[w] \in Processing /\ UNCHANGED runs
    BY <1>5 DEF Raise, Refuse, FetchFails, FetchPage, At, Processing, runVars
  <2>2. \/ UNCHANGED jobs
        \/ jobs' = CompletedJob(jobs, held[w]) \/ jobs' = FailedJob(jobs, held[w])
    BY <1>5 DEF Raise, Refuse, FetchFails, FetchPage
  <2> QED
    BY <1>1, <1>4, <2>1, <2>2
<1>6. ASSUME NEW w \in Worker, Finish(w)
      PROVE  Tries'
  <2>1. phase = "crawling" /\ pc[w] \in Processing /\ UNCHANGED runs
    BY <1>6 DEF Finish, At, Processing, runVars
  <2>2. held[w] \in Url /\ w \in Busy /\ runs # 0
    BY <1>0, <2>1 DEF Counted, TypeOK, Placed, Busy
  <2>3. jobs[held[w]].state = "leased"
    BY <2>2 DEF ExclusiveLease
  <2>4. Settles(held[w]) /\ \A u \in Url \ {held[w]} : Old(u) \/ Admitted(u)
    BY <1>6, <2>3, FinishRows
  <2> QED
    BY <1>1, <2>1, <2>2, <2>4
<1>7. CASE Crash
  <2>1. UNCHANGED runs
    BY <1>7 DEF Crash
  <2>2. CASE UNCHANGED jobs
    BY <1>1, <2>1, <2>2
  <2>3. ASSUME NEW w \in Worker, HalfDone(w)
        PROVE  Tries'
    <3>1. phase = "crawling" /\ runs # 0
      BY <1>0, <2>3 DEF HalfDone, At, Placed
    <3>2. \A u \in Url : Old(u) \/ Admitted(u)
      BY <2>3, <3>1, HalfDoneRows
    <3> QED
      BY <1>1, <2>1, <3>1, <3>2
  <2> QED
    BY <1>7, <2>2, <2>3 DEF Crash, queueVars
<1>8. CASE \/ SetupFails \/ StartWorkers \/ SweepStale \/ EndRun \/ Cancel
           \/ \E w \in Worker : Exit(w) \/ PersistAxe(w) \/ WorkerDies(w)
           \/ UNCHANGED vars
  <2>1. UNCHANGED <<jobs, runs>>
    BY <1>8 DEF SetupFails, StartWorkers, SweepStale, EndRun, Cancel, Exit, PersistAxe,
                WorkerDies, vars, queueVars, runVars
  <2> QED
    BY <1>1, <2>1
<1>9. ASSUME NEW u \in Url, LeaseLapses(u)
      PROVE  Tries'
  <2>1. UNCHANGED runs /\ \A v \in Url : Old(v)
    BY <1>0, <1>9, LapsedRow DEF LeaseLapses, runVars
  <2> QED
    BY <1>1, <2>1
<1> QED
  BY <1>2, <1>3, <1>5, <1>6, <1>7, <1>8, <1>9 DEF Next, WorkerStep

\* No page is handed out without end: a job is leased at most MaxAttempts times
\* and once more for each run that ended under it (queue.fail's max_attempts).
THEOREM AttemptBudgetCorrect == Spec => []AttemptBudget
<1>1. Init => Tries
  BY MaxAttemptsAssumption DEF Init, NoJobs, NoRow, Tries
<1>2. Tries => AttemptBudget
  BY DEF Tries, AttemptBudget
<1> QED
  BY <1>1, <1>2, TriesStep, ExclusiveLeaseCorrect, CountedAlways, PTL DEF Spec

\* Neither the pages nor the tries of a scan run over their limits
\* (_page_limit_reached, queue.fail).
THEOREM BudgetsCorrect == Spec => []Budgets
<1> QED
  BY PageBudgetCorrect, AttemptBudgetCorrect, PTL DEF Budgets

-----------------------------------------------------------------------------
\* A job that has got past its fetch has its page's row.
Recorded ==
  \A w \in Worker : pc[w] \in {"imaging", "checking"} => pageRow[held[w]] # "none"

Excused(u) == u \in Blocked \cup Disallowed \/ \E sc \in Scopes : u \notin sc

\* Past the fetch a page has its row, and a job completes only past the fetch or
\* because the page may not be visited.
LEMMA RecordedStep ==
  Counted /\ Counted' /\ Recorded /\ NoSilentPage /\ [Next]_vars
    => Recorded' /\ NoSilentPage'
<1> SUFFICES ASSUME Counted, Counted', Recorded, NoSilentPage, [Next]_vars
             PROVE  Recorded' /\ NoSilentPage'
  OBVIOUS
<1>0. /\ Placed /\ jobs \in [Url -> Job] /\ lastRow \in Nat
      /\ pc \in [Worker -> WorkerPc] /\ held \in [Worker -> Url \cup {NoUrl}]
      /\ pageRow \in [Url -> {"none", "unfetched", "fetched"}]
      /\ \A w \in Worker : pc[w] \in Processing => held[w] \in Url
      /\ \A u \in Url : jobs[u].state = "completed" /\ pageRow[u] = "none" => Excused(u)
  BY DEF Counted, TypeOK, Placed, NoSilentPage, Excused
<1> DEFINE RowsKept == \A u \in Url : pageRow[u] # "none" => pageRow'[u] # "none"
           Completes(u) == jobs'[u].state = "completed" /\ jobs[u].state # "completed"
<1>1. ASSUME RowsKept,
             \A u \in Url : Completes(u) => Excused(u) \/ pageRow'[u] # "none"
      PROVE  NoSilentPage'
  BY <1>0, <1>1 DEF NoSilentPage, Excused
<1>2. ASSUME RowsKept,
             \A w \in Worker : pc'[w] \in {"imaging", "checking"}
                => pc[w] \in {"imaging", "checking"} /\ held'[w] = held[w]
      PROVE  Recorded'
  BY <1>0, <1>2 DEF Recorded, Processing
<1>3. CASE BeginRun
  <2>1. PICK sc \in Scopes : jobs' = StartingQueue(sc)
    BY <1>3 DEF BeginRun
  <2>2. \A u \in Url : ~Completes(u)
    BY <1>0, <2>1, StartingRows
  <2>3. UNCHANGED <<pc, held, pageRow>>
    BY <1>3 DEF BeginRun, workerVars
  <2> QED
    BY <1>1, <1>2, <2>2, <2>3
<1>4. ASSUME NEW w \in Worker, Lease(w)
      PROVE  Recorded' /\ NoSilentPage'
  <2>1. PICK u \in Url : jobs' = LeasedJob(jobs, u) /\ held' = [held EXCEPT ![w] = u]
    BY <1>4 DEF Lease
  <2>2. \A v \in Url : ~Completes(v)
    <3>1. jobs'[u].state = "leased" /\ \A v \in Url \ {u} : jobs'[v] = jobs[v]
      BY <1>0, <2>1, LeasedRow
    <3> QED
      BY <3>1
  <2>3. pageRow' = pageRow /\ pc' = [pc EXCEPT ![w] = "fetching"]
    BY <1>4 DEF Lease, pageVars
  <2>4. \A v \in Worker : pc'[v] \in {"imaging", "checking"}
           => pc[v] \in {"imaging", "checking"} /\ held'[v] = held[v]
    BY <1>0, <2>1, <2>3
  <2> QED
    BY <1>1, <1>2, <2>2, <2>3, <2>4
<1>5. ASSUME NEW w \in Worker, phase = "crawling", pc[w] \in Processing, LetGo(w),
             RowsKept, \A u \in Url \ {held[w]} : ~Completes(u),
             Completes(held[w]) => Excused(held[w]) \/ pageRow'[held[w]] # "none"
      PROVE  Recorded' /\ NoSilentPage'
  <2>1. \A v \in Worker : pc'[v] \in {"imaging", "checking"}
           => pc[v] \in {"imaging", "checking"} /\ held'[v] = held[v]
    BY <1>5, LetGoCounts
  <2>2. \A u \in Url : Completes(u) => Excused(u) \/ pageRow'[u] # "none"
    BY <1>5
  <2> QED
    BY <1>1, <1>2, <1>5, <2>1, <2>2
<1>6. ASSUME NEW w \in Worker, Raise(w)
      PROVE  Recorded' /\ NoSilentPage'
  <2>1. /\ phase = "crawling" /\ pc[w] \in Processing /\ LetGo(w) /\ pageRow' = pageRow
        /\ jobs' = FailedJob(jobs, held[w]) /\ held[w] \in Url
    BY <1>0, <1>6 DEF Raise, Processing, pageVars
  <2>2. \A u \in Url : ~Completes(u)
    BY <1>0, <2>1, FailedRow
  <2> QED
    BY <1>5, <2>1, <2>2
<1>7. ASSUME NEW w \in Worker, Refuse(w)
      PROVE  Recorded' /\ NoSilentPage'
  <2>1. /\ phase = "crawling" /\ pc[w] \in Processing /\ LetGo(w) /\ pageRow' = pageRow
        /\ jobs' = CompletedJob(jobs, held[w]) /\ held[w] \in Url
    BY <1>0, <1>7 DEF Refuse, At, Processing, pageVars
  <2>2. Excused(held[w])
    BY <1>0, <1>7, <2>1 DEF Refuse, Refused, Placed, Excused
  <2>3. \A u \in Url \ {held[w]} : ~Completes(u)
    BY <1>0, <2>1, CompletedRow
  <2> QED
    BY <1>5, <2>1, <2>2, <2>3
<1>8. ASSUME NEW w \in Worker, FetchFails(w)
      PROVE  Recorded' /\ NoSilentPage'
  <2>1. /\ phase = "crawling" /\ pc[w] \in Processing /\ LetGo(w)
        /\ pageRow' = [pageRow EXCEPT ![held[w]] = "unfetched"]
        /\ jobs' = CompletedJob(jobs, held[w]) /\ held[w] \in Url
    BY <1>0, <1>8 DEF FetchFails, At, Processing
  <2>2. RowsKept /\ pageRow'[held[w]] # "none"
    BY <1>0, <2>1
  <2>3. \A u \in Url \ {held[w]} : ~Completes(u)
    BY <1>0, <2>1, CompletedRow
  <2> QED
    BY <1>5, <2>1, <2>2, <2>3
<1>9. ASSUME NEW w \in Worker, FetchPage(w)
      PROVE  Recorded' /\ NoSilentPage'
  <2>1. /\ phase = "crawling" /\ pc[w] \in Processing /\ held[w] \in Url
        /\ pageRow' = [pageRow EXCEPT ![held[w]] = "fetched"]
    BY <1>0, <1>9 DEF FetchPage, At, Processing
  <2>2. RowsKept /\ pageRow'[held[w]] # "none"
    BY <1>0, <2>1
  <2>3. CASE pc' = [pc EXCEPT ![w] = "imaging"] /\ UNCHANGED <<jobs, held, inFlight>>
    <3>1. NoSilentPage'
      BY <1>1, <2>2, <2>3
    <3>2. Recorded'
      BY <1>0, <2>2, <2>3 DEF Recorded, Processing
    <3> QED
      BY <3>1, <3>2
  <2>4. CASE jobs' = CompletedJob(jobs, held[w]) /\ LetGo(w)
    <3>1. \A u \in Url \ {held[w]} : ~Completes(u)
      BY <1>0, <2>1, <2>4, CompletedRow
    <3> QED
      BY <1>5, <2>1, <2>2, <2>4, <3>1
  <2> QED
    BY <1>9, <2>3, <2>4 DEF FetchPage
<1>10. ASSUME NEW w \in Worker, PersistAxe(w)
       PROVE  Recorded' /\ NoSilentPage'
  <2>1. pc[w] = "imaging" /\ pc' = [pc EXCEPT ![w] = "checking"]
        /\ UNCHANGED <<jobs, held, pageRow>>
    BY <1>10 DEF PersistAxe, At, queueVars
  <2>2. \A v \in Worker : pc'[v] \in {"imaging", "checking"}
           => pc[v] \in {"imaging", "checking"}
    BY <1>0, <2>1
  <2> QED
    BY <1>1, <1>2, <2>1, <2>2
<1>11. ASSUME NEW w \in Worker, Finish(w)
       PROVE  Recorded' /\ NoSilentPage'
  <2>1. /\ phase = "crawling" /\ pc[w] = "checking" /\ LetGo(w) /\ pageRow' = pageRow
        /\ held[w] \in Url
    BY <1>0, <1>11 DEF Finish, At, Processing, pageVars
  <2>2. pageRow[held[w]] # "none"
    BY <2>1 DEF Recorded
  <2>3. \A u \in Url \ {held[w]} : ~Completes(u)
    BY <1>11, FinishRows
  <2> QED
    BY <1>5, <2>1, <2>2, <2>3 DEF Processing
<1>12. CASE EndRun \/ Cancel \/ Crash \/ \E w \in Worker : WorkerDies(w)
  <2>1. RunOver
    BY <1>12 DEF EndRun, Cancel, Crash, WorkerDies
  <2>2. RowsKept /\ \A u \in Url : ~Completes(u)
    <3>1. CASE UNCHANGED <<queueVars, pageRow>>
      BY <3>1 DEF queueVars
    <3>2. ASSUME NEW w \in Worker, HalfDone(w)
          PROVE  RowsKept /\ \A u \in Url : ~Completes(u)
      <4>1. phase = "crawling"
        BY <3>2 DEF HalfDone, At
      <4> QED
        BY <3>2, <4>1, HalfDoneRows
    <3> QED
      BY <1>12, <3>1, <3>2 DEF EndRun, Cancel, Crash, WorkerDies, pageVars
  <2>3. \A w \in Worker : pc'[w] = "idle"
    BY <2>1, RunOverCounts
  <2> QED
    BY <1>1, <1>2, <2>2, <2>3
<1>13. CASE \/ SetupFails \/ StartWorkers \/ SweepStale \/ UNCHANGED vars
            \/ \E w \in Worker : Exit(w)
  <2>1. UNCHANGED <<jobs, held, pageRow>>
    BY <1>13 DEF SetupFails, StartWorkers, SweepStale, Exit, vars, queueVars, workerVars,
                 pageVars
  <2>2. \A v \in Worker : pc'[v] \in {"imaging", "checking"}
           => pc[v] \in {"imaging", "checking"}
    BY <1>0, <1>13 DEF SetupFails, StartWorkers, SweepStale, Exit, vars, workerVars
  <2> QED
    BY <1>1, <1>2, <2>1, <2>2
<1>14. ASSUME NEW u \in Url, LeaseLapses(u)
       PROVE  Recorded' /\ NoSilentPage'
  <2>1. UNCHANGED <<pc, held, pageRow>> /\ \A v \in Url : ~Completes(v)
    BY <1>0, <1>14, LapsedRow DEF LeaseLapses, workerVars, pageVars
  <2> QED
    BY <1>1, <1>2, <2>1
<1> QED
  BY <1>3, <1>4, <1>6, <1>7, <1>8, <1>9, <1>10, <1>11, <1>12, <1>13, <1>14
  DEF Next, WorkerStep

\* Every completed job left a page row, unless scope, the block list or
\* robots.txt kept its page from being visited (_process_job, _record_page).
THEOREM NoSilentPageCorrect == Spec => []NoSilentPage
<1>1. Init => Recorded /\ NoSilentPage
  BY DEF Init, NoJobs, NoRow, Recorded, NoSilentPage
<1> QED
  BY <1>1, RecordedStep, CountedAlways, PTL DEF Spec

-----------------------------------------------------------------------------
\* Every step of a crawl is a step of the ledger, or leaves it alone.
LEMMA LedgerStep ==
  Counted /\ Counted' /\ ExclusiveLease /\ [Next]_vars
    => [Ledger!Next]_(Ledger!ledger)
<1> SUFFICES ASSUME Counted, Counted', ExclusiveLease, [Next]_vars
             PROVE  [Ledger!Next]_(Ledger!ledger)
  OBVIOUS
<1>0. /\ Placed /\ jobs \in [Url -> Job] /\ lastRow \in Nat
      /\ \A w \in Worker : pc[w] \in Processing => held[w] \in Url /\ w \in Busy
      /\ \A w \in Busy : jobs[held[w]].state = "leased"
      /\ jobs' \in [Url -> Job]
  BY DEF Counted, TypeOK, Placed, Busy, ExclusiveLease
<1> DEFINE st(u) == jobs[u].state
           st1(u) == jobs'[u].state
           Sets == /\ Pending(jobs) = {u \in Url : st(u) = "pending"}
                   /\ Leased(jobs) = {u \in Url : st(u) = "leased"}
                   /\ Settled = {u \in Url : st(u) \in {"completed", "failed"}}
                   /\ Pending(jobs)' = {u \in Url : st1(u) = "pending"}
                   /\ Leased(jobs)' = {u \in Url : st1(u) = "leased"}
                   /\ Settled' = {u \in Url : st1(u) \in {"completed", "failed"}}
<1>s. Sets
  BY DEF Pending, Leased, Settled, InState
<1>j. \A u \in Url : st(u) \in JobState /\ st1(u) \in JobState
  BY <1>0 DEF Job
<1>1. ASSUME \A u \in Url : st1(u) = st(u)
      PROVE  [Ledger!Next]_(Ledger!ledger)
  BY <1>s, <1>1 DEF Ledger!ledger
<1>2. ASSUME \A u \in Url : st1(u) = st(u) \/ (st(u) = "absent" /\ st1(u) = "pending")
      PROVE  Ledger!Next
  <2> DEFINE S == {u \in Url : st(u) = "absent" /\ st1(u) = "pending"}
  <2>1. Ledger!Admit(S)
    BY <1>s, <1>2 DEF Ledger!Admit, Ledger!Known
  <2> QED
    BY <2>1 DEF Ledger!Next
<1>3. ASSUME NEW u \in Url, st(u) = "leased", st1(u) \in {"completed", "failed"},
             \A v \in Url \ {u} : st1(v) = st(v) \/ (st(v) = "absent" /\ st1(v) = "pending")
      PROVE  Ledger!Next
  <2> DEFINE S == {v \in Url : st(v) = "absent" /\ st1(v) = "pending"}
  <2>1. Ledger!Settle(u, S)
    BY <1>s, <1>3 DEF Ledger!Settle, Ledger!Known
  <2> QED
    BY <2>1 DEF Ledger!Next
<1>4. ASSUME NEW u \in Url, st(u) = "leased", st1(u) = "pending",
             \A v \in Url \ {u} : st1(v) = st(v)
      PROVE  Ledger!Next
  <2>1. Ledger!PutBack(u)
    BY <1>s, <1>4 DEF Ledger!PutBack
  <2> QED
    BY <2>1 DEF Ledger!Next
<1>5. CASE BeginRun
  <2>1. PICK sc \in Scopes : jobs' = StartingQueue(sc)
    BY <1>5 DEF BeginRun
  <2>2. \A u \in Url :
          \/ st1(u) = st(u)
          \/ st(u) = "leased" /\ st1(u) = "pending"
          \/ st(u) \in {"absent", "pending", "leased"} /\ st1(u) \in {"absent", "pending"}
    BY <1>0, <2>1, StartingRows
  <2> DEFINE R == {u \in Url : st(u) = "leased" /\ st1(u) # "leased"}
             D == {u \in Url : st(u) \in {"pending", "leased"} /\ st1(u) = "absent"}
             A == {u \in Url : st(u) = "absent" /\ st1(u) = "pending"}
  <2>3. Ledger!Begin(R, D, A)
    <3>1. R \subseteq Leased(jobs) /\ D \subseteq Pending(jobs) \cup R
          /\ A \cap ((Pending(jobs) \cup Leased(jobs) \cup Settled) \ D) = {}
      BY <1>s
    <3>2. Leased(jobs)' = Leased(jobs) \ R
      BY <1>s, <2>2
    <3>3. Settled' = Settled
      BY <1>s, <1>j, <2>2
    <3>4. Pending(jobs)' = ((Pending(jobs) \cup R) \ D) \cup A
      BY <1>s, <1>j, <2>2 DEF JobState
    <3> QED
      BY <3>1, <3>2, <3>3, <3>4 DEF Ledger!Begin, Ledger!Known
  <2>4. R \in SUBSET Url /\ D \in SUBSET Url /\ A \in SUBSET Url
    OBVIOUS
  <2> QED
    BY <2>3, <2>4 DEF Ledger!Next
<1>6. ASSUME NEW w \in Worker, Lease(w)
      PROVE  Ledger!Next
  <2>1. PICK u \in Url : IsNextJob(jobs, u) /\ jobs' = LeasedJob(jobs, u)
    BY <1>6 DEF Lease
  <2>2. st(u) = "pending" /\ st1(u) = "leased" /\ \A v \in Url \ {u} : st1(v) = st(v)
    BY <1>0, <1>s, <2>1, LeasedRow DEF IsNextJob
  <2>3. Ledger!Take(u)
    BY <1>s, <2>2 DEF Ledger!Take
  <2> QED
    BY <2>3 DEF Ledger!Next
<1>7. ASSUME NEW w \in Worker, Raise(w)
      PROVE  Ledger!Next
  <2>1. jobs' = FailedJob(jobs, held[w]) /\ held[w] \in Url /\ st(held[w]) = "leased"
    BY <1>0, <1>7 DEF Raise, Processing
  <2>2. /\ st1(held[w]) \in {"pending", "failed"}
        /\ \A v \in Url \ {held[w]} : st1(v) = st(v)
    BY <1>0, <2>1, FailedRow
  <2> QED
    BY <1>3, <1>4, <2>1, <2>2
<1>8. ASSUME NEW w \in Worker, pc[w] \in Processing, jobs' = CompletedJob(jobs, held[w])
      PROVE  Ledger!Next
  <2>1. held[w] \in Url /\ st(held[w]) = "leased"
    BY <1>0, <1>8
  <2>2. st1(held[w]) = "completed" /\ \A v \in Url \ {held[w]} : st1(v) = st(v)
    BY <1>0, <1>8, <2>1, CompletedRow
  <2> QED
    BY <1>3, <2>1, <2>2
<1>9. ASSUME NEW w \in Worker, Refuse(w) \/ FetchFails(w) \/ FetchPage(w)
      PROVE  [Ledger!Next]_(Ledger!ledger)
  <2>1. pc[w] \in Processing /\ (UNCHANGED jobs \/ jobs' = CompletedJob(jobs, held[w]))
    BY <1>9 DEF Refuse, FetchFails, FetchPage, At, Processing
  <2> QED
    BY <1>1, <1>8, <2>1
<1>10. ASSUME NEW w \in Worker, Finish(w)
       PROVE  Ledger!Next
  <2>1. held[w] \in Url /\ st(held[w]) = "leased"
    BY <1>0, <1>10 DEF Finish, At, Processing
  <2>2. /\ st1(held[w]) = "completed"
        /\ \A v \in Url \ {held[w]} :
             st1(v) = st(v) \/ (st(v) = "absent" /\ st1(v) = "pending")
    BY <1>10, FinishRows
  <2> QED
    BY <1>3, <2>1, <2>2
<1>11. ASSUME NEW w \in Worker, HalfDone(w)
       PROVE  Ledger!Next
  <2>1. phase = "crawling"
    BY <1>11 DEF HalfDone, At
  <2>2. \A u \in Url : st1(u) = st(u) \/ (st(u) = "absent" /\ st1(u) = "pending")
    BY <1>11, <2>1, HalfDoneRows
  <2> QED
    BY <1>2, <2>2
<1>12. ASSUME NEW u \in Url, LeaseLapses(u)
       PROVE  [Ledger!Next]_(Ledger!ledger)
  <2>1. \A v \in Url : st1(v) = st(v)
    BY <1>0, <1>12, LapsedRow DEF LeaseLapses
  <2> QED
    BY <1>1, <2>1
<1>13. CASE UNCHANGED jobs
  BY <1>1, <1>13
<1>14. ASSUME \/ SetupFails \/ StartWorkers \/ SweepStale \/ EndRun \/ Cancel
              \/ \E w \in Worker : Exit(w) \/ PersistAxe(w) \/ WorkerDies(w)
              \/ UNCHANGED vars
       PROVE  UNCHANGED jobs
  BY <1>14 DEF SetupFails, StartWorkers, SweepStale, EndRun, Cancel, Exit, PersistAxe,
               WorkerDies, vars, queueVars
<1>15. CASE Crash
  <2>1. UNCHANGED jobs \/ \E w \in Worker : HalfDone(w)
    BY <1>15 DEF Crash, queueVars
  <2> QED
    BY <1>11, <1>13, <2>1
<1> QED
  BY <1>5, <1>6, <1>7, <1>9, <1>10, <1>12, <1>13, <1>14, <1>15 DEF Next, WorkerStep

\* The queue implements the ledger: a URL is admitted once, settled at most
\* once, only while it is being worked on, and then for good.
THEOREM LedgerCorrect == Spec => KeepsLedger
<1>1. Init => Ledger!Init
  BY DEF Init, NoJobs, NoRow, Ledger!Init, Pending, Leased, Settled, InState
<1> QED
  BY <1>1, LedgerStep, CountedAlways, ExclusiveLeaseCorrect, PTL
  DEF Spec, KeepsLedger, Ledger!Spec

-----------------------------------------------------------------------------
(* What a scan that ends leaves *)

\* In the first run of a scan a lease is always somebody's.
Attended ==
  /\ runs = 0 => scanStatus = "none" /\ \A u \in Url : jobs[u].state # "leased"
  /\ phase = "setup" => \A u \in Url : jobs[u].state # "leased"
  /\ phase = "crawling" => \A u \in Url : jobs[u].state = "leased" => \E w \in Worker : held[w] = u
  /\ scanStatus = "completed" => phase = "down"

LEMMA AttendedStep ==
  ASSUME MaxRuns = 1, ~DbErrors
  PROVE  Counted /\ Counted' /\ Attended /\ [Next]_vars => Attended'
<1> SUFFICES ASSUME Counted, Counted', Attended, [Next]_vars  PROVE Attended'
  OBVIOUS
<1>0. /\ TypeOK /\ Placed /\ TypeOK' /\ Placed'
  BY DEF Counted
<1>1. CASE BeginRun
  <2>1. /\ runs = 0 /\ runs' # 0 /\ phase' = "setup" /\ scanStatus' = "running"
        /\ \E sc \in Scopes : jobs' = StartingQueue(sc)
    BY <1>0, <1>1 DEF BeginRun, TypeOK
  <2>2. \A u \in Url : jobs[u].state # "leased"
    BY <2>1 DEF Attended
  <2>3. \A u \in Url : jobs'[u].state # "leased"
    BY <1>0, <2>1, <2>2, StartingRows DEF TypeOK
  <2> QED
    BY <2>1, <2>3 DEF Attended
<1>2. CASE SetupFails \/ StartWorkers \/ SweepStale
  <2>1. runs # 0
    BY <1>0, <1>2 DEF SetupFails, StartWorkers, SweepStale, Placed, Attended
  <2> QED
    BY <1>0, <1>2, <2>1 DEF SetupFails, StartWorkers, SweepStale, queueVars, Attended
<1>3. ASSUME NEW w \in Worker, phase = "crawling", phase' = "crawling", runs' = runs, scanStatus' = scanStatus,
             \A v \in Worker \ {w} : held'[v] = held[v],
             \A u \in Url : jobs'[u].state = "leased" => (jobs[u].state = "leased" /\ held[w] # u) \/ held'[w] = u
      PROVE  Attended'
  <2>1. runs # 0
    BY <1>0, <1>3 DEF Placed
  <2> QED
    BY <1>3, <2>1 DEF Attended
<1>4. ASSUME NEW w \in Worker, phase = "crawling", pc[w] \in Processing, LetGo(w),
             phase' = "crawling", runs' = runs, scanStatus' = scanStatus,
             jobs'[held[w]].state # "leased",
             \A u \in Url \ {held[w]} : jobs'[u].state = "leased" => jobs[u].state = "leased"
      PROVE  Attended'
  <2>1. \A v \in Worker \ {w} : held'[v] = held[v]
    BY <1>4, LetGoCounts
  <2> QED
    BY <1>3, <1>4, <2>1
<1>5. ASSUME NEW w \in Worker, Lease(w)
      PROVE  Attended'
  <2>1. PICK u \in Url : /\ IsNextJob(jobs, u) /\ jobs' = LeasedJob(jobs, u)
                         /\ held' = [held EXCEPT ![w] = u]
    BY <1>5 DEF Lease
  <2>2. \A x \in Url \ {u} : jobs'[x] = jobs[x]
    BY <1>0, <2>1, LeasedRow DEF TypeOK
  <2>3. /\ held'[w] = u /\ \A v \in Worker \ {w} : held'[v] = held[v]
        /\ held[w] = NoUrl /\ NoUrl \notin Url
    BY <1>0, <1>5, <2>1, SiteAssumption DEF TypeOK, Lease, At, Placed, Processing
  <2>4. phase = "crawling" /\ phase' = "crawling" /\ runs' = runs /\ scanStatus' = scanStatus
    BY <1>5 DEF Lease, At, runVars
  <2> QED
    BY <1>3, <2>2, <2>3, <2>4
<1>6. ASSUME NEW w \in Worker, Exit(w) \/ PersistAxe(w)
      PROVE  Attended'
  BY <1>0, <1>6 DEF Exit, PersistAxe, At, queueVars, runVars, Attended, Placed
<1>7. ASSUME NEW w \in Worker, Raise(w) \/ Refuse(w) \/ FetchFails(w)
      PROVE  Attended'
  <2>1. /\ phase = "crawling" /\ pc[w] \in Processing /\ LetGo(w)
        /\ phase' = "crawling" /\ runs' = runs /\ scanStatus' = scanStatus
        /\ jobs' = FailedJob(jobs, held[w]) \/ jobs' = CompletedJob(jobs, held[w])
    BY <1>7 DEF Raise, Refuse, FetchFails, At, Processing, runVars
  <2>2. /\ held[w] \in Url /\ jobs'[held[w]].state # "leased"
        /\ \A u \in Url \ {held[w]} : jobs'[u] = jobs[u]
    <3>1. held[w] \in Url /\ jobs \in [Url -> Job]
      BY <1>0, <2>1, LetGoCounts DEF TypeOK
    <3>2. CASE jobs' = FailedJob(jobs, held[w])
      BY <3>1, <3>2, FailedRow
    <3>3. CASE jobs' = CompletedJob(jobs, held[w])
      BY <3>1, <3>3, CompletedRow
    <3> QED
      BY <2>1, <3>2, <3>3
  <2> QED
    BY <1>4, <2>1, <2>2
<1>8. ASSUME NEW w \in Worker, FetchPage(w)
      PROVE  Attended'
  <2>1. phase = "crawling" /\ phase' = "crawling" /\ runs' = runs /\ scanStatus' = scanStatus
        /\ pc[w] \in Processing
    BY <1>8 DEF FetchPage, At, Processing, runVars
  <2>2. CASE UNCHANGED <<jobs, held>>
    BY <1>0, <2>1, <2>2 DEF Attended, Placed
  <2>3. CASE jobs' = CompletedJob(jobs, held[w]) /\ LetGo(w)
    <3>1. /\ held[w] \in Url /\ jobs'[held[w]].state # "leased"
          /\ \A u \in Url \ {held[w]} : jobs'[u] = jobs[u]
      BY <1>0, <2>1, <2>3, LetGoCounts, CompletedRow DEF TypeOK
    <3> QED
      BY <1>4, <2>1, <2>3, <3>1
  <2> QED
    BY <1>8, <2>2, <2>3 DEF FetchPage
<1>9. ASSUME NEW w \in Worker, Finish(w)
      PROVE  Attended'
  <2>1. phase = "crawling" /\ pc[w] \in Processing /\ LetGo(w)
        /\ phase' = "crawling" /\ runs' = runs /\ scanStatus' = scanStatus
    BY <1>9 DEF Finish, At, Processing, runVars
  <2>2. /\ jobs'[held[w]].state # "leased"
        /\ \A u \in Url \ {held[w]} : jobs'[u].state = "leased" => jobs[u].state = "leased"
    BY <1>9, FinishRows
  <2> QED
    BY <1>4, <2>1, <2>2
<1>10. CASE EndRun \/ Cancel \/ Crash
  <2>1. phase # "down" /\ phase' = "down" /\ runs' = runs
    BY <1>10 DEF EndRun, Cancel, Crash, RunOver
  <2> QED
    BY <1>0, <2>1 DEF Attended, Placed
<1>11. ASSUME NEW u \in Url, LeaseLapses(u)
       PROVE  Attended'
  <2>1. \A v \in Url : jobs'[v].state = jobs[v].state
    BY <1>0, <1>11, LapsedRow DEF LeaseLapses, TypeOK
  <2> QED
    BY <1>11, <2>1 DEF LeaseLapses, workerVars, runVars, Attended
<1>12. CASE UNCHANGED vars
  BY <1>12 DEF vars, queueVars, runVars, workerVars, Attended
<1>13. ASSUME NEW w \in Worker, WorkerDies(w)
       PROVE  FALSE
  BY <1>13 DEF WorkerDies
<1> QED
  BY <1>1, <1>2, <1>5, <1>6, <1>7, <1>8, <1>9, <1>10, <1>11, <1>12, <1>13 DEF Next, WorkerStep

\* A run that ends by itself leaves neither a page that waits nor a lease.
LEMMA DrainedStep ==
  ASSUME MaxRuns = 1, ~DbErrors
  PROVE  Counted /\ Attended /\ QuietExit /\ Drained /\ [Next]_vars => Drained'
<1> SUFFICES ASSUME Counted, Attended, QuietExit, Drained, [Next]_vars,
                    scanStatus' = "completed", ~PageLimitReached'
             PROVE  \A u \in Url : jobs'[u].state \notin {"pending", "leased"}
  BY DEF Drained, InState
<1>0. TypeOK /\ Placed
  BY DEF Counted
<1>1. CASE EndRun
  <2>1. (\A w \in Worker : pc[w] = "exited") /\ jobs' = jobs /\ phase = "crawling" /\ ~PageLimitReached
    BY <1>1 DEF EndRun, queueVars, pageVars, PageLimitReached
  <2>2. Busy = {} /\ NonePending(jobs)
    BY <2>1, ConfigAssumption DEF QuietExit
  <2>3. ASSUME NEW u \in Url, jobs[u].state = "leased"
        PROVE  FALSE
    <3>1. PICK w \in Worker : held[w] = u
      BY <2>1, <2>3 DEF Attended
    <3> QED
      BY <2>2, <3>1, SiteAssumption DEF Busy
  <2> QED
    BY <2>1, <2>2, <2>3 DEF NonePending, Pending, InState
<1>2. CASE ~EndRun
  <2>1. scanStatus = "completed" /\ phase = "down"
    BY <1>2 DEF Next, BeginRun, SetupFails, StartWorkers, WorkerStep, WorkerDies, Lease, Exit, Raise, Refuse,
       FetchFails, FetchPage, PersistAxe, Finish, Cancel, Crash, SweepStale, LeaseLapses, runVars, vars, Attended
  <2>2. \A u \in Url : jobs'[u].state = jobs[u].state
    <3>1. CASE \E u \in Url : LeaseLapses(u)
      BY <1>0, <3>1, LapsedRow DEF LeaseLapses, TypeOK
    <3>2. CASE UNCHANGED jobs
      BY <3>2
    <3> QED
      BY <1>2, <2>1, <3>1, <3>2 DEF Next, BeginRun, Adoptable, SetupFails, StartWorkers, WorkerStep, WorkerDies,
         Lease, Exit, Raise, Refuse, FetchFails, FetchPage, PersistAxe, Finish, At, Cancel, Crash, SweepStale,
         runVars, queueVars, vars
  <2>3. ~PageLimitReached
    BY <1>2, <2>1 DEF Next, BeginRun, Adoptable, SetupFails, StartWorkers, WorkerStep, WorkerDies,
       Lease, Exit, Raise, Refuse, FetchFails, FetchPage, PersistAxe, Finish, At, Cancel, Crash, SweepStale,
       LeaseLapses, runVars, pageVars, vars, PageLimitReached
  <2> QED
    BY <2>1, <2>2, <2>3 DEF Drained, InState
<1> QED
  BY <1>1, <1>2

\* A scan whose only run ended by itself visited every page it knew of: with no
\* restart and no statement of the queue that fails, nothing waits and nothing
\* is leased when it says completed (_worker_loop, _finalize_scan).
THEOREM DrainedCorrect == ASSUME MaxRuns = 1, ~DbErrors  PROVE Spec => []Drained
<1>1. Init => Attended /\ Drained
  BY DEF Init, Attended, Drained, NoJobs, NoRow
<1>2. Counted /\ Counted' /\ Attended /\ QuietExit /\ Drained /\ [Next]_vars => Attended' /\ Drained'
  BY AttendedStep, DrainedStep
<1> QED
  BY <1>1, <1>2, CountedAlways, QuietExitCorrect, PTL DEF Spec

\* What is left in the queue of a completed scan are leases of runs that were cut off.
NoneWait == scanStatus = "completed" => phase = "down" /\ (~PageLimitReached => NonePending(jobs))

LEMMA NoneWaitStep ==
  ASSUME ~DbErrors
  PROVE  Counted /\ QuietExit /\ NoneWait /\ [Next]_vars => NoneWait'
<1> SUFFICES ASSUME Counted, QuietExit, NoneWait, [Next]_vars, scanStatus' = "completed"
             PROVE  phase' = "down" /\ (~PageLimitReached' => NonePending(jobs)')
  BY DEF NoneWait
<1>0. TypeOK /\ Placed
  BY DEF Counted
<1>1. CASE EndRun
  <2>1. /\ (\A w \in Worker : pc[w] = "exited") /\ jobs' = jobs /\ phase' = "down"
        /\ (~PageLimitReached' => ~PageLimitReached)
    BY <1>1 DEF EndRun, RunOver, queueVars, pageVars, PageLimitReached
  <2>2. ~PageLimitReached' => NonePending(jobs)
    BY <2>1, ConfigAssumption DEF QuietExit
  <2> QED
    BY <2>1, <2>2 DEF NonePending, Pending, InState
<1>2. CASE ~EndRun
  <2>1. scanStatus = "completed" /\ phase = "down"
    BY <1>2 DEF Next, BeginRun, SetupFails, StartWorkers, WorkerStep, WorkerDies, Lease, Exit, Raise, Refuse,
       FetchFails, FetchPage, PersistAxe, Finish, At, Cancel, Crash, SweepStale, LeaseLapses, runVars, vars, NoneWait
  <2>2. phase' = "down" /\ (PageLimitReached' <=> PageLimitReached)
    BY <1>2, <2>1 DEF Next, BeginRun, Adoptable, SetupFails, StartWorkers, WorkerStep, WorkerDies,
       Lease, Exit, Raise, Refuse, FetchFails, FetchPage, PersistAxe, Finish, At, Cancel, Crash, SweepStale,
       LeaseLapses, runVars, pageVars, vars, PageLimitReached
  <2>3. \A u \in Url : jobs'[u].state = jobs[u].state
    <3>1. CASE \E u \in Url : LeaseLapses(u)
      BY <1>0, <3>1, LapsedRow DEF LeaseLapses, TypeOK
    <3>2. CASE UNCHANGED jobs
      BY <3>2
    <3> QED
      BY <1>2, <2>1, <3>1, <3>2 DEF Next, BeginRun, Adoptable, SetupFails, StartWorkers, WorkerStep, WorkerDies,
         Lease, Exit, Raise, Refuse, FetchFails, FetchPage, PersistAxe, Finish, At, Cancel, Crash, SweepStale,
         runVars, queueVars, vars
  <2> QED
    BY <2>1, <2>2, <2>3 DEF NoneWait, NonePending, Pending, InState
<1> QED
  BY <1>1, <1>2

\* However often a scan was cut off and resumed, it is not completed with a page
\* that waits: of what Drained asks of resumed scans too, only leases are left.
THEOREM NoneWaitCorrect == ASSUME ~DbErrors  PROVE Spec => []NoneWait
<1>1. Init => NoneWait
  BY DEF Init, NoneWait
<1> QED
  BY <1>1, NoneWaitStep, CountedAlways, QuietExitCorrect, PTL DEF Spec
=============================================================================
