---------------------------- MODULE Scans_proofs ----------------------------
(***************************************************************************)
(* Proofs about Scans: its types and its safety properties, for any number *)
(* of rows, pages and workers.                                             *)
(*                                                                         *)
(* The properties hold together or not at all.  That the row shown is the  *)
(* row crawled rests on the row being the newest that can be discovered,   *)
(* which rests on no other row running; that a stopped scan stays stopped  *)
(* rests on the task being told, whenever the row it writes is stopped.    *)
(***************************************************************************)
EXTENDS Scans, TLAPS

Working == place \in {"created", "starting", "crawling"}

\* The task writes the row: it has begun, or was given the row at the start.
Owns == place \in {"starting", "crawling"} \/ (place = "created" /\ runKind = "signedIn")

\* Where there is a task, what the server believes about it is so.
TaskSound ==
  /\ server = "down" => ~Live
  /\ cancelling => Live
  /\ Working => shown \in Scan /\ Exists(shown)
  /\ Owns => run = shown /\ (run \in signedIn <=> runKind = "signedIn")

\* A public task that has not begun finds the row it was created for.
OfferSound ==
  place = "created" /\ runKind = "public" =>
    /\ \A m \in Adoptable : m <= shown
    /\ shown \notin signedIn
    /\ ~cancelling => status[shown] = "running"

\* The row of a task that has not been told to stop has not been stopped, and
\* the row of one that has been told by a person is not running.
StopSound ==
  /\ Working /\ ~cancelling => shown \notin stopped
  /\ cancelling /\ server = "up" => status[shown] # "running"

\* A row that was never made has no pages and no sign-in.
AbsentSound == \A n \in Scan : status[n] = "absent" => kinds[n] = {} /\ n \notin signedIn

IInv ==
  /\ TypeOK
  /\ TaskSound
  /\ OfferSound
  /\ StopSound
  /\ AbsentSound
  /\ RunningIsLive
  /\ SignedInApart
  /\ StoppedStays
  /\ DeletedForGood

-----------------------------------------------------------------------------
(* Steps *)

\* Stopping a scan, task.cancel() included, keeps every variable in its type.
LEMMA StopTypes == ASSUME TypeOK, NEW n \in Scan, Stop(n) PROVE TypeOK'
<1>1. cancelling' \in BOOLEAN /\ late' \in SUBSET Worker /\ held' = held
  BY DEF TypeOK, Stop, AskToStop, Live, workerVars
<1>2. status' \in [Scan -> {"absent", "running", "interrupted", "completed", "failed", "deleted"}]
  BY DEF TypeOK, Stop, SetStatus, Exists
<1>3. waiting' \in [Scan -> SUBSET Page] /\ leased' \in [Scan -> SUBSET Page]
  BY DEF TypeOK, Stop
<1>4. stopped' \in SUBSET Scan /\ dropped' \in [Scan -> SUBSET Page]
  BY DEF TypeOK, Stop, history
<1>. QED  BY <1>1, <1>2, <1>3, <1>4 DEF TypeOK, Stop, taskVars

\* run_crawl does not take up a stopped scan: the row it finds is the one the
\* server prepared for it, and that one was not stopped since.
LEMMA BeginKeepsStopped == ASSUME IInv, Begin PROVE StoppedStays'
<1>1. PICK n \in Scan :
         /\ \/ runKind = "signedIn" /\ n = run
            \/ runKind = "public" /\ IsNewest(n, Discoverable)
            \/ runKind = "public" /\ Discoverable = {} /\ IsFresh(n)
         /\ status' = [status EXCEPT ![n] = "running"]
  BY DEF Begin
<1>2. shown \in Scan /\ shown \notin stopped /\ stopped' = stopped
  BY DEF IInv, TaskSound, StopSound, Begin, Working, history
<1>3. n = shown
  <2>1. CASE runKind = "signedIn"
    BY <1>1, <2>1 DEF IInv, TaskSound, Owns, Begin
  <2>2. CASE runKind = "public"
    <3>1. shown \in Discoverable
      BY <1>2, <2>2 DEF IInv, OfferSound, Discoverable, Begin
    <3>2. Discoverable \subseteq Adoptable
      BY DEF Discoverable, Adoptable
    <3>. QED  BY <1>1, <1>2, <2>2, <3>1, <3>2 DEF IInv, OfferSound, IsNewest, Begin, Scan
  <2>. QED  BY <2>1, <2>2 DEF IInv, TypeOK, Kind
<1>. QED  BY <1>1, <1>2, <1>3 DEF IInv, TypeOK, StoppedStays

\* A new public scan: the row it is given, adopted or fresh, is the newest that
\* any public run may take, and nothing else is running (api_create_scan).
LEMMA CreateScanStep == ASSUME IInv, CreateScan PROVE IInv'
<1>1. TypeOK'  BY DEF IInv, TypeOK, Kind, CreateScan, StartTask, queueVars, workerVars
<1>2. TaskSound'
  BY DEF IInv, TypeOK, TaskSound, Owns, Exists, CreateScan, StartTask, workerVars
<1>3. OfferSound'
  BY <1>1 DEF IInv, TypeOK, TaskSound, OfferSound, StopSound, AbsentSound,
    RunningIsLive, Working, Adoptable, CreateScan, StartTask, IsNewest, IsFresh,
    queueVars, workerVars, Scan
<1>4. StopSound'  BY DEF IInv, TaskSound, StopSound, CreateScan, StartTask, workerVars
<1>5. RunningIsLive' /\ StoppedStays'
  BY DEF IInv, RunningIsLive, StoppedStays, Live, CreateScan, StartTask
<1>6. AbsentSound' /\ SignedInApart' /\ DeletedForGood'
  BY DEF IInv, AbsentSound, SignedInApart, DeletedForGood, Known, CreateScan,
    StartTask, queueVars
<1>. QED  BY <1>1, <1>2, <1>3, <1>4, <1>5, <1>6 DEF IInv

\* A new signed-in scan has a fresh row that no public run may take
\* (api_start_local_sign_in_scan).
LEMMA StartSignedInStep == ASSUME IInv, StartSignedIn PROVE IInv'
<1>1. TypeOK'
  BY DEF IInv, TypeOK, Kind, StartSignedIn, StartTask, queueVars, workerVars
<1>2. TaskSound' /\ OfferSound' /\ StopSound'
  BY DEF IInv, TypeOK, TaskSound, OfferSound, StopSound, Exists, StartSignedIn,
    StartTask, workerVars
<1>3. RunningIsLive'  BY DEF IInv, RunningIsLive, Live, StartSignedIn, StartTask
<1>4. StoppedStays'
  BY DEF IInv, TypeOK, StoppedStays, StartSignedIn, StartTask, IsFresh
<1>5. AbsentSound' /\ SignedInApart' /\ DeletedForGood'
  BY DEF IInv, TypeOK, AbsentSound, SignedInApart, DeletedForGood, Known,
    StartSignedIn, StartTask, IsFresh, queueVars
<1>. QED  BY <1>1, <1>2, <1>3, <1>4, <1>5 DEF IInv

\* A stop that reaches the task tells it so, and then the row is not running; a
\* stop of any other row leaves the task's row alone (api_cancel_scan).
LEMMA StopStep == ASSUME IInv, NEW n \in Scan, Stop(n) PROVE IInv'
<1>1. TypeOK'  BY StopTypes DEF IInv
<1>2. TaskSound' /\ OfferSound' /\ StopSound'
  BY DEF IInv, TypeOK, TaskSound, OfferSound, StopSound, RunningIsLive, Live,
    Working, Owns, Exists, Adoptable, Stop, AskToStop, SetStatus, taskVars,
    workerVars, history
<1>3. RunningIsLive' /\ StoppedStays'
  BY DEF IInv, TypeOK, RunningIsLive, StoppedStays, Stop, SetStatus, taskVars,
    history
<1>4. AbsentSound' /\ SignedInApart' /\ DeletedForGood'
  BY DEF IInv, TypeOK, AbsentSound, SignedInApart, DeletedForGood, Known, Stop,
    SetStatus
<1>. QED  BY <1>1, <1>2, <1>3, <1>4 DEF IInv

\* A row that is being written is not deleted, and a deleted one loses its jobs
\* (api_delete_scan).
LEMMA DeleteStep == ASSUME IInv, NEW n \in Scan, Delete(n) PROVE IInv'
<1>1. TypeOK'  BY DEF IInv, TypeOK, Delete, SetStatus, taskVars, workerVars, history
<1>2. TaskSound' /\ OfferSound' /\ StopSound'
  BY DEF IInv, TaskSound, OfferSound, StopSound, Live, Working, Owns, Exists,
    Adoptable, Delete, SetStatus, taskVars, workerVars, history
<1>3. RunningIsLive' /\ StoppedStays'
  BY DEF IInv, RunningIsLive, StoppedStays, Delete, SetStatus, taskVars, history
<1>4. AbsentSound' /\ SignedInApart' /\ DeletedForGood'
  BY DEF IInv, TypeOK, AbsentSound, SignedInApart, DeletedForGood, Known, Delete,
    SetStatus
<1>. QED  BY <1>1, <1>2, <1>3, <1>4 DEF IInv

\* run_crawl finds the row the server prepared for it (_ensure_scan).
LEMMA BeginStep == ASSUME IInv, Begin PROVE IInv'
<1>1. TypeOK'  BY ScansAssumption DEF IInv, TypeOK, Begin, workerVars, history
<1>2. TaskSound' /\ OfferSound' /\ StopSound'
  BY DEF IInv, TaskSound, OfferSound, StopSound, Live, Working, Owns, Exists,
    Adoptable, Begin, IsNewest, Discoverable, workerVars, history, Scan
<1>3. RunningIsLive'
  BY DEF IInv, TaskSound, OfferSound, RunningIsLive, Working, Owns, Adoptable,
    Begin, IsNewest, Discoverable, Scan
<1>4. StoppedStays'  BY BeginKeepsStopped DEF IInv
<1>5. AbsentSound' /\ SignedInApart' /\ DeletedForGood'
  BY DEF IInv, TaskSound, AbsentSound, SignedInApart, DeletedForGood, Working, Owns,
    Exists, Known, Begin, IsNewest, IsFresh, Discoverable
<1>. QED  BY <1>1, <1>2, <1>3, <1>4, <1>5 DEF IInv

\* A set-up that fails before or after run_crawl has a row leaves no row running
\* (_run_background_crawl).
LEMMA SetupFailsStep == ASSUME IInv, SetupFails PROVE IInv'
<1>1. TypeOK'
  BY DEF IInv, TypeOK, SetupFails, SetStatus, queueVars, workerVars, history
<1>2. TaskSound' /\ OfferSound' /\ StopSound'
  BY DEF IInv, TaskSound, OfferSound, StopSound, Live, Working, Owns, SetupFails,
    workerVars
<1>3. RunningIsLive'
  BY ScansAssumption DEF IInv, TypeOK, TaskSound, RunningIsLive, SignedInApart,
    Owns, Exists, SetupFails, SetStatus, IsNewest, queueVars, history, Scan
<1>4. StoppedStays'  BY DEF IInv, TypeOK, StoppedStays, SetupFails, SetStatus, history
<1>5. AbsentSound'  BY DEF IInv, TypeOK, AbsentSound, SetupFails, SetStatus
<1>6. SignedInApart'  BY DEF IInv, SignedInApart, SetupFails
<1>7. DeletedForGood'
  BY DEF IInv, TypeOK, DeletedForGood, Known, SetupFails, SetStatus, queueVars,
    history, Scan
<1>. QED  BY <1>1, <1>2, <1>3, <1>4, <1>5, <1>6, <1>7 DEF IInv

\* The workers start on the row the task has taken (run_crawl).
LEMMA StartWorkersStep == ASSUME IInv, StartWorkers PROVE IInv'
<1>1. TypeOK'
  BY DEF IInv, TypeOK, StartWorkers, rowVars, queueVars, workerVars, history
<1>2. TaskSound' /\ OfferSound' /\ StopSound'
  BY DEF IInv, TaskSound, OfferSound, StopSound, Live, Working, Owns, Exists,
    StartWorkers, rowVars, workerVars, history
<1>3. RunningIsLive' /\ StoppedStays'
  BY DEF IInv, RunningIsLive, StoppedStays, StartWorkers, rowVars, history
<1>4. AbsentSound' /\ SignedInApart' /\ DeletedForGood'
  BY DEF IInv, AbsentSound, SignedInApart, DeletedForGood, Known, StartWorkers,
    rowVars, queueVars
<1>. QED  BY <1>1, <1>2, <1>3, <1>4 DEF IInv

\* A job taken belongs to the row that is shown (_worker).
LEMMA LeaseStep == ASSUME IInv, NEW w \in Worker, Lease(w) PROVE IInv'
<1>1. TypeOK'
  BY DEF IInv, TypeOK, TaskSound, Working, Owns, Lease, MayStep, rowVars, taskVars,
    history
<1>2. TaskSound' /\ OfferSound' /\ StopSound'
  BY DEF IInv, TaskSound, OfferSound, StopSound, Live, Working, Owns, Exists, Lease,
    MayStep, rowVars, taskVars, history
<1>3. RunningIsLive' /\ StoppedStays'
  BY DEF IInv, RunningIsLive, StoppedStays, Lease, rowVars, taskVars, history
<1>4. AbsentSound' /\ SignedInApart' /\ DeletedForGood'
  BY DEF IInv, AbsentSound, SignedInApart, DeletedForGood, Known, Lease, rowVars
<1>. QED  BY <1>1, <1>2, <1>3, <1>4 DEF IInv

\* What a page yields is queued for the row that is shown, and that row still
\* exists (_enqueue_children).
LEMMA FinishStep == ASSUME IInv, NEW w \in Worker, Finish(w) PROVE IInv'
<1>1. TypeOK'
  BY DEF IInv, TypeOK, TaskSound, Working, Owns, Finish, MayStep, Better, history
<1>2. TaskSound' /\ OfferSound' /\ StopSound'
  BY DEF IInv, TaskSound, OfferSound, StopSound, Live, Working, Owns, Exists,
    Finish, MayStep, history
<1>3. RunningIsLive' /\ StoppedStays'
  BY DEF IInv, RunningIsLive, StoppedStays, Finish, history
<1>4. AbsentSound' /\ SignedInApart' /\ DeletedForGood'
  BY DEF IInv, TypeOK, TaskSound, AbsentSound, SignedInApart, DeletedForGood,
    Working, Owns, Exists, Known, Kind, Finish, MayStep
<1>. QED  BY <1>1, <1>2, <1>3, <1>4 DEF IInv

\* A crawl that ends by itself writes its verdict into the row that is shown,
\* which nobody stopped, for it would have been told (run_crawl).
LEMMA EndRunStep == ASSUME IInv, EndRun PROVE IInv'
<1>1. TypeOK'
  BY DEF IInv, TypeOK, EndRun, SetStatus, Verdict, queueVars, workerVars, history
<1>2. TaskSound' /\ OfferSound' /\ StopSound'
  BY DEF IInv, TaskSound, OfferSound, StopSound, Live, Working, Owns, EndRun,
    workerVars
<1>3. RunningIsLive' /\ StoppedStays'
  BY DEF IInv, TypeOK, TaskSound, StopSound, RunningIsLive, StoppedStays, Working,
    Owns, EndRun, SetStatus, Verdict, history
<1>4. AbsentSound' /\ SignedInApart' /\ DeletedForGood'
  BY DEF IInv, AbsentSound, SignedInApart, DeletedForGood, Known, EndRun, SetStatus,
    Verdict, queueVars
<1>. QED  BY <1>1, <1>2, <1>3, <1>4 DEF IInv

\* The task's end lets go of a row that it no longer runs.
LEMMA CloseStep == ASSUME IInv, Close PROVE IInv'
<1>1. TypeOK'  BY DEF IInv, TypeOK, Close, rowVars, queueVars, workerVars, history
<1>2. TaskSound' /\ OfferSound' /\ StopSound'
  BY DEF IInv, TaskSound, OfferSound, StopSound, Live, Working, Owns, Close,
    workerVars
<1>3. RunningIsLive' /\ StoppedStays'
  BY DEF IInv, RunningIsLive, StoppedStays, Close, rowVars, history
<1>4. AbsentSound' /\ SignedInApart' /\ DeletedForGood'
  BY DEF IInv, AbsentSound, SignedInApart, DeletedForGood, Known, Close, rowVars,
    queueVars
<1>. QED  BY <1>1, <1>2, <1>3, <1>4 DEF IInv

\* A task that finds out that it was cancelled does not overwrite what the stop
\* wrote (_run_background_crawl, _run_local_login_background).
LEMMA CancelDeliveredStep == ASSUME IInv, CancelDelivered PROVE IInv'
<1>1. TypeOK'
  BY DEF IInv, TypeOK, CancelDelivered, SetStatus, Verdict, queueVars, history
<1>2. TaskSound' /\ OfferSound' /\ StopSound'
  BY DEF IInv, TaskSound, OfferSound, StopSound, Working, Owns, CancelDelivered
<1>3. RunningIsLive' /\ StoppedStays'
  BY DEF IInv, TypeOK, OfferSound, StopSound, RunningIsLive, StoppedStays,
    DeletedForGood, Exists, CancelDelivered, SetStatus, Verdict, history
<1>4. AbsentSound' /\ SignedInApart' /\ DeletedForGood'
  BY DEF IInv, TypeOK, AbsentSound, SignedInApart, DeletedForGood, Known,
    CancelDelivered, SetStatus, Verdict, queueVars
<1>. QED  BY <1>1, <1>2, <1>3, <1>4 DEF IInv

\* A shutdown cancels the task like a stop, without writing a row.
LEMMA QuitStep == ASSUME IInv, Quit PROVE IInv'
<1>1. TypeOK'  BY DEF IInv, TypeOK, Quit, rowVars, queueVars, taskVars, history
<1>2. TaskSound' /\ OfferSound' /\ StopSound'
  BY DEF IInv, TaskSound, OfferSound, StopSound, Live, Working, Owns, Exists,
    Adoptable, Quit, rowVars, taskVars
<1>3. RunningIsLive' /\ StoppedStays'
  BY DEF IInv, RunningIsLive, StoppedStays, Quit, rowVars, history
<1>4. AbsentSound' /\ SignedInApart' /\ DeletedForGood'
  BY DEF IInv, AbsentSound, SignedInApart, DeletedForGood, Known, Quit, rowVars,
    queueVars
<1>. QED  BY <1>1, <1>2, <1>3, <1>4 DEF IInv

\* The death of the process leaves rows as they are, and no task.
LEMMA DieStep == ASSUME IInv, Die PROVE IInv'
<1>1. TypeOK'  BY DEF IInv, TypeOK, Die, rowVars, queueVars, history
<1>2. TaskSound' /\ OfferSound' /\ StopSound'
  BY DEF IInv, TaskSound, OfferSound, StopSound, Live, Working, Owns, Die
<1>3. RunningIsLive' /\ StoppedStays'
  BY DEF IInv, RunningIsLive, StoppedStays, Die, rowVars, history
<1>4. AbsentSound' /\ SignedInApart' /\ DeletedForGood'
  BY DEF IInv, AbsentSound, SignedInApart, DeletedForGood, Known, Die, rowVars,
    queueVars
<1>. QED  BY <1>1, <1>2, <1>3, <1>4 DEF IInv

\* The next start lists no row as running (_sweep_stale_running_scans).
LEMMA BootStep == ASSUME IInv, Boot PROVE IInv'
<1>1. TypeOK'  BY DEF IInv, TypeOK, Boot, queueVars, workerVars, history
<1>2. TaskSound' /\ OfferSound' /\ StopSound'
  BY DEF IInv, TaskSound, OfferSound, StopSound, Live, Working, Owns, Boot,
    workerVars
<1>3. RunningIsLive' /\ StoppedStays'
  BY DEF IInv, TypeOK, RunningIsLive, StoppedStays, Boot, history
<1>4. AbsentSound' /\ SignedInApart' /\ DeletedForGood'
  BY DEF IInv, AbsentSound, SignedInApart, DeletedForGood, Known, Boot, queueVars
<1>. QED  BY <1>1, <1>2, <1>3, <1>4 DEF IInv

-----------------------------------------------------------------------------
(* Theorems *)

\* A server that has just been installed satisfies the invariant.
LEMMA InitHolds == ASSUME Init PROVE IInv
<1>1. TypeOK  BY ScansAssumption DEF Init, TypeOK, Kind
<1>2. TaskSound /\ OfferSound /\ StopSound
  BY DEF Init, TaskSound, OfferSound, StopSound, Live, Working, Owns
<1>3. AbsentSound /\ SignedInApart /\ DeletedForGood
  BY DEF Init, AbsentSound, SignedInApart, DeletedForGood, Known
<1>4. RunningIsLive /\ StoppedStays  BY DEF Init, RunningIsLive, StoppedStays
<1>. QED  BY <1>1, <1>2, <1>3, <1>4 DEF IInv

\* Every step keeps the invariant: a request, a turn of the task, of a worker, a
\* shutdown, a crash or a start.
LEMMA NextHolds == ASSUME IInv, [Next]_vars PROVE IInv'
<1>1. CASE CreateScan  BY <1>1, CreateScanStep
<1>2. CASE StartSignedIn  BY <1>2, StartSignedInStep
<1>3. CASE \E n \in Scan : Stop(n) \/ Delete(n)  BY <1>3, StopStep, DeleteStep
<1>4. CASE Begin  BY <1>4, BeginStep
<1>5. CASE SetupFails  BY <1>5, SetupFailsStep
<1>6. CASE StartWorkers  BY <1>6, StartWorkersStep
<1>7. CASE \E w \in Worker : Lease(w) \/ Finish(w)  BY <1>7, LeaseStep, FinishStep
<1>8. CASE EndRun  BY <1>8, EndRunStep
<1>9. CASE Close  BY <1>9, CloseStep
<1>10. CASE CancelDelivered  BY <1>10, CancelDeliveredStep
<1>11. CASE Quit  BY <1>11, QuitStep
<1>12. CASE Die  BY <1>12, DieStep
<1>13. CASE Boot  BY <1>13, BootStep
<1>14. CASE UNCHANGED vars
  <2> USE <1>14 DEF IInv, vars, rowVars, queueVars, taskVars, workerVars, history, Live, Exists
  <2>1. TypeOK'  BY DEF TypeOK
  <2>2. TaskSound' /\ OfferSound' /\ StopSound'
    BY DEF TaskSound, OfferSound, StopSound, Working, Owns, Adoptable
  <2>3. RunningIsLive' /\ StoppedStays'  BY DEF RunningIsLive, StoppedStays
  <2>4. AbsentSound' /\ SignedInApart' /\ DeletedForGood'
    BY DEF AbsentSound, SignedInApart, DeletedForGood, Known
  <2>. QED  BY <2>1, <2>2, <2>3, <2>4
<1>. QED  BY <1>1, <1>2, <1>3, <1>4, <1>5, <1>6, <1>7,
  <1>8, <1>9, <1>10, <1>11, <1>12, <1>13, <1>14 DEF Next

\* The invariant holds of every scan of an address.
THEOREM Invariant == Spec => []IInv
<1>. QED  BY InitHolds, NextHolds, PTL DEF Spec

\* Every variable has its type: in particular the task's row is a row wherever the
\* code uses its id.
THEOREM TypeCorrect == Spec => []TypeOK
<1>1. IInv => TypeOK  BY DEF IInv
<1>. QED  BY <1>1, Invariant, PTL

\* The row the server names as the running scan is the row the crawl writes, for
\* any number of rows and whatever was stopped, deleted or interrupted before.
THEOREM ShownRowCorrect == Spec => []ShownRow
<1>1. IInv => ShownRow  BY DEF IInv, TaskSound, Owns, ShownRow
<1>. QED  BY <1>1, Invariant, PTL

\* While the server is up, a row listed as running has a task that will bring it
\* to an end.
THEOREM RunningIsLiveCorrect == Spec => []RunningIsLive
<1>1. IInv => RunningIsLive  BY DEF IInv
<1>. QED  BY <1>1, Invariant, PTL

\* No report mixes pages seen signed in with pages seen as the public sees them.
THEOREM SignedInApartCorrect == Spec => []SignedInApart
<1>1. IInv => SignedInApart  BY DEF IInv
<1>. QED  BY <1>1, Invariant, PTL

\* The crawl that was under way when a person stopped it does not turn the stopped
\* scan into a completed one.
THEOREM StoppedStaysCorrect == Spec => []StoppedStays
<1>1. IInv => StoppedStays  BY DEF IInv
<1>. QED  BY <1>1, Invariant, PTL

\* No step of a crawl or a request brings a deleted scan's jobs or pages back.
THEOREM DeletedForGoodCorrect == Spec => []DeletedForGood
<1>1. IInv => DeletedForGood  BY DEF IInv
<1>. QED  BY <1>1, Invariant, PTL
=============================================================================
