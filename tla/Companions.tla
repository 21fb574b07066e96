------------------------------ MODULE Companions ------------------------------
(***************************************************************************)
(* Protected scans, and the companions that run them                       *)
(* (src/audit/protected/repository.py, src/audit/web/protected_api.py,     *)
(* src/audit/protected/companion.py).  A companion is a program on an      *)
(* auditor's computer.  Its certificate is enrolled for one report; it     *)
(* asks the server for work and is given a lease, signs in, crawls and     *)
(* reports over HTTP, and its heartbeats keep the lease from expiring.     *)
(*                                                                         *)
(* A request may be lost, or answered after the companion gave it up, or   *)
(* arrive when the companion is gone; the companion may die at any time,   *)
(* the owner may stop the scan, the server may restart.  Each request is   *)
(* handled in one turn of the server's event loop, but a request for work  *)
(* waits for its body between the check of the enrollment and the rest.    *)
(* A runner is one run of the companion program, and stands for the lease  *)
(* it is given, which no other run ever has.                               *)
(*                                                                         *)
(* A heartbeat that is accepted renews the lease and changes nothing else  *)
(* here; one that is refused is one of the reasons to give up.             *)
(*                                                                         *)
(* ClaimAnyway, RecoverWaiting, FreeIfWaiting, HoldsUnexpired and          *)
(* StopAnyway are wrong on purpose: slips of the definition they precede,  *)
(* kept to show that the properties notice them.                           *)
(***************************************************************************)
EXTENDS FiniteSets

CONSTANTS
  Scan,         \* the protected reports
  Certificate,  \* the certificates of the auditors' computers
  Runner,       \* the runs of the companion program
  NoRunner

ASSUME CompanionsAssumption == NoRunner \notin Runner

VARIABLES
  protection,  \* protected_scans.protection_status
  lease,       \* run_lease_id, as the runner it was given to
  lapsed,      \* the scans whose lease has passed run_lease_expires_at
  retained,    \* the scans that have not passed cleanup_at
  enrolled,    \* the status of each certificate's enrollment for each scan
  place,       \* where each runner is
  scanOf,      \* the scan it is enrolled for
  certOf,      \* and the certificate it uses
  mail,        \* the requests on their way
  admitted     \* the runners whose request for work has passed _require_agent

report == <<protection, lease, lapsed>>
runner == <<place, scanOf, certOf>>
vars == <<report, retained, enrolled, runner, mail, admitted>>

Paused == {"awaiting_authentication", "authentication_required", "interrupted"}
Final == {"completed", "failed"}
Status == Paused \cup Final \cup {"running"}
Kind == Status \cup {"work"}

\* The places where a runner has a lease and has not closed its browser.
InSession == {"handed", "opening", "signingIn", "starting", "crawling", "finishing"}

TypeOK ==
  /\ protection \in [Scan -> Status] /\ lease \in [Scan -> Runner \cup {NoRunner}]
  /\ lapsed \subseteq {s \in Scan : lease[s] # NoRunner} /\ retained \subseteq Scan
  /\ enrolled \in [Scan -> [Certificate -> {"none", "pending", "claimed", "over"}]]
  /\ place \in [Runner -> {"idle", "asking", "over"} \cup InSession]
  /\ scanOf \in [Runner -> Scan] /\ certOf \in [Runner -> Certificate]
  /\ mail \subseteq [by : Runner, kind : Kind]
  /\ admitted \subseteq Runner

Init ==
  /\ protection = [s \in Scan |-> "awaiting_authentication"]
  /\ lease = [s \in Scan |-> NoRunner] /\ lapsed = {} /\ retained = Scan
  /\ enrolled = [s \in Scan |-> [c \in Certificate |-> "none"]]
  /\ place = [r \in Runner |-> "idle"]
  /\ scanOf \in [Runner -> Scan] /\ certOf \in [Runner -> Certificate]
  /\ mail = {} /\ admitted = {}

Request(r, k) == [by |-> r, kind |-> k]

-----------------------------------------------------------------------------
(* Enrollment *)

\* create_agent_enrollment: the report waits for a companion and has none, and
\* its table has no row for this certificate yet (UNIQUE, migration 0011): a
\* second INSERT for it is refused, and all is rolled back.
CanEnroll(s, c) ==
  /\ s \in retained /\ protection[s] \in Paused
  /\ \A d \in Certificate : enrolled[s][d] # "claimed"
  /\ enrolled[s][c] = "none"

\* Earlier codes of the report are revoked.
CreateEnrollment(s, c) ==
  /\ CanEnroll(s, c)
  /\ enrolled' = [enrolled EXCEPT ![s] = [d \in Certificate |->
       IF d = c THEN "pending" ELSE IF @[d] = "pending" THEN "over" ELSE @[d]]]
  /\ UNCHANGED <<report, retained, runner, mail, admitted>>

\* A code found expired says so.
CodeExpires(s, c) ==
  /\ enrolled[s][c] = "pending" /\ s \in retained
  /\ enrolled' = [enrolled EXCEPT ![s][c] = "over"]
  /\ UNCHANGED <<report, retained, runner, mail, admitted>>

ClaimAnyway(s, c) ==
  /\ enrolled[s][c] = "pending" /\ s \in retained
  /\ \A d \in Certificate : enrolled[s][d] # "claimed"
  /\ enrolled' = [enrolled EXCEPT ![s][c] = "claimed"]
  /\ UNCHANGED <<report, retained, runner, mail, admitted>>

\* claim_agent_enrollment: the certificate becomes the report's one companion,
\* and the report its only one (UNIQUE, migration 0014).
ClaimEnrollment(s, c) ==
  /\ enrolled[s][c] = "pending" /\ s \in retained
  /\ \A d \in Certificate : enrolled[s][d] # "claimed"
  /\ \A t \in Scan : enrolled[t][c] # "claimed"
  /\ enrolled' = [enrolled EXCEPT ![s][c] = "claimed"]
  /\ UNCHANGED <<report, retained, runner, mail, admitted>>

Enrolled(r) == enrolled[scanOf[r]][certOf[r]] = "claimed"

-----------------------------------------------------------------------------
(* The lease *)

Stale == {s \in Scan : lease[s] # NoRunner /\ s \in lapsed}

RecoverWaiting ==
  /\ protection' = [s \in Scan |->
       IF s \in Stale /\ protection[s] = "awaiting_authentication" THEN "interrupted"
       ELSE protection[s]]
  /\ lapsed' = lapsed \ Stale

\* recover_stale_protected_run_leases, but for the leases it takes away.
Recover ==
  /\ protection' = [s \in Scan |->
       IF s \in Stale /\ protection[s] \in {"awaiting_authentication", "running"}
       THEN "interrupted" ELSE protection[s]]
  /\ lapsed' = lapsed \ Stale

FreeIfWaiting(s) == \A t \in Scan : lease[t] = NoRunner \/ t \in Stale \/ protection[t] # "running"

\* acquire_protected_run_lease: nobody has an unexpired lease, for this report
\* or another.
Free(s) == \A t \in Scan : lease[t] = NoRunner \/ t \in Stale

HoldsUnexpired(r) == lease[scanOf[r]] # NoRunner /\ scanOf[r] \notin lapsed

\* _require_current_run_lease.
Holds(r) == lease[scanOf[r]] = r /\ scanOf[r] \notin lapsed

LeaseLapses(s) ==
  /\ lease[s] # NoRunner /\ lapsed' = lapsed \cup {s} /\ s \notin lapsed
  /\ UNCHANGED <<protection, lease, retained, enrolled, runner, mail, admitted>>

\* _protected_retention_worker.
RetentionWorker ==
  /\ Stale # {} /\ Recover
  /\ lease' = [s \in Scan |-> IF s \in Stale THEN NoRunner ELSE lease[s]]
  /\ UNCHANGED <<retained, enrolled, runner, mail, admitted>>

-----------------------------------------------------------------------------
(* The companion *)

Waits == [asking |-> "work", opening |-> "awaiting_authentication", starting |-> "running",
          finishing |-> "completed"]
Proceeds == [asking |-> "handed", opening |-> "signingIn", starting |-> "crawling",
             finishing |-> "over"]

\* A runner goes from one place to another and sends its request.
Send(r, from, k, to) ==
  /\ place[r] = from /\ place' = [place EXCEPT ![r] = to]
  /\ mail' = mail \cup {Request(r, k)}
  /\ UNCHANGED <<report, retained, enrolled, scanOf, certOf, admitted>>

\* A sign-in that did not reach the application, or was lost while crawling.
SignedOut(r) ==
  \E from \in {"signingIn", "crawling"} : Send(r, from, "authentication_required", "over")

\* Anything that goes wrong, a request without an answer included.
Fails(r) == \E from \in InSession : Send(r, from, "failed", "over")
Interrupted(r) == \E from \in InSession : Send(r, from, "interrupted", "over")

RunnerSends(r) ==
  \/ Enrolled(r) /\ Send(r, "idle", "work", "asking")
  \/ Send(r, "handed", "awaiting_authentication", "opening")
  \/ Send(r, "signingIn", "running", "starting")
  \/ Send(r, "crawling", "completed", "finishing")
  \/ SignedOut(r) \/ Fails(r) \/ Interrupted(r)

\* The process ends, or gives up: it never got its work, or a heartbeat or an
\* event of its was refused, and it closes its browser and says no more.
Dies(r) ==
  /\ place[r] \in InSession \cup {"asking"} /\ place' = [place EXCEPT ![r] = "over"]
  /\ UNCHANGED <<report, retained, enrolled, scanOf, certOf, mail, admitted>>

\* The runner's own view of an answer, if it hears it and still waits for it.
Accepted(r, k) ==
  \/ UNCHANGED place
  \/ /\ place[r] \in DOMAIN Waits /\ Waits[place[r]] = k
     /\ place' = [place EXCEPT ![r] = Proceeds[@]]

-----------------------------------------------------------------------------
(* Requests *)

Lost ==
  /\ \E m \in mail : mail' = mail \ {m} /\ (m.kind = "work" => m.by \notin admitted)
  /\ UNCHANGED <<report, retained, enrolled, runner, admitted>>

\* GET /api/agents/{id}/work, as far as the wait for the request's body.
AdmitWork(r) ==
  /\ Request(r, "work") \in mail /\ Enrolled(r) /\ admitted' = admitted \cup {r}
  /\ UNCHANGED <<report, retained, enrolled, runner, mail>>

\* The rest: take back what has expired, and give the runner the report's lease,
\* unless it is not waiting for one, or another runs, or the key is not there.
GiveWork(r) ==
  LET s == scanOf[r] IN
  /\ r \in admitted /\ admitted' = admitted \ {r} /\ mail' = mail \ {Request(r, "work")}
  /\ Recover
  /\ \/ /\ protection'[s] \in Paused /\ s \in retained /\ Free(s)
        /\ lease' = [t \in Scan |-> IF t = s THEN r ELSE IF t \in Stale THEN NoRunner ELSE lease[t]]
        /\ Accepted(r, "work")
     \/ /\ lease' = [t \in Scan |-> IF t \in Stale THEN NoRunner ELSE lease[t]]
        /\ UNCHANGED place
  /\ UNCHANGED <<retained, enrolled, scanOf, certOf>>

\* _ALLOWED_STATUS_TRANSITIONS, and that a running scan does not start again.
Allowed ==
  [awaiting_authentication |-> Status \ {"completed"},
   running |-> {"authentication_required", "completed", "interrupted", "failed"},
   authentication_required |-> Paused \cup {"failed"},
   interrupted |-> {"interrupted", "awaiting_authentication", "failed"},
   completed |-> {"completed"},
   failed |-> {"failed"}]

\* set_protected_scan_status: the states that end the lease.
Releases(k) == k \in Final \cup {"authentication_required", "interrupted"}

\* What agent_event accepts of a runner that proved its lease.
Accepts(s, k) ==
  /\ k \in Allowed[protection[s]]
  /\ k \in {"awaiting_authentication", "running", "authentication_required"} => s \in retained

\* set_protected_scan_status.
SetStatus(s, k) ==
  /\ protection' = [protection EXCEPT ![s] = k]
  /\ lease' = IF Releases(k) THEN [lease EXCEPT ![s] = NoRunner] ELSE lease
  /\ lapsed' = IF Releases(k) THEN lapsed \ {s} ELSE lapsed

\* POST .../events: an enrolled runner that proves its lease is heard if its
\* event is in order; whatever the outcome, it may never learn of it.
Serve(m) ==
  LET s == scanOf[m.by] IN
  /\ m \in mail /\ m.kind # "work" /\ mail' = mail \ {m}
  /\ IF Enrolled(m.by) /\ Holds(m.by) /\ Accepts(s, m.kind)
     THEN SetStatus(s, m.kind) /\ Accepted(m.by, m.kind)
     ELSE UNCHANGED <<report, place>>
  /\ UNCHANGED <<retained, enrolled, scanOf, certOf, admitted>>

-----------------------------------------------------------------------------
(* The owner, the clock, the server *)

StopAnyway(s) ==
  /\ protection' = [protection EXCEPT ![s] = "interrupted"]
  /\ lease' = [lease EXCEPT ![s] = NoRunner] /\ lapsed' = lapsed \ {s}
  /\ enrolled' = [enrolled EXCEPT ![s] = [c \in Certificate |->
       IF @[c] \in {"pending", "claimed"} THEN "over" ELSE @[c]]]
  /\ UNCHANGED <<retained, runner, mail, admitted>>

\* interrupt_protected_scan: the companion's enrollment and lease end as well.
Stop(s) ==
  /\ protection[s] \notin Final
  /\ protection' = [protection EXCEPT ![s] = "interrupted"]
  /\ lease' = [lease EXCEPT ![s] = NoRunner] /\ lapsed' = lapsed \ {s}
  /\ enrolled' = [enrolled EXCEPT ![s] = [c \in Certificate |->
       IF @[c] \in {"pending", "claimed"} THEN "over" ELSE @[c]]]
  /\ UNCHANGED <<retained, runner, mail, admitted>>

\* The evidence reaches cleanup_at, and is erased some time after.
Expires(s) ==
  /\ s \in retained /\ retained' = retained \ {s}
  /\ UNCHANGED <<report, enrolled, runner, mail, admitted>>

\* The server stops and starts again: _sweep_stale_running_scans.
Restart ==
  /\ protection' = [s \in Scan |->
       IF protection[s] = "running" \/ (lease[s] # NoRunner /\ protection[s] = "awaiting_authentication")
       THEN "interrupted" ELSE protection[s]]
  /\ lease' = [s \in Scan |-> NoRunner] /\ lapsed' = {}
  /\ admitted' = {} /\ mail' = {m \in mail : m.by \notin admitted \/ m.kind # "work"}
  /\ UNCHANGED <<retained, enrolled, runner>>

-----------------------------------------------------------------------------
Next ==
  \/ \E s \in Scan, c \in Certificate :
       CreateEnrollment(s, c) \/ CodeExpires(s, c) \/ ClaimEnrollment(s, c)
  \/ \E r \in Runner : RunnerSends(r) \/ Dies(r) \/ AdmitWork(r) \/ GiveWork(r)
  \/ \E m \in mail : Serve(m)
  \/ Lost \/ RetentionWorker \/ Restart
  \/ \E s \in Scan : LeaseLapses(s) \/ Stop(s) \/ Expires(s)

\* A report whose runner is gone: nobody renews its lease.
Abandoned(s) == lease[s] # NoRunner /\ place[lease[s]] = "over"

\* The retention worker runs every minute, and a lease that is not renewed
\* expires.
Fairness ==
  /\ WF_vars(RetentionWorker)
  /\ \A s \in Scan : WF_vars(Abandoned(s) /\ LeaseLapses(s))

Spec == Init /\ [][Next]_vars /\ Fairness

-----------------------------------------------------------------------------
(* What a protected scan promises *)

\* At most one companion has a lease, whichever reports were leased, stopped,
\* recovered or swept before (acquire_protected_run_lease: "the single-host
\* writer boundary for protected crawling").
OneCompanion == \A s, t \in Scan : lease[s] # NoRunner /\ lease[t] # NoRunner => s = t

\* A report is running only while a companion has its lease, so that somebody
\* can end it, and only if that companion itself signed in: the events of one
\* that had the lease before it do not count (_require_current_run_lease).
RunningIsSignedIn ==
  \A s \in Scan : protection[s] = "running" =>
    lease[s] # NoRunner /\ place[lease[s]] \notin {"idle", "asking", "handed", "opening", "signingIn"}

\* A companion is bound to one report and a report to one companion
\* (claim_agent_enrollment, migration 0014).
OnePairing ==
  \A s, t \in Scan, c, d \in Certificate :
    enrolled[s][c] = "claimed" /\ enrolled[t][d] = "claimed" => (s = t <=> c = d)

\* One companion at most collects, and it is that of its report.
Alone == OneCompanion /\ OnePairing

\* A completed or failed report is not reopened by a late event, a stop, a
\* recovery or a restart (_ALLOWED_STATUS_TRANSITIONS).
FinalStays ==
  [][\A s \in Scan : protection[s] \in Final => protection'[s] = protection[s]]_vars

\* Who has which report, and who may yet be given one: a runner asks for work
\* once, and its request brings it a lease, if any, when it is handled.
Tenure == {p \in Scan \X Runner : lease[p[1]] = p[2]}
Fresh == {r \in Runner : place[r] = "idle" \/ Request(r, "work") \in mail}
Reported(k) == {s \in Scan : protection[s] = k}

Leases == INSTANCE Tenures
            WITH tenure <- Tenure, fresh <- Fresh, running <- Reported("running"),
                 completed <- Reported("completed"), failed <- Reported("failed")

\* However requests are lost or late, and through stops, recoveries and restarts,
\* a companion is given at most one report, only the one that has it moves it,
\* and only for as long as it has it, and a report that completed or failed stays
\* so (acquire_protected_run_lease, _require_current_run_lease,
\* _ALLOWED_STATUS_TRANSITIONS).
KeepsTenures == Leases!Spec

\* A report left behind by its companion does not go on running
\* (recover_stale_protected_run_leases: "interrupt abandoned companion work").
AbandonedIsInterrupted ==
  \A s \in Scan :
    (protection[s] = "running" /\ Abandoned(s)) ~> protection[s] # "running"

\* "Revoke prior unclaimed enrollment records atomically before minting the
\* sole fresh code" (create_agent_enrollment): a report that waits for its
\* companion, and whose code was not used, can be given a new one.
CodeCanBeRenewed ==
  \A s \in retained, c \in Certificate :
    /\ protection[s] \in Paused /\ enrolled[s][c] \notin {"none", "claimed"}
    /\ \A d \in Certificate : enrolled[s][d] # "claimed"
    => CanEnroll(s, c)
=============================================================================
