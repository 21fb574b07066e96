--------------------------- MODULE Companions_proofs ---------------------------
(***************************************************************************)
(* The safety of protected scans, for any number of reports, certificates  *)
(* and runs of companions.                                                 *)
(***************************************************************************)
EXTENDS Companions, TLAPS

\* The places before a companion says that its sign-in succeeded.
Before == {"idle", "asking", "handed", "opening", "signingIn"}

\* Who is still to sign in has not yet sent word that the crawl has started.
WordIsTrue == \A r \in Runner : Request(r, "running") \in mail => place[r] \notin Before

\* A report that has ended is nobody's.
EndedIsFree == \A s \in Scan : protection[s] \in Final => lease[s] = NoRunner

IInv ==
  /\ TypeOK
  /\ OneCompanion
  /\ OnePairing
  /\ WordIsTrue
  /\ RunningIsSignedIn
  /\ EndedIsFree

-----------------------------------------------------------------------------
(* Actions that leave the leases and the reports alone *)

\* Codes come and go: only a claim makes a pair, and only of two that are free.
LEMMA EnrollmentStep ==
  ASSUME IInv, NEW s \in Scan, NEW c \in Certificate,
         CreateEnrollment(s, c) \/ CodeExpires(s, c) \/ ClaimEnrollment(s, c)
  PROVE  IInv'
<1> USE DEF IInv
<1>1. UNCHANGED <<report, retained, runner, mail, admitted>>
  BY DEF CreateEnrollment, CodeExpires, ClaimEnrollment
<1>2. enrolled' \in [Scan -> [Certificate -> {"none", "pending", "claimed", "over"}]]
  <2>1. CASE CreateEnrollment(s, c)  BY <2>1 DEF TypeOK, CreateEnrollment
  <2>2. CASE CodeExpires(s, c)  BY <2>2 DEF TypeOK, CodeExpires
  <2>3. CASE ClaimEnrollment(s, c)  BY <2>3 DEF TypeOK, ClaimEnrollment
  <2>. QED  BY <2>1, <2>2, <2>3
<1>3. OnePairing'
  <2>1. CASE CreateEnrollment(s, c)
    <3>1. \A t \in Scan, d \in Certificate : enrolled'[t][d] = "claimed" => enrolled[t][d] = "claimed"
      BY <2>1 DEF TypeOK, CreateEnrollment
    <3>. QED  BY <3>1 DEF OnePairing
  <2>2. CASE CodeExpires(s, c)
    <3>1. \A t \in Scan, d \in Certificate : enrolled'[t][d] = "claimed" => enrolled[t][d] = "claimed"
      BY <2>2 DEF TypeOK, CodeExpires
    <3>. QED  BY <3>1 DEF OnePairing
  <2>3. CASE ClaimEnrollment(s, c)
    <3>1. \A t \in Scan, d \in Certificate : enrolled'[t][d] = "claimed"
            => enrolled[t][d] = "claimed" \/ (t = s /\ d = c)
      BY <2>3 DEF TypeOK, ClaimEnrollment
    <3>. QED  BY <2>3, <3>1 DEF OnePairing, ClaimEnrollment
  <2>. QED  BY <2>1, <2>2, <2>3
<1>4. TypeOK'  BY <1>1, <1>2 DEF TypeOK, report, runner
<1>5. OneCompanion' /\ WordIsTrue' /\ RunningIsSignedIn' /\ EndedIsFree'
  BY <1>1 DEF OneCompanion, WordIsTrue, RunningIsSignedIn, EndedIsFree, report, runner
<1>. QED  BY <1>3, <1>4, <1>5

\* A request that is sent leaves its sender where no sign-in is behind it, or
\* says truly that one is.
LEMMA SendStep ==
  ASSUME IInv, NEW r \in Runner, NEW from, NEW k \in Kind, NEW to, Send(r, from, k, to),
         to \in {"asking", "over"} \cup InSession,
         from \notin Before => to \notin Before, k = "running" => to \notin Before
  PROVE  IInv'
<1> USE DEF IInv, Send
<1>1. Request(r, k) \in [by : Runner, kind : Kind]  BY DEF Request
<1>2. TypeOK'  BY <1>1 DEF TypeOK, report
<1>3. \A q \in Runner : place[q] \notin Before => place'[q] \notin Before
  BY DEF TypeOK
<1>4. WordIsTrue'
  <2>. SUFFICES ASSUME NEW q \in Runner, Request(q, "running") \in mail' PROVE place'[q] \notin Before
    BY DEF WordIsTrue
  <2>1. CASE Request(q, "running") \in mail  BY <1>3, <2>1 DEF WordIsTrue
  <2>2. CASE Request(q, "running") = Request(r, k)  BY <2>2 DEF Request, TypeOK
  <2>. QED  BY <2>1, <2>2
<1>5. RunningIsSignedIn'
  BY <1>3 DEF RunningIsSignedIn, Before, report, TypeOK
<1>6. OneCompanion' /\ OnePairing' /\ EndedIsFree'
  BY DEF OneCompanion, OnePairing, EndedIsFree, report
<1>. QED  BY <1>2, <1>4, <1>5, <1>6

\* What a companion may send from where.
LEMMA RunnerSendsStep == ASSUME IInv, NEW r \in Runner, RunnerSends(r) PROVE IInv'
<1> USE DEF Before, InSession, Kind, Status, Paused, Final
<1>1. CASE SignedOut(r)
  <2>1. PICK from \in {"signingIn", "crawling"} : Send(r, from, "authentication_required", "over")
    BY <1>1 DEF SignedOut
  <2>. QED  BY <2>1, SendStep
<1>2. CASE Fails(r)
  <2>1. PICK from \in InSession : Send(r, from, "failed", "over")  BY <1>2 DEF Fails
  <2>. QED  BY <2>1, SendStep
<1>3. CASE Interrupted(r)
  <2>1. PICK from \in InSession : Send(r, from, "interrupted", "over")  BY <1>3 DEF Interrupted
  <2>. QED  BY <2>1, SendStep
<1>4. CASE Send(r, "idle", "work", "asking")  BY <1>4, SendStep
<1>5. CASE Send(r, "handed", "awaiting_authentication", "opening")  BY <1>5, SendStep
<1>6. CASE Send(r, "signingIn", "running", "starting")  BY <1>6, SendStep
<1>7. CASE Send(r, "crawling", "completed", "finishing")  BY <1>7, SendStep
<1>. QED  BY <1>1, <1>2, <1>3, <1>4, <1>5, <1>6, <1>7 DEF RunnerSends

\* A companion that ends, a request admitted or lost, a lease or evidence that
\* expires: none gives anybody a lease or a report another state.
LEMMA QuietStep ==
  ASSUME IInv,
         \/ \E r \in Runner : Dies(r) \/ AdmitWork(r)
         \/ \E s \in Scan : LeaseLapses(s) \/ Expires(s)
         \/ Lost
  PROVE  IInv'
<1> USE DEF IInv
<1>1. /\ UNCHANGED <<protection, lease, enrolled, scanOf, certOf>>
      /\ mail' \subseteq mail
      /\ \A r \in Runner : place'[r] # place[r] => place'[r] = "over"
      /\ place' \in [Runner -> {"idle", "asking", "over"} \cup InSession]
  BY DEF Dies, AdmitWork, LeaseLapses, Expires, Lost, report, runner, TypeOK
<1>2. /\ lapsed' \subseteq {s \in Scan : lease[s] # NoRunner} /\ retained' \subseteq Scan
      /\ admitted' \subseteq Runner
  BY DEF Dies, AdmitWork, LeaseLapses, Expires, Lost, report, runner, TypeOK
<1>3. TypeOK'  BY <1>1, <1>2 DEF TypeOK
<1>4. WordIsTrue'  BY <1>1 DEF WordIsTrue, Before
<1>5. RunningIsSignedIn'  BY <1>1 DEF RunningIsSignedIn, TypeOK
<1>6. OneCompanion' /\ OnePairing' /\ EndedIsFree'
  BY <1>1 DEF OneCompanion, OnePairing, EndedIsFree
<1>. QED  BY <1>3, <1>4, <1>5, <1>6

-----------------------------------------------------------------------------
(* Actions that move leases *)

\* Taking back what has lapsed leaves no report running without a lease.
LEMMA RecoverFacts ==
  ASSUME IInv, Recover
  PROVE  /\ protection' \in [Scan -> Status]
         /\ \A s \in Scan : protection'[s] = "running" => protection[s] = "running" /\ s \notin Stale
         /\ \A s \in Scan : protection[s] \in Final <=> protection'[s] \in Final
         /\ \A s \in Scan : protection[s] \in Final => protection'[s] = protection[s]
         /\ lapsed' = {}
<1>1. \A s \in Scan : protection'[s] = (IF s \in Stale /\ protection[s] \in {"awaiting_authentication", "running"}
                                        THEN "interrupted" ELSE protection[s])
  BY DEF Recover
<1>2. lapsed' = {}  BY DEF Recover, Stale, IInv, TypeOK
<1>. QED  BY <1>1, <1>2 DEF Recover, IInv, TypeOK, Status, Paused, Final

\* The retention worker takes back every lease that has lapsed.
LEMMA RetentionStep == ASSUME IInv, RetentionWorker PROVE IInv'
<1> USE DEF IInv, RetentionWorker
<1>1. /\ protection' \in [Scan -> Status] /\ lapsed' = {}
      /\ \A s \in Scan : protection'[s] = "running" => protection[s] = "running" /\ s \notin Stale
      /\ \A s \in Scan : protection[s] \in Final <=> protection'[s] \in Final
  BY RecoverFacts
<1>2. TypeOK'  BY <1>1 DEF TypeOK, runner
<1>3. OneCompanion'  BY DEF OneCompanion
<1>4. RunningIsSignedIn'  BY <1>1 DEF RunningIsSignedIn, runner
<1>5. EndedIsFree'  BY <1>1 DEF EndedIsFree
<1>6. OnePairing' /\ WordIsTrue'  BY DEF OnePairing, WordIsTrue, runner
<1>. QED  BY <1>2, <1>3, <1>4, <1>5, <1>6

\* A companion is given a lease when nobody has one that counts, and the report
\* it is given is not running.
LEMMA GiveWorkStep == ASSUME IInv, NEW r \in Runner, GiveWork(r) PROVE IInv'
<1> USE DEF IInv
<1>1. Recover /\ UNCHANGED <<retained, enrolled, scanOf, certOf>>
      /\ admitted' = admitted \ {r} /\ mail' = mail \ {Request(r, "work")}
  BY DEF GiveWork
<1>2. /\ protection' \in [Scan -> Status] /\ lapsed' = {}
      /\ \A s \in Scan : protection'[s] = "running" => protection[s] = "running" /\ s \notin Stale
      /\ \A s \in Scan : protection[s] \in Final <=> protection'[s] \in Final
  BY <1>1, RecoverFacts
<1>3. scanOf[r] \in Scan  BY DEF TypeOK
<1>4. place' = place \/ (place[r] = "asking" /\ place' = [place EXCEPT ![r] = "handed"])
  BY DEF GiveWork, Accepted, Waits, Proceeds
<1>5. \A q \in Runner : place[q] \notin Before => place'[q] \notin Before
  BY <1>4 DEF Before, TypeOK
<1>6. \/ /\ protection'[scanOf[r]] \in Paused /\ Free(scanOf[r])
         /\ lease' = [t \in Scan |-> IF t = scanOf[r] THEN r ELSE IF t \in Stale THEN NoRunner ELSE lease[t]]
      \/ lease' = [t \in Scan |-> IF t \in Stale THEN NoRunner ELSE lease[t]]
  BY DEF GiveWork
<1>7. TypeOK'
  <2>1. place' \in [Runner -> {"idle", "asking", "over"} \cup InSession]
    BY <1>4 DEF TypeOK, InSession
  <2>2. lease' \in [Scan -> Runner \cup {NoRunner}]  BY <1>6 DEF TypeOK
  <2>. QED  BY <1>1, <1>2, <2>1, <2>2 DEF TypeOK
<1>8. OneCompanion'
  <2>1. CASE Free(scanOf[r]) /\ lease' = [t \in Scan |-> IF t = scanOf[r] THEN r
                                           ELSE IF t \in Stale THEN NoRunner ELSE lease[t]]
    BY <2>1 DEF OneCompanion, Free
  <2>2. CASE lease' = [t \in Scan |-> IF t \in Stale THEN NoRunner ELSE lease[t]]
    BY <2>2 DEF OneCompanion
  <2>. QED  BY <1>6, <2>1, <2>2
<1>9. RunningIsSignedIn'
  <2>. SUFFICES ASSUME NEW s \in Scan, protection'[s] = "running"
                PROVE lease'[s] # NoRunner /\ place'[lease'[s]] \notin Before
    BY DEF RunningIsSignedIn, Before
  <2>1. lease[s] # NoRunner /\ place[lease[s]] \notin Before /\ s \notin Stale
    BY <1>2 DEF RunningIsSignedIn, Before
  <2>2. lease'[s] = lease[s]  BY <1>6, <2>1 DEF Paused
  <2>3. lease[s] \in Runner  BY <2>1 DEF TypeOK
  <2>. QED  BY <1>5, <2>1, <2>2, <2>3
<1>10. EndedIsFree'  BY <1>2, <1>6 DEF EndedIsFree, Paused, Final
<1>11. WordIsTrue'  BY <1>1, <1>5 DEF WordIsTrue
<1>12. OnePairing'  BY <1>1 DEF OnePairing
<1>. QED  BY <1>7, <1>8, <1>9, <1>10, <1>11, <1>12

\* An event moves a report only for the one that has its lease, and a report that
\* ends gives its lease back.
LEMMA ServeStep == ASSUME IInv, NEW m \in mail, Serve(m) PROVE IInv'
<1> DEFINE r == m.by  s == scanOf[m.by]
<1> USE DEF IInv
<1>1. r \in Runner /\ s \in Scan /\ m = Request(r, m.kind)  BY DEF TypeOK, Request
<1>2. mail' \subseteq mail /\ UNCHANGED <<retained, enrolled, scanOf, certOf, admitted>>
  BY DEF Serve
<1>3. CASE UNCHANGED <<report, place>>
  BY <1>2, <1>3 DEF report, TypeOK, OneCompanion, OnePairing, WordIsTrue, RunningIsSignedIn, EndedIsFree
<1>4. CASE /\ Holds(r) /\ m.kind \in Allowed[protection[s]] /\ SetStatus(s, m.kind)
           /\ Accepted(r, m.kind)
  <2>1. lease[s] = r /\ s \notin lapsed /\ lease[s] # NoRunner
    BY <1>1, <1>4, CompanionsAssumption DEF Holds
  <2>2. \A t \in Scan : t # s => lease[t] = NoRunner  BY <1>1, <2>1 DEF OneCompanion
  <2>3. m.kind \in Status
    BY <1>1, <1>4 DEF Allowed, TypeOK, Status, Paused, Final
  <2>4. /\ \A q \in Runner : place[q] \notin Before => place'[q] \notin Before
        /\ place' \in [Runner -> {"idle", "asking", "over"} \cup InSession]
    <3>1. CASE UNCHANGED place  BY <3>1 DEF TypeOK
    <3>2. CASE /\ place[r] \in DOMAIN Waits
               /\ place' = [place EXCEPT ![r] = Proceeds[place[r]]]
      BY <1>1, <3>2 DEF TypeOK, Before, Waits, Proceeds, InSession
    <3>. QED  BY <1>4, <3>1, <3>2 DEF Accepted
  <2>5. /\ protection' = [protection EXCEPT ![s] = m.kind] /\ lapsed' = lapsed
        /\ lease' = IF Releases(m.kind) THEN [lease EXCEPT ![s] = NoRunner] ELSE lease
    <3>1. lapsed \ {s} = lapsed  BY <2>1
    <3>. QED  BY <1>4, <3>1 DEF SetStatus
  <2>6. TypeOK'  BY <1>1, <1>2, <2>1, <2>3, <2>4, <2>5 DEF TypeOK
  <2>7. OneCompanion'  BY <1>1, <2>2, <2>5 DEF OneCompanion, TypeOK
  <2>8. WordIsTrue'  BY <1>2, <2>4 DEF WordIsTrue
  <2>9. RunningIsSignedIn'
    <3>. SUFFICES ASSUME NEW t \in Scan, protection'[t] = "running"
                  PROVE lease'[t] # NoRunner /\ place'[lease'[t]] \notin Before
      BY DEF RunningIsSignedIn, Before
    <3>1. CASE t = s
      <4>1. m.kind = "running"  BY <1>1, <2>5, <3>1 DEF TypeOK
      <4>2. place[r] \notin Before  BY <1>1, <4>1 DEF WordIsTrue
      <4>3. lease'[s] = r  BY <2>1, <2>5, <4>1 DEF Releases, Final
      <4>. QED  BY <1>1, <2>1, <2>4, <3>1, <4>2, <4>3
    <3>2. CASE t # s
      <4>1. protection[t] = "running"  BY <1>1, <2>5, <3>2 DEF TypeOK
      <4>. QED  BY <2>2, <3>2, <4>1 DEF RunningIsSignedIn
    <3>. QED  BY <3>1, <3>2
  <2>10. EndedIsFree'  BY <1>1, <2>2, <2>5 DEF EndedIsFree, Releases, TypeOK
  <2>11. OnePairing'  BY <1>2 DEF OnePairing
  <2>. QED  BY <2>6, <2>7, <2>8, <2>9, <2>10, <2>11
<1>. QED  BY <1>3, <1>4 DEF Serve, Accepts

\* A stop leaves nobody with the lease or an enrollment of the report.
LEMMA StopStep == ASSUME IInv, NEW s \in Scan, Stop(s) PROVE IInv'
<1> USE DEF IInv, Stop
<1>1. enrolled' \in [Scan -> [Certificate -> {"none", "pending", "claimed", "over"}]]
  BY DEF TypeOK
<1>2. TypeOK'  BY <1>1 DEF TypeOK, Status, Paused, runner
<1>3. \A t \in Scan, c \in Certificate : enrolled'[t][c] = "claimed" => enrolled[t][c] = "claimed"
  BY DEF TypeOK
<1>4. OnePairing'  BY <1>3 DEF OnePairing
<1>5. OneCompanion' /\ EndedIsFree'  BY DEF OneCompanion, EndedIsFree, Final, TypeOK
<1>6. RunningIsSignedIn'  BY DEF RunningIsSignedIn, TypeOK, runner
<1>7. WordIsTrue'  BY DEF WordIsTrue, runner
<1>. QED  BY <1>2, <1>4, <1>5, <1>6, <1>7

\* A start leaves no report leased and none running.
LEMMA RestartStep == ASSUME IInv, Restart PROVE IInv'
<1> USE DEF IInv, Restart
<1>1. TypeOK'  BY DEF TypeOK, Status, Paused, runner
<1>2. OneCompanion' /\ EndedIsFree' /\ OnePairing'  BY DEF OneCompanion, EndedIsFree, OnePairing
<1>3. RunningIsSignedIn'  BY DEF RunningIsSignedIn, TypeOK
<1>4. WordIsTrue'  BY DEF WordIsTrue, runner
<1>. QED  BY <1>1, <1>2, <1>3, <1>4

-----------------------------------------------------------------------------
(* Theorems *)

\* No report has been run yet.
LEMMA InitHolds == ASSUME Init PROVE IInv
<1> USE DEF Init
<1>1. TypeOK  BY DEF TypeOK, Status, Paused
<1>2. OneCompanion /\ OnePairing /\ WordIsTrue /\ RunningIsSignedIn /\ EndedIsFree
  BY DEF OneCompanion, OnePairing, WordIsTrue, RunningIsSignedIn, EndedIsFree, Final
<1>. QED  BY <1>1, <1>2 DEF IInv

\* Every step keeps the invariant.
LEMMA NextHolds == ASSUME IInv, [Next]_vars PROVE IInv'
<1>1. CASE \E s \in Scan, c \in Certificate :
             CreateEnrollment(s, c) \/ CodeExpires(s, c) \/ ClaimEnrollment(s, c)
  BY <1>1, EnrollmentStep
<1>2. CASE \E r \in Runner : RunnerSends(r) \/ GiveWork(r)  BY <1>2, RunnerSendsStep, GiveWorkStep
<1>3. CASE \/ \E r \in Runner : Dies(r) \/ AdmitWork(r)
           \/ \E s \in Scan : LeaseLapses(s) \/ Expires(s)
           \/ Lost
  BY <1>3, QuietStep
<1>4. CASE \E m \in mail : Serve(m)  BY <1>4, ServeStep
<1>5. CASE \E s \in Scan : Stop(s)  BY <1>5, StopStep
<1>6. CASE RetentionWorker  BY <1>6, RetentionStep
<1>7. CASE Restart  BY <1>7, RestartStep
<1>8. CASE UNCHANGED vars
  BY <1>8 DEF IInv, vars, report, runner, TypeOK, OneCompanion, OnePairing, WordIsTrue,
    RunningIsSignedIn, EndedIsFree
<1>. QED  BY <1>1, <1>2, <1>3, <1>4, <1>5, <1>6, <1>7, <1>8 DEF Next

\* The invariant holds throughout.
THEOREM Invariant == Spec => []IInv
<1>. QED  BY InitHolds, NextHolds, PTL DEF Spec

\* The columns of the tables and the state of the companions keep their types; a
\* lease without a holder has no deadline.
THEOREM TypeCorrect == Spec => []TypeOK
<1>1. IInv => TypeOK  BY DEF IInv
<1>. QED  BY <1>1, Invariant, PTL

\* However many reports and companions there are, at most one companion is given
\* a protected report at a time.
THEOREM OneCompanionCorrect == Spec => []OneCompanion
<1>1. IInv => OneCompanion  BY DEF IInv
<1>. QED  BY <1>1, Invariant, PTL

\* A report runs only for a companion that has its lease and has signed in,
\* however late the requests of earlier ones arrive.
THEOREM RunningIsSignedInCorrect == Spec => []RunningIsSignedIn
<1>1. IInv => RunningIsSignedIn  BY DEF IInv
<1>. QED  BY <1>1, Invariant, PTL

\* A companion is bound to one report, and a report to one companion.
THEOREM OnePairingCorrect == Spec => []OnePairing
<1>1. IInv => OnePairing  BY DEF IInv
<1>. QED  BY <1>1, Invariant, PTL

\* Leases and pairings are exclusive, over all reports and companions.
THEOREM AloneCorrect == Spec => []Alone
<1>. QED  BY OneCompanionCorrect, OnePairingCorrect, PTL DEF Alone

\* Nothing moves a report that has ended: its lease is gone, so no event of a
\* companion counts, and neither a stop nor a recovery nor a start touches it.
THEOREM FinalStaysCorrect == Spec => FinalStays
<1>1. ASSUME IInv, [Next]_vars, NEW s \in Scan, protection[s] \in Final
      PROVE  protection'[s] = protection[s]
  <2> USE <1>1
  <2>1. CASE \E r \in Runner : GiveWork(r)
    <3>1. Recover  BY <2>1 DEF GiveWork
    <3>. QED  BY <3>1, RecoverFacts
  <2>2. CASE RetentionWorker
    <3>1. Recover  BY <2>2 DEF RetentionWorker
    <3>. QED  BY <3>1, RecoverFacts
  <2>3. CASE \E m \in mail : Serve(m)
    <3>1. PICK m \in mail : Serve(m)  BY <2>3
    <3>2. m.by \in Runner /\ scanOf[m.by] \in Scan  BY DEF IInv, TypeOK
    <3>3. CASE UNCHANGED report  BY <3>3 DEF report
    <3>4. CASE Holds(m.by) /\ SetStatus(scanOf[m.by], m.kind)
      <4>1. lease[scanOf[m.by]] # NoRunner  BY <3>2, <3>4, CompanionsAssumption DEF Holds
      <4>2. scanOf[m.by] # s  BY <4>1 DEF IInv, EndedIsFree
      <4>. QED  BY <3>2, <3>4, <4>2 DEF SetStatus, IInv, TypeOK
    <3>. QED  BY <3>1, <3>3, <3>4 DEF Serve
  <2>4. CASE \E t \in Scan : Stop(t)  BY <2>4 DEF Stop, IInv, TypeOK
  <2>5. CASE Restart  BY <2>5 DEF Restart, Final, IInv, EndedIsFree
  <2>6. CASE UNCHANGED protection  BY <2>6
  <2>7. CASE \E t \in Scan, c \in Certificate :
               CreateEnrollment(t, c) \/ CodeExpires(t, c) \/ ClaimEnrollment(t, c)
    BY <2>7 DEF CreateEnrollment, CodeExpires, ClaimEnrollment, report
  <2>8. CASE \E r \in Runner : RunnerSends(r) \/ Dies(r) \/ AdmitWork(r)
    BY <2>8 DEF RunnerSends, SignedOut, Fails, Interrupted, Send, Dies, AdmitWork, report
  <2>9. CASE Lost \/ \E t \in Scan : LeaseLapses(t) \/ Expires(t)
    BY <2>9 DEF Lost, LeaseLapses, Expires, report
  <2>. QED  BY <2>1, <2>2, <2>3, <2>4, <2>5, <2>6, <2>7, <2>8, <2>9 DEF Next, vars, report
<1>2. IInv /\ [Next]_vars => (\A s \in Scan : protection[s] \in Final => protection'[s] = protection[s])
  BY <1>1
<1>. QED  BY <1>2, Invariant, PTL DEF Spec, FinalStays

-----------------------------------------------------------------------------
(* The leases are tenures *)

\* A request for work that was admitted is still there, and whoever asked is not
\* about to ask.
Asked ==
  /\ \A r \in admitted : Request(r, "work") \in mail
  /\ \A r \in Runner : Request(r, "work") \in mail => place[r] # "idle"

\* Requests are told apart by their runner and their kind.
LEMMA RequestsDiffer ==
  ASSUME NEW r, NEW q, NEW k, NEW j, Request(r, k) = Request(q, j)
  PROVE  r = q /\ k = j
<1>. QED  BY DEF Request

\* Nobody goes back to where it has not asked yet.
LEMMA NobodyReturns ==
  ASSUME TypeOK, [Next]_vars, NEW r \in Runner, place[r] # "idle"
  PROVE  place'[r] # "idle"
<1>1. CASE \E q \in Runner : RunnerSends(q)
  BY <1>1 DEF RunnerSends, SignedOut, Fails, Interrupted, Send, TypeOK
<1>2. CASE \E q \in Runner : Dies(q)  BY <1>2 DEF Dies, TypeOK
<1>3. CASE \E q \in Runner, k \in Kind : Accepted(q, k)
  BY <1>3 DEF Accepted, Waits, Proceeds, TypeOK
<1>4. CASE UNCHANGED place  BY <1>4
<1>5. CASE \E q \in Runner : GiveWork(q)
  BY <1>3, <1>4, <1>5 DEF GiveWork, Kind
<1>6. CASE \E m \in mail : Serve(m)
  <2>1. PICK m \in mail : Serve(m)  BY <1>6
  <2>2. m.by \in Runner /\ m.kind \in Kind  BY DEF TypeOK
  <2>. QED  BY <1>3, <1>4, <2>1, <2>2 DEF Serve
<1>. QED
  BY <1>1, <1>2, <1>4, <1>5, <1>6
  DEF Next, CreateEnrollment, CodeExpires, ClaimEnrollment, AdmitWork, Lost, RetentionWorker,
      Restart, LeaseLapses, Stop, Expires, vars, runner

\* A request for work comes only from a runner that has not asked yet.
LEMMA SendAsks ==
  ASSUME TypeOK, NEW r \in Runner, RunnerSends(r), NEW q \in Runner,
         Request(q, "work") \in mail', Request(q, "work") \notin mail
  PROVE  q = r /\ place[r] = "idle" /\ place'[r] = "asking"
<1>1. CASE Send(r, "idle", "work", "asking")
  BY <1>1, RequestsDiffer DEF Send, TypeOK
<1>2. ASSUME NEW from, NEW k, NEW to, Send(r, from, k, to), k # "work"
      PROVE  FALSE
  BY <1>2, RequestsDiffer DEF Send
<1>. QED  BY <1>1, <1>2 DEF RunnerSends, SignedOut, Fails, Interrupted

\* The invariant of the requests for work is kept.
LEMMA AskedStep == ASSUME TypeOK, Asked, [Next]_vars PROVE Asked'
<1>1. ASSUME NEW r \in Runner, Request(r, "work") \in mail' PROVE place'[r] # "idle"
  <2>1. CASE Request(r, "work") \in mail  BY <2>1, NobodyReturns DEF Asked
  <2>2. CASE \E q \in Runner : RunnerSends(q) /\ Request(r, "work") \notin mail
    BY <1>1, <2>2, SendAsks
  <2>3. CASE mail' \subseteq mail  BY <1>1, <2>1, <2>3
  <2>. QED
    BY <2>1, <2>2, <2>3
    DEF Next, CreateEnrollment, CodeExpires, ClaimEnrollment, Dies, AdmitWork, GiveWork, Serve,
        Lost, RetentionWorker, Restart, LeaseLapses, Stop, Expires, vars
<1>2. ASSUME NEW r \in admitted' PROVE Request(r, "work") \in mail'
  <2>1. CASE mail \subseteq mail' /\ admitted' = admitted  BY <1>2, <2>1 DEF Asked
  <2>2. CASE \E q \in Runner : RunnerSends(q)
    BY <2>1, <2>2 DEF RunnerSends, SignedOut, Fails, Interrupted, Send
  <2>3. CASE \E q \in Runner : AdmitWork(q)  BY <1>2, <2>3 DEF AdmitWork, Asked
  <2>4. CASE \E q \in Runner : GiveWork(q)
    <3>1. PICK q \in Runner : GiveWork(q)  BY <2>4
    <3>2. r \in admitted /\ r # q /\ mail' = mail \ {Request(q, "work")}  BY <1>2, <3>1 DEF GiveWork
    <3>. QED  BY <3>2, RequestsDiffer DEF Asked
  <2>5. CASE \E m \in mail : Serve(m)
    BY <1>2, <2>5 DEF Serve, Asked, Request
  <2>6. CASE Lost
    <3>1. PICK m \in mail : mail' = mail \ {m} /\ (m.kind = "work" => m.by \notin admitted)
      BY <2>6 DEF Lost
    <3>2. r \in admitted  BY <1>2, <2>6 DEF Lost
    <3>. QED  BY <3>1, <3>2 DEF Asked, Request
  <2>7. CASE Restart  BY <1>2, <2>7 DEF Restart
  <2>. QED
    BY <2>1, <2>2, <2>3, <2>4, <2>5, <2>6, <2>7
    DEF Next, CreateEnrollment, CodeExpires, ClaimEnrollment, Dies, RetentionWorker,
        LeaseLapses, Stop, Expires, vars
<1>. QED  BY <1>1, <1>2 DEF Asked

\* When nothing but codes, the retention, the deadlines or a companion's own place
\* changes, and nobody who might get a report appears or disappears, the tenures
\* do not change.
LEMMA TenuresStay ==
  ASSUME UNCHANGED <<protection, lease>>, Fresh' = Fresh
  PROVE  UNCHANGED Leases!tenures
<1>. QED  BY DEF Leases!tenures, Tenure, Reported

\* Leases that end take the running reports with them, and change nothing of those
\* that have ended.
LEMMA TenuresEnd ==
  ASSUME IInv, NEW T \in SUBSET Scan, Fresh' \subseteq Fresh,
         lease' = [s \in Scan |-> IF s \in T THEN NoRunner ELSE lease[s]],
         protection' \in [Scan -> Status],
         \A s \in Scan : protection'[s] = "running" <=> protection[s] = "running" /\ s \notin T,
         \A s \in Scan : protection[s] \in Final \/ protection'[s] \in Final
                           => protection'[s] = protection[s]
  PROVE  Leases!Withdraw
<1>1. Tenure' \subseteq Tenure  BY CompanionsAssumption DEF Tenure
<1>2. Reported("running")' = {s \in Reported("running") : \E r \in Runner : <<s, r>> \in Tenure'}
  <2>1. ASSUME NEW s \in Scan, protection'[s] = "running"
        PROVE  protection[s] = "running" /\ \E r \in Runner : <<s, r>> \in Tenure'
    <3>1. protection[s] = "running" /\ s \notin T /\ lease[s] # NoRunner
      BY <2>1 DEF IInv, RunningIsSignedIn
    <3>2. lease[s] \in Runner /\ lease'[s] = lease[s]  BY <3>1 DEF IInv, TypeOK
    <3>. QED  BY <3>1, <3>2 DEF Tenure
  <2>2. ASSUME NEW s \in Scan, protection[s] = "running", NEW r \in Runner, <<s, r>> \in Tenure'
        PROVE  protection'[s] = "running"
    <3>1. lease'[s] = r  BY <2>2 DEF Tenure
    <3>2. s \notin T  BY <3>1, CompanionsAssumption
    <3>. QED  BY <2>2, <3>2
  <2>. QED  BY <2>1, <2>2 DEF Reported
<1>3. Reported("completed")' = Reported("completed") /\ Reported("failed")' = Reported("failed")
  BY DEF Reported, Final
<1>. QED  BY <1>1, <1>2, <1>3 DEF Leases!Withdraw

\* A companion that is handed a report was not handed one before, and everybody
\* else has lost theirs; one that is refused will not ask again.
LEMMA GiveWorkIsTenure ==
  ASSUME IInv, Asked, NEW r \in Runner, GiveWork(r)
  PROVE  Leases!Next
<1> DEFINE s == scanOf[r]
<1>1. s \in Scan /\ Request(r, "work") \in mail /\ r \in Fresh
  BY DEF GiveWork, Asked, IInv, TypeOK, Fresh
<1>2. Fresh' = Fresh \ {r}
  <2>1. mail' = mail \ {Request(r, "work")}  BY DEF GiveWork
  <2>2. place' = place \/ (place[r] = "asking" /\ place' = [place EXCEPT ![r] = "handed"])
    BY DEF GiveWork, Accepted, Waits, Proceeds
  <2>3. \A q \in Runner : place'[q] = "idle" <=> place[q] = "idle"
    BY <2>2 DEF IInv, TypeOK
  <2>4. place[r] # "idle"  BY <1>1 DEF Asked
  <2>5. \A q \in Runner : Request(q, "work") \in mail' <=> Request(q, "work") \in mail /\ q # r
    BY <2>1, RequestsDiffer
  <2>. QED  BY <2>3, <2>4, <2>5 DEF Fresh
<1>3. /\ protection' \in [Scan -> Status]
      /\ \A t \in Scan : protection[t] \in Final <=> protection'[t] \in Final
      /\ \A t \in Scan : protection[t] \in Final => protection'[t] = protection[t]
      /\ \A t \in Scan : protection'[t] = "running" <=> protection[t] = "running" /\ t \notin Stale
  BY RecoverFacts DEF GiveWork, Recover
<1>4. CASE /\ protection'[s] \in Paused /\ Free(s)
           /\ lease' = [t \in Scan |-> IF t = s THEN r ELSE IF t \in Stale THEN NoRunner ELSE lease[t]]
  <2>1. \A t \in Scan : t # s => lease'[t] = NoRunner  BY <1>4 DEF Free
  <2>2. Tenure' = {<<s, r>>}
    <3>1. \A t \in Scan, q \in Runner : lease'[t] = q <=> t = s /\ q = r
      BY <1>1, <1>4, <2>1, CompanionsAssumption
    <3>. QED  BY <1>1, <3>1 DEF Tenure
  <2>3. \A t \in Scan : protection'[t] # "running"
    <3>1. \A t \in Scan : protection[t] = "running" => t \in Stale
      BY <1>4 DEF Free, IInv, RunningIsSignedIn
    <3>. QED  BY <1>3, <3>1
  <2>4. Reported("running")' = {}  BY <2>3 DEF Reported
  <2>5. s \notin Reported("completed") \cup Reported("failed")
    BY <1>1, <1>3, <1>4 DEF Reported, Final, Paused
  <2>6. UNCHANGED <<Reported("completed"), Reported("failed")>>
    BY <1>3 DEF Reported, Final
  <2>7. Leases!Give(s, r)
    BY <1>1, <1>2, <2>2, <2>4, <2>5, <2>6 DEF Leases!Give, Leases!Ended
  <2>. QED  BY <1>1, <2>7 DEF Leases!Next
<1>5. CASE lease' = [t \in Scan |-> IF t \in Stale THEN NoRunner ELSE lease[t]]
  <2>1. Leases!Withdraw
    BY <1>2, <1>3, <1>5, TenuresEnd DEF Stale
  <2>. QED  BY <2>1 DEF Leases!Next
<1>. QED  BY <1>4, <1>5 DEF GiveWork

\* An event that counts is its lease holder's: it starts the report, ends it, or
\* gives the lease back.
LEMMA ServeIsTenure ==
  ASSUME IInv, Asked, NEW m \in mail, Serve(m)
  PROVE  [Leases!Next]_(Leases!tenures)
<1> DEFINE r == m.by  s == scanOf[m.by]  k == m.kind
<1>1. r \in Runner /\ s \in Scan /\ k \in Kind /\ k # "work" /\ m = Request(r, k)
  BY DEF IInv, TypeOK, Serve, Request
<1>2. Fresh' = Fresh
  <2>1. \A q \in Runner : Request(q, "work") \in mail' <=> Request(q, "work") \in mail
    BY <1>1, RequestsDiffer DEF Serve
  <2>2. \A q \in Runner : place'[q] = "idle" <=> place[q] = "idle"
    BY <1>1 DEF Serve, Accepted, Waits, Proceeds, IInv, TypeOK
  <2>. QED  BY <2>1, <2>2 DEF Fresh
<1>3. CASE UNCHANGED report
  BY <1>2, <1>3, TenuresStay DEF report
<1>4. CASE Holds(r) /\ k \in Allowed[protection[s]] /\ SetStatus(s, k)
  <2>1. lease[s] = r /\ s \notin lapsed /\ <<s, r>> \in Tenure
    BY <1>1, <1>4 DEF Holds, Tenure
  <2>2. protection[s] \in Status \ Final
    BY <1>1, <2>1, CompanionsAssumption DEF IInv, EndedIsFree, TypeOK
  <2>3. protection' = [protection EXCEPT ![s] = k]
        /\ lease' = IF Releases(k) THEN [lease EXCEPT ![s] = NoRunner] ELSE lease
    BY <1>4 DEF SetStatus
  <2>4. protection \in [Scan -> Status] /\ lease \in [Scan -> Runner \cup {NoRunner}]
    BY DEF IInv, TypeOK
  <2>5. CASE k = "awaiting_authentication"
    <3>1. protection[s] # "running" /\ lease' = lease
      BY <1>4, <2>3, <2>5 DEF Allowed, Releases, Final
    <3>2. \A j \in {"running", "completed", "failed"} : Reported(j)' = Reported(j)
      BY <2>2, <2>3, <2>4, <2>5, <3>1 DEF Reported, Final
    <3>3. Tenure' = Tenure  BY <3>1 DEF Tenure
    <3>. QED  BY <1>2, <3>2, <3>3 DEF Leases!tenures
  <2>6. CASE k = "running"
    <3>1. protection[s] # "running" /\ lease' = lease
      BY <1>4, <2>3, <2>6 DEF Allowed, Releases, Final
    <3>2. Tenure' = Tenure  BY <3>1 DEF Tenure
    <3>3. Reported("running")' = Reported("running") \cup {s} /\ s \notin Reported("running")
      BY <1>1, <2>3, <2>4, <2>6, <3>1 DEF Reported
    <3>4. Reported("completed")' = Reported("completed") /\ Reported("failed")' = Reported("failed")
      BY <2>2, <2>3, <2>4, <2>6 DEF Reported, Final
    <3>5. Leases!Start(s, r)  BY <1>2, <2>1, <3>2, <3>3, <3>4 DEF Leases!Start
    <3>. QED  BY <1>1, <3>5 DEF Leases!Next
  <2>7. CASE k \in Final
    <3>1. lease' = [lease EXCEPT ![s] = NoRunner]  BY <2>3, <2>7 DEF Releases
    <3>2. Tenure' = Tenure \ {<<s, r>>}
      <4>1. \A t \in Scan, q \in Runner : lease'[t] = q <=> lease[t] = q /\ t # s
        BY <1>1, <2>4, <3>1, CompanionsAssumption
      <4>2. Tenure' = {p \in Scan \X Runner : lease[p[1]] = p[2] /\ p[1] # s}
        BY <4>1 DEF Tenure
      <4>. QED  BY <2>1, <4>2 DEF Tenure
    <3>3. Reported("running")' = Reported("running") \ {s}
      BY <1>1, <2>3, <2>4, <2>7 DEF Reported, Final
    <3>4. CASE k = "completed"
      <4>1. s \in Reported("running")
        BY <1>1, <1>4, <2>2, <3>4 DEF Allowed, Reported, Status, Paused, Final
      <4>2. Reported("completed")' = Reported("completed") \cup {s}
        BY <1>1, <2>3, <2>4, <3>4 DEF Reported
      <4>3. Reported("failed")' = Reported("failed")
        BY <2>2, <2>3, <2>4, <3>4 DEF Reported, Final
      <4>4. Leases!Finish(s, r)
        BY <1>2, <2>1, <3>2, <3>3, <4>1, <4>2, <4>3 DEF Leases!Finish
      <4>. QED  BY <1>1, <4>4 DEF Leases!Next
    <3>5. CASE k = "failed"
      <4>1. Reported("failed")' = Reported("failed") \cup {s}
        BY <1>1, <2>3, <2>4, <3>5 DEF Reported
      <4>2. Reported("completed")' = Reported("completed")
        BY <2>2, <2>3, <2>4, <3>5 DEF Reported, Final
      <4>3. Leases!Finish(s, r)
        BY <1>2, <2>1, <3>2, <3>3, <4>1, <4>2 DEF Leases!Finish
      <4>. QED  BY <1>1, <4>3 DEF Leases!Next
    <3>. QED  BY <2>7, <3>4, <3>5 DEF Final
  <2>8. CASE k \in {"authentication_required", "interrupted"}
    <3>1. lease' = [t \in Scan |-> IF t \in {s} THEN NoRunner ELSE lease[t]]
      BY <2>3, <2>4, <2>8 DEF Releases
    <3>2. protection' \in [Scan -> Status]  BY <2>3, <2>4, <2>8 DEF Status, Paused
    <3>3. \A t \in Scan : protection'[t] = "running" <=> protection[t] = "running" /\ t \notin {s}
      BY <1>1, <2>3, <2>4, <2>8
    <3>4. \A t \in Scan : protection[t] \in Final \/ protection'[t] \in Final
                            => protection'[t] = protection[t]
      BY <2>2, <2>3, <2>4, <2>8 DEF Final
    <3>5. Leases!Withdraw
      <4>1. {s} \in SUBSET Scan  BY <1>1
      <4>. HIDE DEF s, r, k
      <4>. QED  BY <1>2, <3>1, <3>2, <3>3, <3>4, <4>1, TenuresEnd
    <3>. QED  BY <3>5 DEF Leases!Next
  <2>. QED  BY <1>1, <2>5, <2>6, <2>7, <2>8 DEF Kind, Status, Paused, Final
<1>. QED  BY <1>3, <1>4 DEF Serve, Accepts

\* Every other step ends some leases or leaves them alone.
LEMMA RestIsTenure ==
  ASSUME IInv, Asked, [Next]_vars,
         ~ \E r \in Runner : GiveWork(r), ~ \E m \in mail : Serve(m)
  PROVE  [Leases!Next]_(Leases!tenures)
<1>1. CASE \E r \in Runner : RunnerSends(r)
  <2>1. PICK r \in Runner : RunnerSends(r)  BY <1>1
  <2>2. /\ mail \subseteq mail' /\ UNCHANGED report
        /\ \A q \in Runner : place'[q] = "idle" => place[q] = "idle"
        /\ \A q \in Runner \ {r} : place'[q] = place[q]
    BY <2>1 DEF RunnerSends, SignedOut, Fails, Interrupted, Send, IInv, TypeOK
  <2>3. \A q \in Fresh : q \in Fresh'
    <3>1. CASE Send(r, "idle", "work", "asking")  BY <2>2, <3>1 DEF Send, Fresh
    <3>2. CASE place[r] # "idle"
      <4>1. SUFFICES ASSUME NEW q \in Runner, place[q] = "idle" \/ Request(q, "work") \in mail
                     PROVE  place'[q] = "idle" \/ Request(q, "work") \in mail'
        BY DEF Fresh
      <4>2. CASE Request(q, "work") \in mail  BY <2>2, <4>2
      <4>3. CASE place[q] = "idle"  BY <2>2, <3>2, <4>3
      <4>. QED  BY <4>1, <4>2, <4>3
    <3>. QED
      BY <2>1, <3>1, <3>2 DEF RunnerSends, SignedOut, Fails, Interrupted, Send, InSession
  <2>4. \A q \in Fresh' : q \in Fresh
    <3>1. SUFFICES ASSUME NEW q \in Runner, Request(q, "work") \in mail', Request(q, "work") \notin mail
                   PROVE  place[q] = "idle"
      BY <2>2 DEF Fresh
    <3>. QED  BY <2>1, <3>1, SendAsks DEF IInv
  <2>5. Fresh' = Fresh  BY <2>3, <2>4
  <2>. QED  BY <2>2, <2>5, TenuresStay DEF report
<1>2. CASE \E r \in Runner : Dies(r)
  <2>1. mail' = mail /\ UNCHANGED report /\ \A q \in Runner : place'[q] = "idle" <=> place[q] = "idle"
    BY <1>2 DEF Dies, InSession, IInv, TypeOK
  <2>2. Fresh' = Fresh  BY <2>1 DEF Fresh
  <2>. QED  BY <2>1, <2>2, TenuresStay DEF report
<1>3. CASE UNCHANGED <<protection, lease, place, mail>>
  <2>1. Fresh' = Fresh  BY <1>3 DEF Fresh
  <2>. QED  BY <1>3, <2>1, TenuresStay
<1>4. CASE Lost
  <2>1. mail' \subseteq mail /\ UNCHANGED <<report, place>>  BY <1>4 DEF Lost, runner
  <2>2. Fresh' \subseteq Fresh  BY <2>1 DEF Fresh
  <2>3. lease' = [s \in Scan |-> IF s \in {} THEN NoRunner ELSE lease[s]]
    BY <2>1 DEF report, IInv, TypeOK
  <2>4. protection' \in [Scan -> Status] /\ protection' = protection
    BY <2>1 DEF report, IInv, TypeOK
  <2>5. Leases!Withdraw
    <3>1. {} \in SUBSET Scan  OBVIOUS
    <3>2. /\ \A s \in Scan : protection'[s] = "running" <=> protection[s] = "running" /\ s \notin {}
          /\ \A s \in Scan : protection[s] \in Final \/ protection'[s] \in Final
                               => protection'[s] = protection[s]
      BY <2>4
    <3>. QED  BY <2>2, <2>3, <2>4, <3>1, <3>2, TenuresEnd
  <2>. QED  BY <2>5 DEF Leases!Next
<1>5. CASE RetentionWorker
  <2>1. Fresh' = Fresh  BY <1>5 DEF RetentionWorker, Fresh, runner
  <2>2. /\ protection' \in [Scan -> Status]
        /\ \A t \in Scan : protection[t] \in Final <=> protection'[t] \in Final
        /\ \A t \in Scan : protection[t] \in Final => protection'[t] = protection[t]
        /\ \A t \in Scan : protection'[t] = "running" <=> protection[t] = "running" /\ t \notin Stale
    BY <1>5, RecoverFacts DEF RetentionWorker, Recover
  <2>3. lease' = [t \in Scan |-> IF t \in Stale THEN NoRunner ELSE lease[t]] /\ Stale \in SUBSET Scan
    BY <1>5 DEF RetentionWorker, Stale
  <2>4. Leases!Withdraw  BY <2>1, <2>2, <2>3, TenuresEnd
  <2>. QED  BY <2>4 DEF Leases!Next
<1>6. CASE \E s \in Scan : Stop(s)
  <2>1. PICK s \in Scan : Stop(s)  BY <1>6
  <2>2. Fresh' = Fresh  BY <2>1 DEF Stop, Fresh, runner
  <2>3. protection[s] \notin Final /\ protection' = [protection EXCEPT ![s] = "interrupted"]
    BY <2>1 DEF Stop
  <2>4. lease' = [t \in Scan |-> IF t \in {s} THEN NoRunner ELSE lease[t]] /\ {s} \in SUBSET Scan
    BY <2>1 DEF Stop, IInv, TypeOK
  <2>5. /\ protection' \in [Scan -> Status]
        /\ \A t \in Scan : protection'[t] = "running" <=> protection[t] = "running" /\ t \notin {s}
        /\ \A t \in Scan : protection[t] \in Final \/ protection'[t] \in Final
                             => protection'[t] = protection[t]
    BY <2>3 DEF IInv, TypeOK, Status, Paused, Final
  <2>6. Leases!Withdraw  BY <2>2, <2>4, <2>5, TenuresEnd
  <2>. QED  BY <2>6 DEF Leases!Next
<1>7. CASE Restart
  <2>1. mail' \subseteq mail /\ place' = place  BY <1>7 DEF Restart, runner
  <2>2. Fresh' \subseteq Fresh  BY <2>1 DEF Fresh
  <2>3. lease' = [t \in Scan |-> IF t \in Scan THEN NoRunner ELSE lease[t]]
    BY <1>7 DEF Restart
  <2>4. /\ protection' \in [Scan -> Status]
        /\ \A t \in Scan : protection'[t] = "running" <=> protection[t] = "running" /\ t \notin Scan
        /\ \A t \in Scan : protection[t] \in Final \/ protection'[t] \in Final
                             => protection'[t] = protection[t]
    BY <1>7 DEF Restart, IInv, TypeOK, Status, Paused, Final
  <2>5. Leases!Withdraw  BY <2>2, <2>3, <2>4, TenuresEnd
  <2>. QED  BY <2>5 DEF Leases!Next
<1>. QED
  BY <1>1, <1>2, <1>3, <1>4, <1>5, <1>6, <1>7
  DEF Next, CreateEnrollment, CodeExpires, ClaimEnrollment, AdmitWork, LeaseLapses, Expires,
      vars, report, runner

\* Nobody has a report at first, and everybody may be given one.
LEMMA NoTenureAtFirst == ASSUME Init PROVE Asked /\ Leases!Init
<1> USE DEF Init
<1>1. Tenure = {}  BY CompanionsAssumption DEF Tenure
<1>2. \A k \in {"running", "completed", "failed"} : Reported(k) = {}  BY DEF Reported
<1>3. Fresh = Runner  BY DEF Fresh
<1>4. Asked  BY DEF Asked
<1>. QED  BY <1>1, <1>2, <1>3, <1>4 DEF Leases!Init

\* Protected scans implement the tenures: through lost and late requests, stops,
\* recoveries and restarts, a companion is given at most one report, only the one
\* that has it moves it, and an ended report stays as it is and is given to nobody.
THEOREM TenuresCorrect == Spec => KeepsTenures
<1>1. Init => Asked /\ Leases!Init  BY NoTenureAtFirst
<1>2. IInv /\ Asked /\ [Next]_vars => Asked'  BY AskedStep DEF IInv
<1>3. IInv /\ Asked /\ [Next]_vars => [Leases!Next]_(Leases!tenures)
  BY GiveWorkIsTenure, ServeIsTenure, RestIsTenure
<1>. QED  BY <1>1, <1>2, <1>3, Invariant, PTL DEF Spec, KeepsTenures, Leases!Spec
=============================================================================
