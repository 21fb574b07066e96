------------------------------- MODULE Tenures -------------------------------
(***************************************************************************)
(* What the leases of protected scans promise, without deadlines, codes,   *)
(* requests or restarts.  A runner is given a report at most once, and     *)
(* then all others have lost theirs.  Only the one that has a report       *)
(* starts, completes or fails it; a report runs for as long as it is had   *)
(* and no longer, completes only when it runs, and what has completed or   *)
(* failed stays so and is not given to anybody.                            *)
(***************************************************************************)
CONSTANTS Scan, Runner

VARIABLES
  tenure,            \* who has which report
  running,           \* the reports being crawled
  completed, failed, \* the reports that have ended
  fresh              \* the runners that may yet be given a report

tenures == <<tenure, running, completed, failed, fresh>>

Init ==
  /\ tenure = {} /\ running = {} /\ completed = {} /\ failed = {}
  /\ fresh = Runner

Ended == completed \cup failed

Give(s, r) ==
  /\ r \in fresh /\ s \notin Ended
  /\ tenure' = {<<s, r>>} /\ running' = {} /\ fresh' = fresh \ {r}
  /\ UNCHANGED <<completed, failed>>

\* Reports are taken back, and runners will not be given one any more.
Withdraw ==
  /\ tenure' \subseteq tenure /\ fresh' \subseteq fresh
  /\ running' = {s \in running : \E r \in Runner : <<s, r>> \in tenure'}
  /\ UNCHANGED <<completed, failed>>

Start(s, r) ==
  /\ <<s, r>> \in tenure /\ s \notin running
  /\ running' = running \cup {s}
  /\ UNCHANGED <<tenure, completed, failed, fresh>>

Finish(s, r) ==
  /\ <<s, r>> \in tenure
  /\ tenure' = tenure \ {<<s, r>>} /\ running' = running \ {s}
  /\ \/ s \in running /\ completed' = completed \cup {s} /\ failed' = failed
     \/ failed' = failed \cup {s} /\ completed' = completed
  /\ fresh' = fresh

Next ==
  \/ \E s \in Scan, r \in Runner : Give(s, r) \/ Start(s, r) \/ Finish(s, r)
  \/ Withdraw

Spec == Init /\ [][Next]_tenures
=============================================================================
