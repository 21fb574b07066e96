------------------------------ MODULE Erasure ------------------------------
(***************************************************************************)
(* The end of a protected report: its evidence is erased after the         *)
(* retention deadline, or its owner deletes it                             *)
(* (purge_expired_protected_data and destroy_protected_scan_key in         *)
(* src/audit/protected/repository.py, api_delete_scan in                   *)
(* src/audit/web/server.py, the maintenance command in src/audit/cli.py).  *)
(*                                                                         *)
(* Copies of the database are kept as backups, so that only the            *)
(* destruction of a report's key at the key manager it was encrypted with  *)
(* erases its evidence.  The server's retention worker and the maintenance *)
(* command are two processes; each destroys keys one after the other and   *)
(* then writes the database in one transaction, and each can fail or end   *)
(* between two of these steps.  Which key manager is configured can        *)
(* differ from start to start.                                             *)
(*                                                                         *)
(* MarkFirst is wrong on purpose: a slip of the definition it precedes,    *)
(* kept to show that the property notices it.                              *)
(***************************************************************************)
EXTENDS FiniteSets

CONSTANTS
  PScan,       \* the protected reports
  Kms,         \* the key managers
  Irrevocable, \* those that cannot destroy the key of one report
  NoKms

ASSUME ErasureAssumption == NoKms \notin Kms /\ Irrevocable \subseteq Kms

VARIABLES
  report,   \* "kept", "erased" (evidence_purged_at is set) or "deleted"
  due,      \* the reports that have passed cleanup_at
  stopped,  \* the reports no companion works on: these can be deleted
  keptAt,   \* kms_key_id of each report
  live,     \* the keys that still unwrap: key manager and report
  vault,    \* the key manager each process was configured with at its start
  job,      \* what each process is at
  asked     \* the reports whose owner asked to delete them

erasureVars == <<report, due, stopped, keptAt, live, vault, job, asked>>

Process == {"server", "maintenance"}
Resting == [at |-> "rest", batch |-> {}, left |-> {}]

ErasureTypeOK ==
  /\ report \in [PScan -> {"kept", "erased", "deleted"}]
  /\ due \in SUBSET PScan /\ stopped \in SUBSET PScan /\ asked \in SUBSET PScan
  /\ keptAt \in [PScan -> Kms] /\ live \in SUBSET (Kms \X PScan)
  /\ vault \in [Process -> Kms \cup {NoKms}]
  /\ job \in [Process -> [at : {"rest", "erase", "delete"}, batch : SUBSET PScan, left : SUBSET PScan]]

ErasureInit ==
  /\ report = [s \in PScan |-> "kept"] /\ due = {} /\ stopped \in SUBSET PScan
  /\ keptAt \in [PScan -> Kms] /\ live = {<<keptAt[s], s>> : s \in PScan}
  /\ vault \in [Process -> Kms \cup {NoKms}]
  /\ job = [p \in Process |-> Resting] /\ asked = {}

-----------------------------------------------------------------------------
\* _require_vault_matches_scan_key_id, _require_irreversible_scan_key_destruction:
\* the process may destroy the keys of all of S, or of none.
MayDestroy(p, S) ==
  /\ vault[p] \notin Irrevocable \cup {NoKms}
  /\ \A s \in S : keptAt[s] = vault[p]

Overdue == due # PScan /\ \E s \in PScan \ due : due' = due \cup {s}
            /\ UNCHANGED <<report, stopped, keptAt, live, vault, job, asked>>

\* purge_expired_protected_data: the whole batch is checked before any key is
\* destroyed.
StartErasing(p) ==
  /\ job[p] = Resting
  /\ LET batch == {s \in due : report[s] = "kept"}
     IN /\ batch # {} /\ MayDestroy(p, batch)
        /\ job' = [job EXCEPT ![p] = [at |-> "erase", batch |-> batch, left |-> batch]]
  /\ UNCHANGED <<report, due, stopped, keptAt, live, vault, asked>>

\* api_delete_scan; a report erased before has no key left to destroy.
StartDeleting(s) ==
  /\ job["server"] = Resting /\ s \in stopped /\ report[s] # "deleted"
  /\ vault["server"] # NoKms /\ asked' = asked \cup {s}
  /\ IF report[s] = "erased" \/ MayDestroy("server", {s})
       THEN job' = [job EXCEPT !["server"] =
              [at |-> "delete", batch |-> {s}, left |-> IF report[s] = "erased" THEN {} ELSE {s}]]
       ELSE UNCHANGED job
  /\ UNCHANGED <<report, due, stopped, keptAt, live, vault>>

\* The key manager destroys the key; it does no harm to ask again.
Destroy(p, s) ==
  /\ s \in job[p].left
  /\ live' = live \ {<<vault[p], s>>}
  /\ job' = [job EXCEPT ![p].left = @ \ {s}]
  /\ UNCHANGED <<report, due, stopped, keptAt, vault, asked>>

MarkFirst(p) == job[p].at # "rest"

\* Only when all are destroyed is the database written, in one transaction.  A
\* report of an erasure's batch deleted meanwhile takes it down: an audit event
\* needs its report.
AllDestroyed(p) == job[p].at # "rest" /\ job[p].left = {}

Commit(p) ==
  /\ AllDestroyed(p)
  /\ LET gone == \E s \in job[p].batch : report[s] = "deleted"
         after == IF job[p].at = "delete" THEN "deleted" ELSE "erased"
     IN report' = [s \in PScan |-> IF s \in job[p].batch /\ ~gone THEN after ELSE report[s]]
  /\ job' = [job EXCEPT ![p] = Resting]
  /\ UNCHANGED <<due, stopped, keptAt, live, vault, asked>>

\* The key manager or the database fails, or the process ends; it may start
\* again with another key manager.  The next round takes up what is left.
Fail(p) ==
  /\ job[p] # Resting /\ job' = [job EXCEPT ![p] = Resting]
  /\ UNCHANGED <<report, due, stopped, keptAt, live, vault, asked>>

Restart(p) ==
  /\ job' = [job EXCEPT ![p] = Resting]
  /\ \E k \in Kms \cup {NoKms} : vault' = [vault EXCEPT ![p] = k]
  /\ UNCHANGED <<report, due, stopped, keptAt, live, asked>>

ErasureNext ==
  \/ Overdue \/ \E s \in PScan : StartDeleting(s)
  \/ \E p \in Process :
       \/ StartErasing(p) \/ \E s \in PScan : Destroy(p, s)
       \/ Commit(p) \/ Fail(p) \/ Restart(p)

ErasureSpec == ErasureInit /\ [][ErasureNext]_erasureVars

-----------------------------------------------------------------------------
(* Properties *)

\* The database says that evidence is erased, or forgets its report, only when
\* no backup of it can be decrypted any more (purge_expired_protected_data,
\* api_delete_scan).
GoneIsUnreadable == \A s \in PScan : report[s] # "kept" => <<keptAt[s], s>> \notin live

\* No report loses its key before its deadline, unless its owner asked for it.
KeptUntilDue == \A s \in PScan \ (due \cup asked) : <<keptAt[s], s>> \in live

\* What a report's end promises.
ErasureIsExact == ErasureTypeOK /\ GoneIsUnreadable /\ KeptUntilDue
=============================================================================
