------------------------------- MODULE Review -------------------------------
(***************************************************************************)
(* The expert review of one public report: its evaluation, the outcomes of *)
(* the WCAG criteria (src/audit/evaluation.py), the requests that change   *)
(* them (src/audit/web/server.py) and the exports that depend on them      *)
(* (src/audit/web/export_readiness.py).                                    *)
(*                                                                         *)
(* These endpoints are plain functions: each request runs in a thread of   *)
(* the server's pool with a connection of its own in autocommit mode.  One *)
(* statement is atomic, and the statements of different requests           *)
(* interleave.  A criterion without a row counts as not started.           *)
(*                                                                         *)
(* GuardFollowUpOnly is wrong on purpose: a slip of the definition it      *)
(* precedes, kept to show that the property notices it.                    *)
(***************************************************************************)
EXTENDS Naturals

CONSTANTS
  Criterion,  \* the criteria of the coverage matrix
  Request     \* the requests that can be under way at the same time

Draft == "draft"
EvaluationStatus == {Draft, "in_progress", "completed"}
Outcome == {"not_started", "needs_follow_up", "decided"}
Undecided == {"not_started", "needs_follow_up"}

VARIABLES
  evaluation,  \* the row of evaluation_reports: its status, and whether every
               \* field of the required context is filled in
  outcome,     \* manual_check_results of each criterion
  req,         \* what each request is doing and what it has read
  exports,     \* the exports released: final or draft, and whether every
               \* criterion was decided when readiness was assessed
  late         \* criteria that were being reopened by one request while
               \* another was completing the evaluation

reviewVars == <<evaluation, outcome, req, exports, late>>

NoRow == [exists |-> FALSE, status |-> Draft, context |-> FALSE]
Row(s, c) == [exists |-> TRUE, status |-> s, context |-> c]
EvaluationRows == [exists : {TRUE}, status : EvaluationStatus, context : BOOLEAN]

Idle == [at |-> "idle"]
Putting == [at : {"put", "putReady"}, row : EvaluationRows]
Checking == [at : {"guarded", "make", "write"}, c : Criterion, o : Outcome]
Noting == [at : {"note", "noteMake"}]
Exporting == [at : {"readable"}, row : EvaluationRows \cup {NoRow}]
               \cup [at : {"assessed"}, decided : BOOLEAN, ready : BOOLEAN]

ReviewTypeOK ==
  /\ evaluation \in EvaluationRows \cup {NoRow}
  /\ outcome \in [Criterion -> Outcome]
  /\ req \in [Request -> {Idle} \cup Putting \cup Checking \cup Noting \cup Exporting]
  /\ exports \in SUBSET [final : BOOLEAN, decided : BOOLEAN]
  /\ late \in SUBSET Criterion

ReviewInit ==
  /\ evaluation = NoRow /\ outcome = [c \in Criterion |-> "not_started"]
  /\ req = [r \in Request |-> Idle] /\ exports = {} /\ late = {}

-----------------------------------------------------------------------------
AllDecided == \A c \in Criterion : outcome[c] \notin Undecided

\* evaluation_completion_blockers of a record: nothing is missing.
Completable(row) == row.context /\ AllDecided

Reopening(q) == {c \in Criterion : \E r \in Request :
                   q[r].at \in {"guarded", "make", "write"} /\ q[r].c = c /\ q[r].o \in Undecided}
Completing(q) == \E r \in Request : q[r].at = "putReady" /\ q[r].row.status = "completed"

\* Request r goes on to q.
Goes(r, q) ==
  /\ req' = [req EXCEPT ![r] = q]
  /\ late' = IF Completing(req') THEN late \cup Reopening(req') ELSE late

-----------------------------------------------------------------------------
(* PUT .../evaluation *)

Stored == "stored"  \* a field the body leaves out

\* The body's fields, and the stored ones it leaves out.
PutRead(r, s, c) ==
  /\ req[r] = Idle
  /\ Goes(r, [at |-> "put",
              row |-> Row(IF s = Stored THEN evaluation.status ELSE s,
                          IF c = Stored THEN evaluation.context ELSE c = "given")])
  /\ UNCHANGED <<evaluation, outcome, exports>>

\* upsert_evaluation: a completed one is refused while anything blocks it.
PutCheck(r) ==
  /\ req[r].at = "put"
  /\ Goes(r, IF req[r].row.status = "completed" /\ ~Completable(req[r].row)
             THEN Idle ELSE [req[r] EXCEPT !.at = "putReady"])
  /\ UNCHANGED <<evaluation, outcome, exports>>

PutWrite(r) ==
  /\ req[r].at = "putReady" /\ evaluation' = req[r].row /\ Goes(r, Idle)
  /\ UNCHANGED <<outcome, exports>>

-----------------------------------------------------------------------------
(* PATCH .../manual-checks/{criterion} and POST .../evidence *)

GuardFollowUpOnly(o) == ~(evaluation.status = "completed" /\ o = "needs_follow_up")

\* update_manual_check: a completed evaluation does not take an open outcome.
GuardOutcome(o) == ~(evaluation.status = "completed" /\ o \in Undecided)

PatchGuard(r, c, o) ==
  /\ req[r] = Idle /\ GuardOutcome(o)
  /\ Goes(r, [at |-> "guarded", c |-> c, o |-> o])
  /\ UNCHANGED <<evaluation, outcome, exports>>

\* _ensure_evaluation_id: is there a row?
PatchEnsure(r) ==
  /\ req[r].at = "guarded"
  /\ Goes(r, [req[r] EXCEPT !.at = IF evaluation.exists THEN "write" ELSE "make"])
  /\ UNCHANGED <<evaluation, outcome, exports>>

\* ... upsert_evaluation without values: all of the defaults, over whatever
\* row has appeared meanwhile.
PatchMake(r) ==
  /\ req[r].at = "make" /\ evaluation' = Row(Draft, FALSE)
  /\ Goes(r, [req[r] EXCEPT !.at = "write"])
  /\ UNCHANGED <<outcome, exports>>

PatchWrite(r) ==
  /\ req[r].at = "write" /\ outcome' = [outcome EXCEPT ![req[r].c] = req[r].o]
  /\ Goes(r, Idle)
  /\ UNCHANGED <<evaluation, exports>>

\* add_manual_evidence makes the rows it needs; a criterion's outcome stays.
NoteRead(r) ==
  /\ req[r] = Idle
  /\ Goes(r, IF evaluation.exists THEN Idle ELSE [at |-> "noteMake"])
  /\ UNCHANGED <<evaluation, outcome, exports>>

NoteMake(r) ==
  /\ req[r].at = "noteMake" /\ evaluation' = Row(Draft, FALSE) /\ Goes(r, Idle)
  /\ UNCHANGED <<outcome, exports>>

-----------------------------------------------------------------------------
(* GET .../export/{fmt} *)

\* assess_public_export_readiness: the evaluation row ...
ExportRead(r) ==
  /\ req[r] = Idle /\ Goes(r, [at |-> "readable", row |-> evaluation])
  /\ UNCHANGED <<evaluation, outcome, exports>>

\* ... is complete, and nothing blocks its completion now ...
StillReady(row) == row.status = "completed" /\ Completable(row)

ExportAssess(r) ==
  /\ req[r].at = "readable"
  /\ Goes(r, [at |-> "assessed", decided |-> AllDecided, ready |-> StillReady(req[r].row)])
  /\ UNCHANGED <<evaluation, outcome, exports>>

\* ... and no actionable finding is without a verdict, which may change at any
\* time: a final file.  A draft otherwise, if the request acknowledged one.
ExportRelease(r) ==
  /\ req[r].at = "assessed"
  /\ \E reviewed \in BOOLEAN :
       LET final == req[r].ready /\ reviewed
           released == exports \cup {[final |-> final, decided |-> req[r].decided]}
       IN exports' = released \/ (~final /\ exports' = exports)
  /\ Goes(r, Idle)
  /\ UNCHANGED <<evaluation, outcome>>

-----------------------------------------------------------------------------
ReviewNext ==
  \/ \E r \in Request :
       \/ \E s \in EvaluationStatus \cup {Stored}, c \in {"given", "blank", Stored} : PutRead(r, s, c)
       \/ PutCheck(r) \/ PutWrite(r)
       \/ \E c \in Criterion, o \in Outcome : PatchGuard(r, c, o)
       \/ PatchEnsure(r) \/ PatchMake(r) \/ PatchWrite(r)
       \/ NoteRead(r) \/ NoteMake(r)
       \/ ExportRead(r) \/ ExportAssess(r) \/ ExportRelease(r)

ReviewSpec == ReviewInit /\ [][ReviewNext]_reviewVars

-----------------------------------------------------------------------------
(* Properties *)

\* A completed evaluation has its context, and a verdict on every criterion but
\* those that one request was reopening while another completed the evaluation
\* (evaluation.update_manual_check, upsert_evaluation).
OnlyLateUndecided ==
  evaluation.status = "completed" =>
    /\ evaluation.context
    /\ \A c \in Criterion : outcome[c] \in Undecided => c \in late

\* A file released as final was assessed when every criterion had a verdict,
\* also where a race left the evaluation completed without one
\* (export_readiness.assess_public_export_readiness).
FinalIsDecided == \A e \in exports : e.final => e.decided

\* What the expert signs and what is released as final were decided
\* (evaluation.py, export_readiness.py).
ReviewIsHonest == ReviewTypeOK /\ OnlyLateUndecided /\ FinalIsDecided
=============================================================================
