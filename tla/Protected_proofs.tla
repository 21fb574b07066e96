-------------------------- MODULE Protected_proofs --------------------------
(***************************************************************************)
(* The page index of a protected report is exact and within its limit, for *)
(* any site, page limit and number of runs; and what the end of a report   *)
(* promises, for any number of reports and of key managers.                *)
(***************************************************************************)
EXTENDS PageIndex, Erasure, FiniteSetTheorems, TLAPS

-----------------------------------------------------------------------------
(* The page index *)

\* A run that is under way has a number, and room for the page it waits for.
RunHasRoom ==
  /\ run.at # "over" => runs \in 1..MaxRuns
  /\ run.at = "waiting" => run.count < MaxPages

IndexIInv == IndexIsSound /\ IsFiniteSet(indexed) /\ RunHasRoom

LEMMA IndexInitHolds == IndexInit => IndexIInv
<1> SUFFICES ASSUME IndexInit  PROVE IndexIInv
  OBVIOUS
<1> USE PageIndexAssumption
<1>1. IndexTypeOK
  BY DEF IndexInit, IndexTypeOK, NoRun, Engine
<1>2. IsFiniteSet(indexed) /\ Cardinality(indexed) = 0
  BY FS_EmptySet DEF IndexInit
<1>3. TotalsExact
  <2>1. {u \in indexed : "axe" \in engines[u]} = {} /\ {u \in indexed : "alfa" \in engines[u]} = {}
    BY DEF IndexInit
  <2>. QED  BY <1>2, <2>1, FS_EmptySet DEF TotalsExact, IndexInit
<1>4. WithinLimit /\ CountedIsIndexed /\ RunHasRoom
  BY <1>2 DEF WithinLimit, CountedIsIndexed, RunHasRoom, IndexInit, NoRun
<1>. QED  BY <1>1, <1>2, <1>3, <1>4 DEF IndexIInv, IndexIsSound

-----------------------------------------------------------------------------
(* Actions that leave the index alone *)

\* When the pages and their totals stay, it is enough that what changes has its
\* type and that a run counts no page it did not count before.
LEMMA IndexStays ==
  ASSUME IndexIInv, UNCHANGED indexRow, IndexTypeOK', RunHasRoom', run'.counted \subseteq run.counted
  PROVE  IndexIInv'
BY DEF IndexIInv, IndexIsSound, TotalsExact, WithinLimit, CountedIsIndexed, indexRow

\* The lease ends, or the report's time does.
LEMMA LeaseStep == IndexIInv /\ (Interrupt \/ Deadline) => IndexIInv'
<1> SUFFICES ASSUME IndexIInv, Interrupt \/ Deadline  PROVE IndexIInv'
  OBVIOUS
<1>1. UNCHANGED <<indexRow, runs, run, events>>
  BY DEF Interrupt, Deadline
<1>2. IndexTypeOK'
  <2>1. CASE Interrupt
    BY <1>1, <2>1, PageIndexAssumption
    DEF IndexIInv, IndexIsSound, IndexTypeOK, Interrupt, LeavesAs, indexRow
  <2>2. CASE Deadline
    <3>1. retained' \in BOOLEAN  BY <2>2 DEF Deadline
    <3>2. UNCHANGED <<protection, holder>>  BY <2>2 DEF Deadline
    <3>. QED  BY <1>1, <3>1, <3>2 DEF IndexIInv, IndexIsSound, IndexTypeOK, indexRow
  <2>. QED  BY <2>1, <2>2
<1>3. RunHasRoom'
  BY <1>1 DEF IndexIInv, RunHasRoom
<1>. QED  BY <1>1, <1>2, <1>3, IndexStays

\* A run begins with nothing counted.
LEMMA StartRunStep == IndexIInv /\ StartRun => IndexIInv'
<1> SUFFICES ASSUME IndexIInv, StartRun  PROVE IndexIInv'
  OBVIOUS
<1> USE PageIndexAssumption
<1>1. UNCHANGED <<retained, indexRow, events>>
  BY DEF StartRun
<1>2. /\ runs' = runs + 1 /\ runs < MaxRuns /\ holder' = runs' /\ protection' = "running"
      /\ run' = [at |-> "crawling", seen |-> {Entry}, todo |-> {Entry}, count |-> 0, counted |-> {}]
  BY DEF StartRun, NoRun
<1>3. IndexTypeOK'
  BY <1>1, <1>2 DEF IndexIInv, IndexIsSound, IndexTypeOK, indexRow
<1>4. RunHasRoom'
  BY <1>2 DEF RunHasRoom, IndexIInv, IndexIsSound, IndexTypeOK
<1>. QED  BY <1>1, <1>2, <1>3, <1>4, IndexStays

\* A page of no use is passed over.
LEMMA UnusableStep == IndexIInv /\ Unusable => IndexIInv'
<1> SUFFICES ASSUME IndexIInv, NEW u \in run.todo, GoesOn,
                    run' = [run EXCEPT !.todo = @ \ {u}],
                    UNCHANGED <<protection, holder, retained, indexRow, runs, events>>
             PROVE  IndexIInv'
  BY DEF Unusable
<1>1. IndexTypeOK'
  BY DEF IndexIInv, IndexIsSound, IndexTypeOK, indexRow
<1>2. run'.at = run.at /\ run'.count = run.count /\ run'.counted = run.counted
  BY DEF IndexIInv, IndexIsSound, IndexTypeOK
<1>3. RunHasRoom'
  BY <1>2 DEF IndexIInv, RunHasRoom
<1>. QED  BY <1>1, <1>2, <1>3, IndexStays

\* A page is reported while the run has room for it.
LEMMA ReportStep == IndexIInv /\ Report => IndexIInv'
<1> SUFFICES ASSUME IndexIInv, GoesOn,
                    NEW u \in run.todo, NEW p \in Url, NEW L \in SUBSET Lead,
                    NEW E \in {{"axe"}, Engine}, NEW links \in SUBSET Url,
                    events' = events \cup {[by |-> runs, page |-> p, leads |-> L, engines |-> E]},
                    run' = [run EXCEPT !.at = "waiting", !.seen = @ \cup links,
                                       !.todo = (@ \ {u}) \cup (links \ run.seen)],
                    UNCHANGED <<protection, holder, retained, indexRow, runs>>
             PROVE  IndexIInv'
  BY DEF Report
<1>1. E \in SUBSET Engine
  BY DEF Engine
<1>2. runs \in 1..MaxRuns
  BY DEF GoesOn, IndexIInv, RunHasRoom
<1>3. IndexTypeOK'
  <2>1. [by |-> runs, page |-> p, leads |-> L, engines |-> E] \in Event
    BY <1>1, <1>2 DEF Event
  <2>2. run' \in [at : {"crawling", "waiting", "over"}, seen : SUBSET Url, todo : SUBSET Url,
                 count : 0..MaxPages, counted : SUBSET Url]
    BY DEF IndexIInv, IndexIsSound, IndexTypeOK
  <2>. QED  BY <2>1, <2>2 DEF IndexIInv, IndexIsSound, IndexTypeOK, indexRow
<1>4. run'.at = "waiting" /\ run'.count = run.count /\ run'.counted = run.counted
  BY DEF IndexIInv, IndexIsSound, IndexTypeOK
<1>5. RunHasRoom'
  BY <1>2, <1>4 DEF RunHasRoom, GoesOn
<1>. QED  BY <1>3, <1>4, <1>5, IndexStays

\* However a run ends, it forgets what it counted.
LEMMA EndsStep ==
  ASSUME IndexIInv, NEW s \in {"authentication_required", "interrupted", "failed", "completed"}, EndsAs(s)
  PROVE  IndexIInv'
<1> USE PageIndexAssumption
<1>1. run' = NoRun /\ UNCHANGED <<retained, indexRow, runs, events>>
  BY DEF EndsAs
<1>2. IndexTypeOK'
  BY <1>1 DEF EndsAs, LeavesAs, IndexIInv, IndexIsSound, IndexTypeOK, indexRow, NoRun
<1>3. RunHasRoom' /\ run'.counted \subseteq run.counted
  BY <1>1 DEF RunHasRoom, NoRun
<1>. QED  BY <1>1, <1>2, <1>3, IndexStays

-----------------------------------------------------------------------------
(* A page event arrives *)

\* The pages of S that engine x evaluated, when f[u] did evaluate u.
Evaluated(S, f, x) == {u \in S : x \in f[u]}

\* A page event that is not refused, of a page without a row.
LEMMA AddStep ==
  ASSUME IndexIInv, NEW e \in Event, Index(e), e.page \notin indexed, ~Full(e)
  PROVE  /\ indexed' = indexed \cup {e.page} /\ IsFiniteSet(indexed')
         /\ TotalsExact' /\ WithinLimit'
         /\ leads' \in [Url -> SUBSET Lead] /\ engines' \in [Url -> SUBSET Engine]
         /\ axeCount' \in Nat /\ alfaCount' \in Nat /\ pageCount' \in Nat
<1> USE PageIndexAssumption
<1>1. /\ indexed' = indexed \cup {e.page}
      /\ leads' = [leads EXCEPT ![e.page] = e.leads]
      /\ engines' = [engines EXCEPT ![e.page] = e.engines]
      /\ axeCount' = axeCount + Add("axe", e.engines)
      /\ alfaCount' = alfaCount + Add("alfa", e.engines)
      /\ pageCount' = Cardinality(indexed')
  BY DEF Index
<1>2. e.page \in Url /\ e.leads \in SUBSET Lead /\ e.engines \in SUBSET Engine
  BY DEF Event
<1>3. indexed \in SUBSET Url /\ IsFiniteSet(indexed) /\ engines \in [Url -> SUBSET Engine]
      /\ leads \in [Url -> SUBSET Lead] /\ axeCount \in Nat /\ alfaCount \in Nat
  BY DEF IndexIInv, IndexIsSound, IndexTypeOK
<1>4. IsFiniteSet(indexed') /\ Cardinality(indexed') = Cardinality(indexed) + 1
      /\ Cardinality(indexed) \in Nat
  BY <1>1, <1>3, FS_AddElement, FS_CardinalityType
<1>5. engines'[e.page] = e.engines /\ \A u \in indexed : engines'[u] = engines[u]
  BY <1>1, <1>2, <1>3
<1>6. ASSUME NEW x
      PROVE  Cardinality(Evaluated(indexed', engines', x))
               = Cardinality(Evaluated(indexed, engines, x)) + Add(x, e.engines)
  <2> DEFINE before == Evaluated(indexed, engines, x)
  <2>1. IsFiniteSet(before) /\ e.page \notin before /\ Cardinality(before) \in Nat
    <3>1. before \subseteq indexed
      BY DEF Evaluated
    <3>. QED  BY <1>3, <3>1, FS_Subset, FS_CardinalityType
  <2>2. CASE x \in e.engines
    <3>1. Evaluated(indexed', engines', x) = before \cup {e.page}
      BY <1>1, <1>5, <2>2 DEF Evaluated
    <3>2. Cardinality(before \cup {e.page}) = Cardinality(before) + 1
      BY <2>1, FS_AddElement
    <3>. QED  BY <2>2, <3>1, <3>2 DEF Add
  <2>3. CASE x \notin e.engines
    <3>1. Evaluated(indexed', engines', x) = before
      BY <1>1, <1>5, <2>3 DEF Evaluated
    <3>. QED  BY <2>1, <2>3, <3>1 DEF Add
  <2>. QED  BY <2>2, <2>3
<1>7. TotalsExact'
  BY <1>1, <1>6 DEF TotalsExact, IndexIInv, IndexIsSound, Evaluated
<1>8. WithinLimit'
  BY <1>4 DEF WithinLimit, Full
<1>9. axeCount' \in Nat /\ alfaCount' \in Nat /\ pageCount' \in Nat
  BY <1>1, <1>3, <1>4 DEF Add
<1>. QED  BY <1>1, <1>2, <1>3, <1>4, <1>7, <1>8, <1>9

LEMMA DeliverStep == IndexIInv /\ Deliver => IndexIInv'
<1> SUFFICES ASSUME IndexIInv, NEW e \in events, NEW answered \in BOOLEAN,
                    events' = events \ {e},
                    IF Refuses(e) THEN UNCHANGED indexRow ELSE Index(e),
                    IF answered /\ e.by = runs /\ run.at = "waiting"
                      THEN run' = IF Refuses(e) THEN NoRun
                                  ELSE [run EXCEPT !.at = "crawling", !.count = @ + 1,
                                                   !.counted = @ \cup {e.page}]
                      ELSE UNCHANGED run,
                    UNCHANGED <<protection, holder, retained, runs>>
             PROVE  IndexIInv'
  BY DEF Deliver
<1> USE PageIndexAssumption
<1>1. e \in Event /\ events' \in SUBSET Event /\ e.page \in Url
  BY DEF IndexIInv, IndexIsSound, IndexTypeOK, Event
\* The run goes on, or ends, or does not hear of it.
<1>2. /\ run' \in [at : {"crawling", "waiting", "over"}, seen : SUBSET Url, todo : SUBSET Url,
                   count : 0..MaxPages, counted : SUBSET Url]
      /\ run'.counted \subseteq run.counted \cup (IF Refuses(e) THEN {} ELSE {e.page})
      /\ RunHasRoom'
  <2>1. CASE run' = run
    BY <2>1 DEF IndexIInv, IndexIsSound, IndexTypeOK, RunHasRoom
  <2>2. CASE run' = NoRun
    BY <2>2 DEF NoRun, RunHasRoom
  <2>3. CASE /\ ~Refuses(e) /\ run.at = "waiting"
             /\ run' = [run EXCEPT !.at = "crawling", !.count = @ + 1, !.counted = @ \cup {e.page}]
    <3>1. run.count + 1 \in 0..MaxPages
      BY <2>3 DEF IndexIInv, IndexIsSound, IndexTypeOK, RunHasRoom
    <3>. QED  BY <1>1, <2>3, <3>1 DEF IndexIInv, IndexIsSound, IndexTypeOK, RunHasRoom
  <2>. QED  BY <2>1, <2>2, <2>3
<1>3. CASE UNCHANGED indexRow /\ (Refuses(e) \/ e.page \in indexed)
  <2>1. IndexTypeOK'
    BY <1>1, <1>2, <1>3 DEF IndexIInv, IndexIsSound, IndexTypeOK, indexRow
  <2>2. CountedIsIndexed'
    BY <1>2, <1>3 DEF IndexIInv, IndexIsSound, CountedIsIndexed, indexRow
  <2>. QED  BY <1>2, <1>3, <2>1, <2>2 DEF IndexIInv, IndexIsSound, TotalsExact, WithinLimit, indexRow
<1>4. CASE ~Refuses(e) /\ e.page \notin indexed
  <2>1. Index(e) /\ ~Full(e)
    BY <1>4 DEF Refuses
  <2>2. /\ indexed' = indexed \cup {e.page} /\ IsFiniteSet(indexed')
        /\ TotalsExact' /\ WithinLimit'
        /\ leads' \in [Url -> SUBSET Lead] /\ engines' \in [Url -> SUBSET Engine]
        /\ axeCount' \in Nat /\ alfaCount' \in Nat /\ pageCount' \in Nat
    BY <1>1, <1>4, <2>1, AddStep
  <2>3. IndexTypeOK'
    BY <1>1, <1>2, <2>2 DEF IndexIInv, IndexIsSound, IndexTypeOK
  <2>4. CountedIsIndexed'
    BY <1>2, <2>2 DEF IndexIInv, IndexIsSound, CountedIsIndexed
  <2>. QED  BY <1>2, <2>2, <2>3, <2>4 DEF IndexIInv, IndexIsSound
<1>. QED  BY <1>3, <1>4 DEF Index

-----------------------------------------------------------------------------
LEMMA IndexNextHolds == IndexIInv /\ [IndexNext]_indexVars => IndexIInv'
<1> SUFFICES ASSUME IndexIInv, [IndexNext]_indexVars  PROVE IndexIInv'
  OBVIOUS
<1>1. CASE Deliver  BY <1>1, DeliverStep
<1>2. CASE Interrupt \/ Deadline  BY <1>2, LeaseStep
<1>3. CASE StartRun  BY <1>3, StartRunStep
<1>4. CASE Unusable  BY <1>4, UnusableStep
<1>5. CASE Report  BY <1>5, ReportStep
<1>6. CASE SignedOut \/ TooLarge \/ GivesUp \/ Completed
  BY <1>6, EndsStep DEF SignedOut, TooLarge, GivesUp, Completed
<1>7. CASE UNCHANGED indexVars
  BY <1>7 DEF IndexIInv, IndexIsSound, IndexTypeOK, TotalsExact, WithinLimit, CountedIsIndexed,
              RunHasRoom, indexVars, indexRow
<1>. QED  BY <1>1, <1>2, <1>3, <1>4, <1>5, <1>6, <1>7 DEF IndexNext

\* Whatever events are lost, late or sent again by later runs, each page of a
\* report is counted once with the engines that evaluated it, the pages stay
\* within the limit, and what a run counts is there (record_protected_page_index).
THEOREM IndexCorrect == IndexSpec => []IndexIsSound
<1>1. IndexIInv => IndexIsSound  BY DEF IndexIInv
<1>. QED  BY <1>1, IndexInitHolds, IndexNextHolds, PTL DEF IndexSpec

-----------------------------------------------------------------------------
(* Erasure *)

\* A process asks only for keys it may destroy: of reports that are due or whose
\* owner asked, at the key manager they were encrypted with.
OnlyWhatItMay ==
  \A p \in Process, s \in PScan :
    s \in job[p].left => keptAt[s] = vault[p] /\ s \in due \cup asked

\* What a process has dealt with cannot be read.
DoneIsUnreadable ==
  \A p \in Process, s \in PScan :
    s \in job[p].batch \ job[p].left => <<keptAt[s], s>> \notin live

ErasureIInv == ErasureIsExact /\ OnlyWhatItMay /\ DoneIsUnreadable

LEMMA ErasureInitHolds == ErasureInit => ErasureIInv
<1> SUFFICES ASSUME ErasureInit  PROVE ErasureIInv
  OBVIOUS
<1>1. ErasureTypeOK
  BY DEF ErasureInit, ErasureTypeOK, Resting, Process
<1>2. GoneIsUnreadable /\ KeptUntilDue
  BY DEF ErasureInit, GoneIsUnreadable, KeptUntilDue
<1>3. OnlyWhatItMay /\ DoneIsUnreadable
  BY DEF ErasureInit, OnlyWhatItMay, DoneIsUnreadable, Resting
<1>. QED  BY <1>1, <1>2, <1>3 DEF ErasureIInv, ErasureIsExact

\* Time passes: more reports are due.
LEMMA OverdueStep == ErasureIInv /\ Overdue => ErasureIInv'
  BY DEF ErasureIInv, ErasureIsExact, ErasureTypeOK, GoneIsUnreadable, KeptUntilDue, OnlyWhatItMay,
         DoneIsUnreadable, Overdue

\* An erasure begins with all of the reports that are due.
LEMMA StartErasingStep ==
  ASSUME ErasureIInv, NEW p \in Process, StartErasing(p)
  PROVE  ErasureIInv'
<1> DEFINE batch == {s \in due : report[s] = "kept"}
<1> USE DEF ErasureIInv, ErasureIsExact
<1>1. /\ job' = [job EXCEPT ![p] = [at |-> "erase", batch |-> batch, left |-> batch]]
      /\ MayDestroy(p, batch) /\ UNCHANGED <<report, due, stopped, keptAt, live, vault, asked>>
  BY DEF StartErasing
<1>2. batch \in SUBSET PScan /\ batch \subseteq due
  BY DEF ErasureTypeOK
<1> HIDE DEF batch
<1>3. ErasureTypeOK'
  BY <1>1, <1>2 DEF ErasureTypeOK
<1>4. GoneIsUnreadable' /\ KeptUntilDue'
  BY <1>1 DEF GoneIsUnreadable, KeptUntilDue
<1>5. \A q \in Process : job'[q].left = IF q = p THEN batch ELSE job[q].left
  BY <1>1 DEF ErasureTypeOK
<1>6. \A q \in Process : job'[q].batch = IF q = p THEN batch ELSE job[q].batch
  BY <1>1 DEF ErasureTypeOK
<1>7. OnlyWhatItMay'
  BY <1>1, <1>2, <1>5 DEF OnlyWhatItMay, MayDestroy
<1>8. DoneIsUnreadable'
  BY <1>1, <1>5, <1>6 DEF DoneIsUnreadable
<1>. QED  BY <1>3, <1>4, <1>7, <1>8

\* An owner's request starts, or is refused and remembered as asked for.
LEMMA StartDeletingStep ==
  ASSUME ErasureIInv, NEW s \in PScan, StartDeleting(s)
  PROVE  ErasureIInv'
<1> DEFINE left == IF report[s] = "erased" THEN {} ELSE {s}
<1> USE DEF ErasureIInv, ErasureIsExact
<1>1. asked' = asked \cup {s} /\ UNCHANGED <<report, due, stopped, keptAt, live, vault>>
  BY DEF StartDeleting
<1>2. GoneIsUnreadable' /\ KeptUntilDue'
  BY <1>1 DEF GoneIsUnreadable, KeptUntilDue
<1>3. CASE report[s] = "erased" \/ MayDestroy("server", {s})
  <2>1. job' = [job EXCEPT !["server"] = [at |-> "delete", batch |-> {s}, left |-> left]]
    BY <1>3 DEF StartDeleting
  <2>2. left \in SUBSET PScan /\ left \subseteq {s} /\ "server" \in Process
    BY DEF Process
  <2>3. left # {} => keptAt[s] = vault["server"]
    BY <1>3 DEF MayDestroy
  <2>4. s \notin left => <<keptAt[s], s>> \notin live
    BY DEF GoneIsUnreadable
  <2> HIDE DEF left
  <2>5. ErasureTypeOK'
    BY <1>1, <2>1, <2>2 DEF ErasureTypeOK
  <2>6. \A q \in Process : job'[q].left = IF q = "server" THEN left ELSE job[q].left
    BY <2>1 DEF ErasureTypeOK
  <2>7. \A q \in Process : job'[q].batch = IF q = "server" THEN {s} ELSE job[q].batch
    BY <2>1 DEF ErasureTypeOK
  <2>8. OnlyWhatItMay'
    BY <1>1, <2>2, <2>3, <2>6 DEF OnlyWhatItMay
  <2>9. DoneIsUnreadable'
    BY <1>1, <2>4, <2>6, <2>7 DEF DoneIsUnreadable
  <2>. QED  BY <1>2, <2>5, <2>8, <2>9
<1>4. CASE ~(report[s] = "erased" \/ MayDestroy("server", {s}))
  <2>1. job' = job
    BY <1>4 DEF StartDeleting
  <2>. QED  BY <1>1, <1>2, <2>1 DEF ErasureTypeOK, OnlyWhatItMay, DoneIsUnreadable
<1>. QED  BY <1>3, <1>4

\* One key goes: of a report whose turn it is, and at its own key manager.
LEMMA DestroyStep ==
  ASSUME ErasureIInv, NEW p \in Process, NEW s \in PScan, Destroy(p, s)
  PROVE  ErasureIInv'
<1> USE DEF ErasureIInv, ErasureIsExact
<1>1. /\ s \in job[p].left /\ live' = live \ {<<vault[p], s>>}
      /\ job' = [job EXCEPT ![p].left = @ \ {s}]
      /\ UNCHANGED <<report, due, stopped, keptAt, vault, asked>>
  BY DEF Destroy
<1>2. keptAt[s] = vault[p] /\ s \in due \cup asked
  BY <1>1 DEF OnlyWhatItMay
<1>3. ErasureTypeOK'
  BY <1>1 DEF ErasureTypeOK
<1>4. GoneIsUnreadable'
  BY <1>1 DEF GoneIsUnreadable
<1>5. KeptUntilDue'
  BY <1>1, <1>2 DEF KeptUntilDue
<1>6. \A q \in Process : job'[q].left = IF q = p THEN job[q].left \ {s} ELSE job[q].left
  BY <1>1 DEF ErasureTypeOK
<1>7. \A q \in Process : job'[q].batch = job[q].batch
  BY <1>1 DEF ErasureTypeOK
<1>8. OnlyWhatItMay'
  BY <1>1, <1>6 DEF OnlyWhatItMay
<1>9. DoneIsUnreadable'
  BY <1>1, <1>2, <1>6, <1>7 DEF DoneIsUnreadable
<1>. QED  BY <1>3, <1>4, <1>5, <1>8, <1>9

\* The database is written when nothing of the batch is left.
LEMMA CommitStep ==
  ASSUME ErasureIInv, NEW p \in Process, Commit(p)
  PROVE  ErasureIInv'
<1> DEFINE gone == \E s \in job[p].batch : report[s] = "deleted"
           after == IF job[p].at = "delete" THEN "deleted" ELSE "erased"
<1> USE DEF ErasureIInv, ErasureIsExact
<1>1. /\ job[p].left = {} /\ job' = [job EXCEPT ![p] = Resting]
      /\ report' = [s \in PScan |-> IF s \in job[p].batch /\ ~gone THEN after ELSE report[s]]
      /\ UNCHANGED <<due, stopped, keptAt, live, vault, asked>>
  BY DEF Commit, AllDestroyed
<1>2. after \in {"erased", "deleted"}
  OBVIOUS
<1> HIDE DEF gone, after
<1>3. ErasureTypeOK'
  BY <1>1, <1>2 DEF ErasureTypeOK, Resting
<1>4. GoneIsUnreadable'
  BY <1>1 DEF GoneIsUnreadable, DoneIsUnreadable
<1>5. KeptUntilDue'
  BY <1>1 DEF KeptUntilDue
<1>6. \A q \in Process : job'[q] = IF q = p THEN Resting ELSE job[q]
  BY <1>1 DEF ErasureTypeOK
<1>7. OnlyWhatItMay' /\ DoneIsUnreadable'
  BY <1>1, <1>6 DEF OnlyWhatItMay, DoneIsUnreadable, Resting
<1>. QED  BY <1>3, <1>4, <1>5, <1>7

\* A process that fails or starts again forgets what it was at.
LEMMA FailStep ==
  ASSUME ErasureIInv, NEW p \in Process, Fail(p) \/ Restart(p)
  PROVE  ErasureIInv'
<1> USE DEF ErasureIInv, ErasureIsExact
<1>1. /\ job' = [job EXCEPT ![p] = Resting]
      /\ UNCHANGED <<report, due, stopped, keptAt, live, asked>>
  BY DEF Fail, Restart
<1>2. vault' \in [Process -> Kms \cup {NoKms}] /\ \A q \in Process \ {p} : vault'[q] = vault[q]
  BY DEF Fail, Restart, ErasureTypeOK
<1>3. ErasureTypeOK'
  BY <1>1, <1>2 DEF ErasureTypeOK, Resting
<1>4. GoneIsUnreadable' /\ KeptUntilDue'
  BY <1>1 DEF GoneIsUnreadable, KeptUntilDue
<1>5. \A q \in Process : job'[q] = IF q = p THEN Resting ELSE job[q]
  BY <1>1 DEF ErasureTypeOK
<1>6. OnlyWhatItMay' /\ DoneIsUnreadable'
  BY <1>1, <1>2, <1>5 DEF OnlyWhatItMay, DoneIsUnreadable, Resting
<1>. QED  BY <1>3, <1>4, <1>6

LEMMA ErasureNextHolds == ErasureIInv /\ [ErasureNext]_erasureVars => ErasureIInv'
<1> SUFFICES ASSUME ErasureIInv, [ErasureNext]_erasureVars  PROVE ErasureIInv'
  OBVIOUS
<1>1. CASE Overdue  BY <1>1, OverdueStep
<1>2. CASE \E s \in PScan : StartDeleting(s)  BY <1>2, StartDeletingStep
<1>3. CASE \E p \in Process : StartErasing(p)  BY <1>3, StartErasingStep
<1>4. CASE \E p \in Process, s \in PScan : Destroy(p, s)  BY <1>4, DestroyStep
<1>5. CASE \E p \in Process : Commit(p)  BY <1>5, CommitStep
<1>6. CASE \E p \in Process : Fail(p) \/ Restart(p)  BY <1>6, FailStep
<1>7. CASE UNCHANGED erasureVars
  BY <1>7 DEF ErasureIInv, ErasureIsExact, ErasureTypeOK, GoneIsUnreadable, KeptUntilDue, OnlyWhatItMay,
              DoneIsUnreadable, erasureVars
<1>. QED  BY <1>1, <1>2, <1>3, <1>4, <1>5, <1>6, <1>7 DEF ErasureNext

\* Evidence that the database calls erased or has forgotten cannot be read from
\* any backup, and no report loses its key before its deadline unless its owner
\* asked (purge_expired_protected_data, api_delete_scan), for any reports, key
\* managers and failures between the steps of two processes.
THEOREM ErasureCorrect == ErasureSpec => []ErasureIsExact
<1>1. ErasureIInv => ErasureIsExact  BY DEF ErasureIInv
<1>. QED  BY <1>1, ErasureInitHolds, ErasureNextHolds, PTL DEF ErasureSpec
=============================================================================
