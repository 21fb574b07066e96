--------------------------- MODULE Report_proofs ----------------------------
(***************************************************************************)
(* What is kept of a page, what a reviewer decides of it, what is read off *)
(* its images and what the report lists: the evidence only grows and is    *)
(* shown as it was kept, a report that was released was decided, an image  *)
(* is told of what was read, no row is lost or listed twice, and what the  *)
(* report, the workbook and the list tell accounts for every row.  For any *)
(* site, any number of attempts, requests, workers and rows.               *)
(***************************************************************************)
EXTENDS Inspector, Review, Images, Report, FiniteSetTheorems, SequenceTheorems,
        WellFoundedInduction, TLAPS

\* A set of numbers that is not empty has a least one.
LEMMA LeastIs ==
  ASSUME NEW S \in SUBSET Nat, S # {}
  PROVE  \E x \in S : \A y \in S : x <= y
<1> DEFINE R == {ss \in Nat \X Nat : ss[1] < ss[2]}
<1>1. IsWellFoundedOn(R, Nat)
  BY NatLessThanWellFounded DEF OpToRel
<1> HIDE DEF R
<1>2. PICK x \in S : \A y \in S : ~ (<<y, x>> \in R)
  BY <1>1, WFMin
<1>3. \A y \in S : x <= y
  <2> SUFFICES ASSUME NEW y \in S  PROVE x <= y
    OBVIOUS
  <2>1. y \in Nat /\ x \in Nat /\ ~ (<<y, x>> \in R)
    BY <1>2
  <2>2. ~ (y < x)
    BY <2>1 DEF R
  <2> QED BY <2>1, <2>2
<1> QED BY <1>3

-----------------------------------------------------------------------------
(* Evidence and the inspector *)

\* An attempt that writes has a number of its own.
WritesAsAttempt == place # "idle" => attempt # 0

\* The saved copy, if there is one, is that of the last fetch.
CopyIsLast == copy \in {0, fetched}

EvidenceIInv == EvidenceIsKept /\ WritesAsAttempt /\ CopyIsLast

LEMMA AxeIsFinite ==
  ASSUME NEW F \in SUBSET Axe
  PROVE  IsFiniteSet(F) /\ Cardinality(F) \in Nat
BY EvidenceAssumption, FS_Subset, FS_CardinalityType

LEMMA EvidenceInitHolds == EvidenceInit => EvidenceIInv
<1> SUFFICES ASSUME EvidenceInit  PROVE EvidenceIInv
  OBVIOUS
<1> USE DEF EvidenceInit
<1>1. <<>> \in Seq(Statuses \X Statuses)
  OBVIOUS
<1>2. EvidenceTypeOK
  BY <1>1, EvidenceAssumption DEF EvidenceTypeOK, Statuses
<1>3. Rows \cap Axe = {}
  BY DEF Rows
<1>4. CounterCoversRows
  <2>1. Cardinality(Rows \cap Axe) = 0
    BY <1>3, FS_EmptySet, Zenon
  <2>. QED  BY <2>1 DEF CounterCoversRows
<1>5. StatusIsHistory
  BY DEF StatusIsHistory
<1>. QED  BY <1>2, <1>4, <1>5 DEF EvidenceIInv, EvidenceIsKept, SavedAsOne, WritesAsAttempt, CopyIsLast

-----------------------------------------------------------------------------
(* What one call of repo.py keeps *)

\* An upsert makes the rows W, leaves every status as it was, and relabels none.
LEMMA UpsertKeeps ==
  ASSUME EvidenceTypeOK, StatusIsHistory, WritesAsAttempt, place # "idle", attempt' = attempt,
         NEW W \in SUBSET Finding, NEW by, \A f \in W : by[f] \in Control \cup {Load, Search},
         Upsert(W, by)
  PROVE  /\ seen' \in [Finding -> 0..attempt'] /\ shownBy' \in [Finding -> Control \cup {Load, Search}]
         /\ status' \in [Finding -> Statuses] /\ decisions' \in [Finding -> Seq(Statuses \X Statuses)]
         /\ StatusIsHistory' /\ Rows' = Rows \cup W /\ EvidenceGrows
<1>1. attempt \in 1..MaxAttempts /\ attempt \in Nat
  BY EvidenceAssumption DEF EvidenceTypeOK, WritesAsAttempt
<1>2. /\ seen' \in [Finding -> 0..attempt'] /\ shownBy' \in [Finding -> Control \cup {Load, Search}]
      /\ status' \in [Finding -> Statuses] /\ decisions' \in [Finding -> Seq(Statuses \X Statuses)]
  BY <1>1 DEF Upsert, EvidenceTypeOK, Rows
<1>3. StatusIsHistory'
  BY DEF Upsert, StatusIsHistory
<1>4. Rows' = Rows \cup W
  BY <1>1 DEF Upsert, Rows
<1>5. EvidenceGrows
  BY <1>4 DEF Upsert, EvidenceGrows, Rows
<1>. QED  BY <1>2, <1>3, <1>4, <1>5

\* The counter goes up by at least the rows that are new.
LEMMA CountCovers ==
  ASSUME EvidenceTypeOK, CounterCoversRows, NEW found \in SUBSET Axe, NEW W \in SUBSET found,
         Count(found), Rows' = Rows \cup W
  PROVE  axeTotal' \in Nat /\ CounterCoversRows'
<1> DEFINE R == Rows \cap Axe
<1>1. IsFiniteSet(R) /\ IsFiniteSet(W) /\ IsFiniteSet(found) /\ IsFiniteSet(R \cap W)
      /\ Cardinality(R) \in Nat /\ Cardinality(W) \in Nat /\ Cardinality(found) \in Nat
      /\ Cardinality(R \cap W) \in Nat /\ axeTotal \in Nat
  BY AxeIsFinite DEF EvidenceTypeOK
<1>2. Cardinality(R \cup W) = Cardinality(R) + Cardinality(W) - Cardinality(R \cap W)
  BY <1>1, FS_Union
<1>3. Cardinality(W) <= Cardinality(found)
  BY <1>1, FS_Subset
<1>4. Cardinality((Rows \cap Axe)') = Cardinality(R \cup W)
  <2>1. (Rows \cap Axe)' = R \cup W
    OBVIOUS
  <2>. QED  BY <2>1, Zenon
<1>5. Cardinality((Rows \cap Axe)') <= axeTotal + Cardinality(found)
  BY <1>1, <1>2, <1>3, <1>4 DEF CounterCoversRows
<1>. QED  BY <1>1, <1>5 DEF Count, CounterCoversRows

\* A step of an attempt that leaves the page's row alone is right if what it
\* writes is.
LEMMA WriteHolds ==
  ASSUME EvidenceIInv, place # "idle", UNCHANGED <<attempt, mode, pageVars>>,
         place' \in {"idle", "search", "axe", "interaction"} \cup OtherEngine, place \notin {"css", "frames"},
         states' \in [Control -> 0..attempt],
         \A c, d \in Control : 0 \in {states'[c], states'[d]} \/ states'[c] = states'[d],
         seen' \in [Finding -> 0..attempt'], shownBy' \in [Finding -> Control \cup {Load, Search}],
         status' \in [Finding -> Statuses], decisions' \in [Finding -> Seq(Statuses \X Statuses)],
         StatusIsHistory', axeTotal' \in Nat, CounterCoversRows'
  PROVE  EvidenceIInv'
<1> USE DEF EvidenceIInv, EvidenceIsKept, pageVars
<1>1. EvidenceTypeOK'
  BY DEF EvidenceTypeOK
<1>2. SavedAsOne'
  BY DEF SavedAsOne
<1>3. WritesAsAttempt' /\ CopyIsLast'
  BY DEF WritesAsAttempt, CopyIsLast
<1>. QED  BY <1>1, <1>2, <1>3

-----------------------------------------------------------------------------
(* One attempt *)

LEMMA RecordPageHolds == ASSUME EvidenceIInv, RecordPage  PROVE EvidenceIInv' /\ EvidenceGrows
<1> USE DEF EvidenceIInv, EvidenceIsKept
<1>1. /\ attempt' = attempt + 1 /\ attempt < MaxAttempts /\ place' = "css" /\ mode' \in {"js", "static"}
      /\ fetched' = attempt' /\ copy' \in {0, attempt'} /\ spoiled' = {}
      /\ UNCHANGED <<css, frames, states, seen, shownBy, status, decisions, axeTotal>>
  BY DEF RecordPage, Begin, UpsertPage, findingVars
<1>2. attempt \in Nat /\ MaxAttempts \in Nat /\ attempt' \in 0..MaxAttempts /\ attempt' # 0
      /\ 0..attempt \subseteq 0..attempt' /\ attempt' \in 0..attempt' /\ 0 \in 0..attempt'
  BY <1>1, EvidenceAssumption DEF EvidenceTypeOK
<1>3. EvidenceTypeOK'
  BY <1>1, <1>2 DEF EvidenceTypeOK
<1>4. StatusIsHistory' /\ CounterCoversRows' /\ EvidenceGrows
  BY <1>1 DEF StatusIsHistory, CounterCoversRows, EvidenceGrows, Rows
<1>5. SavedAsOne' /\ WritesAsAttempt' /\ CopyIsLast'
  BY <1>1, <1>2 DEF SavedAsOne, WritesAsAttempt, CopyIsLast
<1>. QED  BY <1>3, <1>4, <1>5

\* The CSS and the frames come of the present document, or are marked as spoiled.
LEMMA RecordPartsHold ==
  ASSUME EvidenceIInv, RecordStyles \/ RecordFrames \/ CutShort
  PROVE  EvidenceIInv' /\ EvidenceGrows
<1> USE DEF EvidenceIInv, EvidenceIsKept
<1>1. /\ UNCHANGED <<attempt, mode, fetched, copy, states, seen, shownBy, status, decisions, axeTotal>>
      /\ place # "idle"
  BY DEF RecordStyles, RecordFrames, CutShort, findingVars
<1>2. /\ place' \in {"idle", "frames", "axe", "search"}
      /\ {css', frames'} \subseteq 0..attempt /\ spoiled' \subseteq {"css", "frames"}
  BY DEF RecordStyles, RecordFrames, CutShort, SetStyles, SetFrames, EvidenceTypeOK
<1>3. EvidenceTypeOK'
  BY <1>1, <1>2 DEF EvidenceTypeOK
<1>4. StatusIsHistory' /\ CounterCoversRows' /\ EvidenceGrows
  BY <1>1 DEF StatusIsHistory, CounterCoversRows, EvidenceGrows, Rows
<1>5. WritesAsAttempt' /\ CopyIsLast'
  BY <1>1 DEF WritesAsAttempt, CopyIsLast
<1>6. ASSUME RecordStyles  PROVE SavedAsOne'
  BY <1>1, <1>6 DEF RecordStyles, SetStyles, SavedAsOne
<1>7. ASSUME RecordFrames  PROVE SavedAsOne'
  BY <1>1, <1>7 DEF RecordFrames, SetFrames, SavedAsOne
<1>8. CASE CutShort
  <2>1. /\ place' = "idle" /\ UNCHANGED <<css, frames>> /\ spoiled \subseteq spoiled'
        /\ place = "css" => {"css", "frames"} \subseteq spoiled'
        /\ place = "frames" => "frames" \in spoiled'
    BY <1>8 DEF CutShort
  <2>2. SavedAsOne'
    BY <1>1, <2>1 DEF SavedAsOne
  <2>. QED  BY <1>3, <1>4, <1>5, <2>2
<1>9. RecordStyles \/ RecordFrames => SavedAsOne'
  BY <1>6, <1>7
<1>. QED  BY <1>3, <1>4, <1>5, <1>8, <1>9

\* The rows that axe's findings leave.
LEMMA PersistAxeRows ==
  ASSUME EvidenceIInv, place \notin {"idle", "css", "frames"}, UNCHANGED <<attempt, mode, pageVars>>,
         place' \in {"idle", "search", "axe", "interaction"} \cup OtherEngine,
         states' \in [Control -> 0..attempt],
         \A c, d \in Control : 0 \in {states'[c], states'[d]} \/ states'[c] = states'[d],
         NEW found \in SUBSET Axe, NEW W \in SUBSET found, NEW by,
         \A f \in W : by[f] \in Control \cup {Load, Search}, Upsert(W, by), Count(found)
  PROVE  EvidenceIInv' /\ EvidenceGrows
<1> USE DEF EvidenceIInv, EvidenceIsKept
<1>1. W \in SUBSET Finding
  BY DEF Finding
<1>2. /\ seen' \in [Finding -> 0..attempt'] /\ shownBy' \in [Finding -> Control \cup {Load, Search}]
      /\ status' \in [Finding -> Statuses] /\ decisions' \in [Finding -> Seq(Statuses \X Statuses)]
      /\ StatusIsHistory' /\ Rows' = Rows \cup W /\ EvidenceGrows
  BY <1>1, UpsertKeeps
<1>3. axeTotal' \in Nat /\ CounterCoversRows'
  BY <1>2, CountCovers
<1>. QED  BY <1>2, <1>3, WriteHolds

LEMMA PersistSearchHolds == ASSUME EvidenceIInv, PersistSearch  PROVE EvidenceIInv' /\ EvidenceGrows
<1> DEFINE by == [f \in Finding |-> Search]
<1>0. PICK found \in SUBSET Axe : \E W \in SUBSET found : Upsert(W, by) /\ Count(found)
  BY DEF PersistSearch
<1>1. PICK W \in SUBSET found : Upsert(W, by) /\ Count(found)
  BY <1>0
<1>2. \A f \in W : by[f] \in Control \cup {Load, Search}
  BY DEF Finding
<1>3. /\ place = "search" /\ place' \in {"idle", "axe"} /\ UNCHANGED <<attempt, mode, pageVars, states>>
      /\ states' \in [Control -> 0..attempt]
      /\ \A c, d \in Control : 0 \in {states'[c], states'[d]} \/ states'[c] = states'[d]
  BY DEF PersistSearch, EvidenceIInv, EvidenceIsKept, EvidenceTypeOK, SavedAsOne
<1> HIDE DEF by
<1>. QED  BY <1>1, <1>2, <1>3, PersistAxeRows

LEMMA PersistAxeHolds == ASSUME EvidenceIInv, PersistAxe  PROVE EvidenceIInv' /\ EvidenceGrows
<1> DEFINE by == [f \in Finding |-> Load]
<1>1. /\ place = "axe" /\ place' = "alfa" /\ UNCHANGED <<attempt, mode, pageVars, states>>
      /\ states' \in [Control -> 0..attempt]
      /\ \A c, d \in Control : 0 \in {states'[c], states'[d]} \/ states'[c] = states'[d]
  BY DEF PersistAxe, EvidenceIInv, EvidenceIsKept, EvidenceTypeOK, SavedAsOne
<1>2. CASE mode = "js"
  <2>0. PICK found \in SUBSET Axe : \E W \in SUBSET found : Upsert(W, by) /\ Count(found)
    BY <1>2 DEF PersistAxe, UpsertLoaded
  <2>1. PICK W \in SUBSET found : Upsert(W, by) /\ Count(found)
    BY <2>0
  <2>2. \A f \in W : by[f] \in Control \cup {Load, Search}
    BY DEF Finding
  <2> HIDE DEF by
  <2>. QED  BY <1>1, <2>1, <2>2, PersistAxeRows DEF OtherEngine
<1>3. CASE mode # "js"
  <2>1. UNCHANGED <<seen, shownBy, status, decisions, axeTotal>>
    BY <1>3 DEF PersistAxe, findingVars
  <2>2. StatusIsHistory' /\ CounterCoversRows' /\ EvidenceGrows
    BY <2>1 DEF StatusIsHistory, CounterCoversRows, EvidenceGrows, Rows, EvidenceIInv, EvidenceIsKept
  <2>3. /\ seen' \in [Finding -> 0..attempt'] /\ shownBy' \in [Finding -> Control \cup {Load, Search}]
        /\ status' \in [Finding -> Statuses] /\ decisions' \in [Finding -> Seq(Statuses \X Statuses)]
        /\ axeTotal' \in Nat
    BY <1>1, <2>1 DEF EvidenceIInv, EvidenceIsKept, EvidenceTypeOK
  <2>. QED  BY <1>1, <2>2, <2>3, WriteHolds DEF OtherEngine
<1>. QED  BY <1>2, <1>3

\* The findings of another engine do not touch the counter of axe's.
LEMMA PersistOtherHolds ==
  ASSUME EvidenceIInv, NEW e \in OtherEngine, NEW next \in OtherEngine \cup {"interaction", "idle"},
         Persist(e, next), NEW W \in SUBSET MadeBy[e], UpsertLoaded(W)
  PROVE  EvidenceIInv' /\ EvidenceGrows
<1> USE DEF EvidenceIInv, EvidenceIsKept
<1> DEFINE by == [f \in Finding |-> Load]
<1>1. W \subseteq Other /\ W \in SUBSET Finding
  BY DEF Other, Finding
<1>2. /\ place = e /\ place \notin {"idle", "css", "frames"} /\ place' = next
      /\ UNCHANGED <<attempt, mode, pageVars, states, axeTotal>>
      /\ states' \in [Control -> 0..attempt] /\ axeTotal' \in Nat
      /\ \A c, d \in Control : 0 \in {states'[c], states'[d]} \/ states'[c] = states'[d]
  BY DEF Persist, OtherEngine, EvidenceTypeOK, SavedAsOne
<1>3. Upsert(W, by) /\ \A f \in W : by[f] \in Control \cup {Load, Search}
  BY <1>1 DEF UpsertLoaded
<1> HIDE DEF by
<1>4. /\ seen' \in [Finding -> 0..attempt'] /\ shownBy' \in [Finding -> Control \cup {Load, Search}]
      /\ status' \in [Finding -> Statuses] /\ decisions' \in [Finding -> Seq(Statuses \X Statuses)]
      /\ StatusIsHistory' /\ Rows' = Rows \cup W /\ EvidenceGrows
  BY <1>1, <1>2, <1>3, UpsertKeeps
<1>5. (Rows \cap Axe)' = Rows \cap Axe
  BY <1>1, <1>4, EvidenceAssumption
<1>6. CounterCoversRows'
  BY <1>2, <1>5 DEF CounterCoversRows
<1>. QED  BY <1>2, <1>4, <1>6, WriteHolds

LEMMA PersistEnginesHold ==
  ASSUME EvidenceIInv, \/ PersistAlfa \/ PersistKeyboard \/ PersistResponsive \/ PersistFocus
                       \/ PersistVisual \/ PersistSemantic
  PROVE  EvidenceIInv' /\ EvidenceGrows
<1>1. PICK e \in OtherEngine, next \in OtherEngine \cup {"interaction", "idle"} :
        Persist(e, next) /\ \E W \in SUBSET MadeBy[e] : UpsertLoaded(W)
  <2>1. ASSUME PersistAlfa \/ PersistSemantic
        PROVE  \E e \in OtherEngine, next \in OtherEngine \cup {"interaction", "idle"} :
                 Persist(e, next) /\ \E W \in SUBSET MadeBy[e] : UpsertLoaded(W)
    BY <2>1 DEF PersistAlfa, PersistSemantic, UpsertAlfa, UpsertSemantic, OtherEngine
  <2>2. ASSUME PersistKeyboard \/ PersistResponsive \/ PersistFocus \/ PersistVisual
        PROVE  \E e \in OtherEngine, next \in OtherEngine \cup {"interaction", "idle"} :
                 Persist(e, next) /\ \E W \in SUBSET MadeBy[e] : UpsertLoaded(W)
    BY <2>2 DEF PersistKeyboard, PersistResponsive, PersistFocus, PersistVisual, PersistLoaded, OtherEngine
  <2>. QED  BY <2>1, <2>2
<1>. QED  BY <1>1, PersistOtherHolds

\* The states that were captured replace the old ones as a whole, or not at all.
LEMMA PersistInteractionHolds ==
  ASSUME EvidenceIInv, PersistInteraction  PROVE EvidenceIInv' /\ EvidenceGrows
<1>0. PICK by \in [Axe -> Control], found \in SUBSET Axe, captured \in SUBSET Control :
        \E W \in SUBSET found :
          /\ ReplaceStates(captured)
          /\ Upsert(W, [f \in Finding |-> IF f \in Axe THEN by[f] ELSE Load]) /\ Count(found)
  BY DEF PersistInteraction
<1>1. PICK W \in SUBSET found :
         /\ ReplaceStates(captured)
         /\ Upsert(W, [f \in Finding |-> IF f \in Axe THEN by[f] ELSE Load]) /\ Count(found)
  BY <1>0
<1> DEFINE revealed == [f \in Finding |-> IF f \in Axe THEN by[f] ELSE Load]
<1>2. \A f \in W : revealed[f] \in Control \cup {Load, Search}
  BY DEF Finding
<1>3. /\ place = "interaction" /\ place' = "semantic" /\ UNCHANGED <<attempt, mode, pageVars>>
  BY DEF PersistInteraction
<1>4. attempt \in Nat /\ attempt \in 0..attempt /\ 0 \in 0..attempt
  BY EvidenceAssumption DEF EvidenceIInv, EvidenceIsKept, EvidenceTypeOK
<1>5. /\ states' \in [Control -> 0..attempt]
      /\ \A c, d \in Control : 0 \in {states'[c], states'[d]} \/ states'[c] = states'[d]
  BY <1>1, <1>4 DEF ReplaceStates, EvidenceIInv, EvidenceIsKept, EvidenceTypeOK, SavedAsOne
<1> HIDE DEF revealed
<1>. QED  BY <1>1, <1>2, <1>3, <1>5, PersistAxeRows DEF OtherEngine, revealed

-----------------------------------------------------------------------------
(* Reviewers *)

\* Each change of a status is in the finding's history, from the status before.
LEMMA DecideSomeHolds == ASSUME EvidenceIInv, DecideSome  PROVE EvidenceIInv' /\ EvidenceGrows
<1> USE DEF EvidenceIInv, EvidenceIsKept
<1>1. PICK F \in SUBSET Finding, s \in Statuses : Decide(F, s)
  BY DEF DecideSome
<1> DEFINE changed == {f \in F \cap Rows : status[f] # s}
<1>2. /\ status' = [f \in Finding |-> IF f \in changed THEN s ELSE status[f]]
      /\ decisions' = [f \in Finding |-> IF f \in changed
                         THEN Append(decisions[f], <<status[f], s>>) ELSE decisions[f]]
      /\ UNCHANGED <<place, attempt, mode, fetched, copy, css, frames, spoiled, states, seen, shownBy, axeTotal>>
  BY <1>1 DEF Decide, pageVars
<1> HIDE DEF changed
<1>3. status' \in [Finding -> Statuses] /\ decisions' \in [Finding -> Seq(Statuses \X Statuses)]
  BY <1>2 DEF EvidenceTypeOK
<1>4. EvidenceTypeOK'
  BY <1>2, <1>3 DEF EvidenceTypeOK
<1>5. StatusIsHistory'
  <2> SUFFICES ASSUME NEW f \in Finding
               PROVE  LET h == decisions'[f]
                      IN /\ status'[f] = IF h = <<>> THEN "new" ELSE h[Len(h)][2]
                         /\ \A i \in 1..Len(h) : h[i][1] = IF i = 1 THEN "new" ELSE h[i - 1][2]
    BY DEF StatusIsHistory
  <2>1. /\ decisions[f] \in Seq(Statuses \X Statuses) /\ status[f] \in Statuses
        /\ status[f] = IF decisions[f] = <<>> THEN "new" ELSE decisions[f][Len(decisions[f])][2]
        /\ \A i \in 1..Len(decisions[f]) :
             decisions[f][i][1] = IF i = 1 THEN "new" ELSE decisions[f][i - 1][2]
    BY DEF StatusIsHistory, EvidenceTypeOK
  <2>2. CASE f \in changed
    <3> DEFINE h == Append(decisions[f], <<status[f], s>>)
    <3>1. decisions'[f] = h /\ status'[f] = s
      BY <1>2, <2>2
    <3>2. /\ Len(h) = Len(decisions[f]) + 1 /\ h # <<>> /\ h[Len(decisions[f]) + 1] = <<status[f], s>>
          /\ \A i \in 1..Len(decisions[f]) : h[i] = decisions[f][i]
          /\ Len(decisions[f]) \in Nat /\ (Len(decisions[f]) = 0 <=> decisions[f] = <<>>)
      BY <2>1, AppendProperties, EmptySeq, LenProperties
    <3> HIDE DEF h
    <3>3. ASSUME NEW i \in 1..Len(h)
          PROVE  h[i][1] = IF i = 1 THEN "new" ELSE h[i - 1][2]
      <4>0. i \in Nat /\ (i # 1 => i - 1 \in 1..Len(decisions[f]))
        BY <3>2
      <4>1. CASE i = Len(decisions[f]) + 1
        <5>1. h[i][1] = status[f]
          BY <3>2, <4>1
        <5>2. i # 1 => h[i - 1] = decisions[f][Len(decisions[f])]
          BY <3>2, <4>0, <4>1
        <5>3. i = 1 <=> decisions[f] = <<>>
          BY <3>2, <4>1
        <5>. QED  BY <2>1, <5>1, <5>2, <5>3
      <4>2. CASE i \in 1..Len(decisions[f])
        BY <2>1, <3>2, <4>0, <4>2
      <4>. QED  BY <3>2, <4>1, <4>2
    <3>4. status'[f] = h[Len(h)][2]
      BY <3>1, <3>2
    <3>. QED  BY <3>1, <3>2, <3>3, <3>4
  <2>3. CASE f \notin changed
    BY <1>2, <2>1, <2>3
  <2>. QED  BY <2>2, <2>3
<1>6. CounterCoversRows' /\ SavedAsOne' /\ WritesAsAttempt' /\ CopyIsLast' /\ EvidenceGrows
  BY <1>2 DEF CounterCoversRows, SavedAsOne, WritesAsAttempt, CopyIsLast, EvidenceGrows, Rows
<1>. QED  BY <1>4, <1>5, <1>6

-----------------------------------------------------------------------------
LEMMA EvidenceNextHolds ==
  EvidenceIInv /\ [EvidenceNext]_evidenceVars => EvidenceIInv' /\ [EvidenceGrows]_evidenceVars
<1> SUFFICES ASSUME EvidenceIInv, [EvidenceNext]_evidenceVars
             PROVE  EvidenceIInv' /\ [EvidenceGrows]_evidenceVars
  OBVIOUS
<1>1. CASE UNCHANGED evidenceVars
  BY <1>1 DEF evidenceVars, pageVars, findingVars, EvidenceIInv, EvidenceIsKept, EvidenceTypeOK,
              StatusIsHistory, CounterCoversRows, SavedAsOne, WritesAsAttempt, CopyIsLast, Rows
<1>2. CASE EvidenceNext
  BY <1>2, RecordPageHolds, RecordPartsHold, PersistSearchHolds, PersistAxeHolds, PersistEnginesHold,
     PersistInteractionHolds, DecideSomeHolds DEF EvidenceNext
<1>. QED  BY <1>1, <1>2

\* The rows of a page are those of its last attempt that wrote, and agree with
\* the counts of the scan (orchestrator.py _persist_axe_result, repo.py).
THEOREM EvidenceCorrect == EvidenceSpec => []EvidenceIsKept
<1>1. EvidenceIInv => EvidenceIsKept  BY DEF EvidenceIInv
<1>. QED  BY <1>1, EvidenceInitHolds, EvidenceNextHolds, PTL DEF EvidenceSpec

\* No attempt takes back what an earlier one kept, nor changes what a reviewer
\* said of it (upsert_issue, _persist_axe_result).
THEOREM EvidenceOnlyGrows == EvidenceSpec => RowsOnlyGrow
BY EvidenceInitHolds, EvidenceNextHolds, PTL DEF EvidenceSpec, RowsOnlyGrow

LEMMA ShownAsKept == EvidenceIInv => InspectedAsCaptured
<1> SUFFICES ASSUME EvidenceIInv, NEW q \in Requests
             PROVE  LET view == Inspect(q)
                    IN /\ q.wanted # Load =>
                            /\ view.source \in {"state", "refused"}
                            /\ view.from # 0 => \A c \in Control : states[c] \in {0, view.from}
                       /\ view.source = "live" => q.completed /\ (copy = 0 \/ ~q.readable) /\ view.css = 0
                       /\ copy # 0 /\ q.readable /\ q.wanted = Load => view.from = fetched
                       /\ view.source = "stored" /\ place = "idle" /\ spoiled = {} =>
                            {view.css, view.frames} \subseteq {0, view.from}
  BY DEF InspectedAsCaptured
<1> USE DEF EvidenceIInv, EvidenceIsKept, Inspect, Display, Blank
<1>1. CASE Unavailable(q)
  BY <1>1 DEF Unavailable
<1>2. CASE ~Unavailable(q) /\ q.wanted # Load
  <2>1. q.wanted \in Control
    BY <1>2 DEF Requests
  <2>. QED  BY <1>2, <2>1 DEF InspectState, SavedAsOne
<1>3. CASE ~Unavailable(q) /\ q.wanted = Load
  BY <1>3 DEF InspectPage, RenderLive, SavedAsOne, CopyIsLast
<1>. QED  BY <1>1, <1>2, <1>3

\* What the inspector shows of a page is the page that was captured, with the
\* elements its findings are about (web/inspector.py).
THEOREM InspectorCorrect == EvidenceSpec => []EvidenceIsShown
<1>1. EvidenceIInv => EvidenceIsShown  BY ShownAsKept DEF EvidenceIInv, EvidenceIsShown
<1>. QED  BY <1>1, EvidenceInitHolds, EvidenceNextHolds, PTL DEF EvidenceSpec

-----------------------------------------------------------------------------
(* The review of a report *)

\* A request that is about to store a completed evaluation checked it, and what
\* was reopened since is noted.
ReadyIsDecided ==
  \A r \in Request :
    req[r].at = "putReady" /\ req[r].row.status = "completed" =>
      req[r].row.context /\ \A c \in Criterion : outcome[c] \in Undecided => c \in late

\* What one request reopens is noted while another completes the evaluation, and
\* as long as it is completed.
ReopeningIsLate ==
  Completing(req) \/ evaluation.status = "completed" => Reopening(req) \subseteq late

\* Readiness was assessed with a verdict on every criterion.
ReadyToExport == \A r \in Request : req[r].at = "assessed" /\ req[r].ready => req[r].decided

ReviewIInv == ReviewIsHonest /\ ReadyIsDecided /\ ReopeningIsLate /\ ReadyToExport

\* The fields of a request follow from where it is.
LEMMA RequestFields ==
  ASSUME ReviewTypeOK, NEW r \in Request
  PROVE  /\ req[r].at \in {"put", "putReady"} => req[r] \in Putting
         /\ req[r].at \in {"guarded", "make", "write"} => req[r] \in Checking
         /\ req[r].at \in {"note", "noteMake"} => req[r] \in Noting
         /\ req[r].at = "readable" => req[r] \in [at : {"readable"}, row : EvaluationRows \cup {NoRow}]
         /\ req[r].at = "assessed" => req[r] \in [at : {"assessed"}, decided : BOOLEAN, ready : BOOLEAN]
BY DEF ReviewTypeOK, Idle, Putting, Checking, Noting, Exporting

\* A row, or none, has the three fields.
LEMMA RowFields ==
  ASSUME NEW row \in EvaluationRows \cup {NoRow}
  PROVE  row.status \in EvaluationStatus /\ row.context \in BOOLEAN
<1>1. CASE row \in EvaluationRows
  BY <1>1 DEF EvaluationRows
<1>2. CASE row = NoRow
  BY <1>2 DEF NoRow, EvaluationStatus
<1>. QED  BY <1>1, <1>2

LEMMA ReviewInitHolds == ReviewInit => ReviewIInv
BY DEF ReviewInit, ReviewIInv, ReviewIsHonest, ReviewTypeOK, OnlyLateUndecided, FinalIsDecided,
       ReadyIsDecided, ReopeningIsLate, ReadyToExport, Idle, NoRow, Completing, Reopening, Draft, Outcome

ReviewRequests == {Idle} \cup Putting \cup Checking \cup Noting \cup Exporting

\* What a step of one request does to the notes: nothing is lost, and what is
\* reopened while another completes the evaluation is in them.
LEMMA GoesOn ==
  ASSUME ReviewTypeOK, NEW r \in Request, NEW q \in ReviewRequests, Goes(r, q)
  PROVE  /\ req' = [req EXCEPT ![r] = q] /\ req' \in [Request -> ReviewRequests]
         /\ late' \in SUBSET Criterion /\ late \subseteq late'
         /\ Completing(req') => Reopening(req') \subseteq late'
<1>1. req' = [req EXCEPT ![r] = q] /\ late' = IF Completing(req') THEN late \cup Reopening(req') ELSE late
  BY DEF Goes
<1>2. Reopening(req') \subseteq Criterion
  BY DEF Reopening
<1>. QED  BY <1>1, <1>2 DEF ReviewTypeOK, ReviewRequests

Reopens(q, c) == q.at \in {"guarded", "make", "write"} /\ q.c = c /\ q.o \in Undecided

\* When the evaluation, the outcomes and the exports stay, it is enough that the
\* request does not get ahead of them.
LEMMA RequestStep ==
  ASSUME ReviewIInv, NEW r \in Request, NEW q \in ReviewRequests, Goes(r, q),
         UNCHANGED <<evaluation, outcome, exports>>,
         q.at = "putReady" /\ q.row.status = "completed" =>
           q.row.context /\ \A c \in Criterion : outcome[c] \in Undecided => c \in late,
         evaluation.status = "completed" =>
           \A c \in Criterion : Reopens(q, c) => Reopens(req[r], c),
         q.at = "assessed" /\ q.ready => q.decided
  PROVE  ReviewIInv'
<1> USE DEF ReviewIInv, ReviewIsHonest
<1>1. /\ req' = [req EXCEPT ![r] = q] /\ req' \in [Request -> ReviewRequests]
      /\ late' \in SUBSET Criterion /\ late \subseteq late'
      /\ Completing(req') => Reopening(req') \subseteq late'
  BY GoesOn
<1>2. \A x \in Request : req'[x] = IF x = r THEN q ELSE req[x]
  BY <1>1 DEF ReviewTypeOK
<1>3. ReviewTypeOK'
  BY <1>1 DEF ReviewTypeOK, ReviewRequests
<1>4. OnlyLateUndecided' /\ FinalIsDecided'
  BY <1>1 DEF OnlyLateUndecided, FinalIsDecided
<1>5. ReadyIsDecided' /\ ReadyToExport'
  BY <1>1, <1>2 DEF ReadyIsDecided, ReadyToExport
<1>6. evaluation'.status = "completed" => Reopening(req') \subseteq Reopening(req)
  BY <1>2 DEF Reopening, Reopens
<1>7. ReopeningIsLate'
  BY <1>1, <1>6 DEF ReopeningIsLate
<1>. QED  BY <1>3, <1>4, <1>5, <1>7

-----------------------------------------------------------------------------
LEMMA PutReadStep ==
  ASSUME ReviewIInv, NEW r \in Request, NEW s \in EvaluationStatus \cup {Stored},
         NEW c \in {"given", "blank", Stored}, PutRead(r, s, c)
  PROVE  ReviewIInv'
<1> DEFINE row == Row(IF s = Stored THEN evaluation.status ELSE s,
                      IF c = Stored THEN evaluation.context ELSE c = "given")
<1>1. row \in EvaluationRows
  <2>1. evaluation.status \in EvaluationStatus /\ evaluation.context \in BOOLEAN
    BY RowFields DEF ReviewIInv, ReviewIsHonest, ReviewTypeOK
  <2>. QED  BY <2>1 DEF EvaluationRows, Row
<1>2. Goes(r, [at |-> "put", row |-> row]) /\ UNCHANGED <<evaluation, outcome, exports>>
  BY DEF PutRead
<1> HIDE DEF row
<1>3. [at |-> "put", row |-> row] \in ReviewRequests
  BY <1>1 DEF ReviewRequests, Putting
<1>. QED  BY <1>2, <1>3, RequestStep DEF Reopens

\* Only an evaluation with a verdict on every criterion is let through.
LEMMA PutCheckStep ==
  ASSUME ReviewIInv, NEW r \in Request, PutCheck(r)
  PROVE  ReviewIInv'
<1>1. req[r] \in Putting /\ req[r].at = "put" /\ UNCHANGED <<evaluation, outcome, exports>>
  BY RequestFields DEF PutCheck, ReviewIInv, ReviewIsHonest
<1>2. CASE req[r].row.status = "completed" /\ ~Completable(req[r].row)
  <2>1. Goes(r, Idle)
    BY <1>2 DEF PutCheck
  <2>. QED  BY <1>1, <2>1, RequestStep DEF ReviewRequests, Idle, Reopens
<1>3. CASE ~(req[r].row.status = "completed" /\ ~Completable(req[r].row))
  <2> DEFINE q == [req[r] EXCEPT !.at = "putReady"]
  <2>1. Goes(r, q)
    BY <1>3 DEF PutCheck
  <2>2. q \in ReviewRequests /\ q.at = "putReady" /\ q.row = req[r].row
    BY <1>1 DEF ReviewRequests, Putting
  <2>3. q.row.status = "completed" => q.row.context /\ \A c \in Criterion : outcome[c] \notin Undecided
    BY <1>3, <2>2 DEF Completable, AllDecided
  <2> HIDE DEF q
  <2>. QED  BY <1>1, <2>1, <2>2, <2>3, RequestStep DEF Reopens
<1>. QED  BY <1>2, <1>3

\* What is written was checked, and what is being reopened is noted.
LEMMA PutWriteStep ==
  ASSUME ReviewIInv, NEW r \in Request, PutWrite(r)
  PROVE  ReviewIInv'
<1> USE DEF ReviewIInv, ReviewIsHonest
<1>1. /\ req[r].at = "putReady" /\ evaluation' = req[r].row /\ UNCHANGED <<outcome, exports>>
      /\ req[r].row \in EvaluationRows
  BY RequestFields DEF PutWrite, Putting
<1>2. /\ req' = [req EXCEPT ![r] = Idle] /\ req' \in [Request -> ReviewRequests]
      /\ late' \in SUBSET Criterion /\ late \subseteq late'
      /\ Completing(req') => Reopening(req') \subseteq late'
  BY GoesOn DEF PutWrite, ReviewRequests
<1>3. \A x \in Request : req'[x] = IF x = r THEN Idle ELSE req[x]
  BY <1>2 DEF ReviewTypeOK
<1>4. ReviewTypeOK'
  BY <1>1, <1>2 DEF ReviewTypeOK, ReviewRequests
<1>5. OnlyLateUndecided'
  BY <1>1, <1>2 DEF OnlyLateUndecided, ReadyIsDecided
<1>6. FinalIsDecided' /\ ReadyIsDecided' /\ ReadyToExport'
  BY <1>1, <1>2, <1>3 DEF FinalIsDecided, ReadyIsDecided, ReadyToExport, Idle
<1>7. evaluation'.status = "completed" => Completing(req)
  BY <1>1 DEF Completing
<1>8. Reopening(req') \subseteq Reopening(req)
  BY <1>3 DEF Reopening, Idle
<1>9. ReopeningIsLate'
  BY <1>2, <1>7, <1>8 DEF ReopeningIsLate
<1>. QED  BY <1>4, <1>5, <1>6, <1>9

-----------------------------------------------------------------------------
LEMMA PatchGuardStep ==
  ASSUME ReviewIInv, NEW r \in Request, NEW c \in Criterion, NEW o \in Outcome, PatchGuard(r, c, o)
  PROVE  ReviewIInv'
<1> DEFINE q == [at |-> "guarded", c |-> c, o |-> o]
<1>1. Goes(r, q) /\ GuardOutcome(o) /\ UNCHANGED <<evaluation, outcome, exports>>
  BY DEF PatchGuard
<1>2. q \in ReviewRequests
  BY DEF ReviewRequests, Checking
<1>3. evaluation.status = "completed" => q.o \notin Undecided
  BY <1>1 DEF GuardOutcome
<1>. QED  BY <1>1, <1>2, <1>3, RequestStep DEF Reopens

LEMMA PatchEnsureStep ==
  ASSUME ReviewIInv, NEW r \in Request, PatchEnsure(r)
  PROVE  ReviewIInv'
<1> DEFINE q == [req[r] EXCEPT !.at = IF evaluation.exists THEN "write" ELSE "make"]
<1>1. req[r].at = "guarded" /\ req[r] \in Checking /\ Goes(r, q) /\ UNCHANGED <<evaluation, outcome, exports>>
  BY RequestFields DEF PatchEnsure, ReviewIInv, ReviewIsHonest
<1>2. q \in ReviewRequests /\ q.at \in {"make", "write"} /\ q.c = req[r].c /\ q.o = req[r].o
  BY <1>1 DEF ReviewRequests, Checking
<1> HIDE DEF q
<1>. QED  BY <1>1, <1>2, RequestStep DEF Reopens

\* A new row starts as a draft, and a draft has nothing to keep.
LEMMA DraftStep ==
  ASSUME ReviewIInv, NEW r \in Request, NEW q \in ReviewRequests, Goes(r, q),
         evaluation' = Row(Draft, FALSE), UNCHANGED <<outcome, exports>>,
         q.at \notin {"putReady", "assessed"}
  PROVE  ReviewIInv'
<1> USE DEF ReviewIInv, ReviewIsHonest
<1>1. /\ req' = [req EXCEPT ![r] = q] /\ req' \in [Request -> ReviewRequests]
      /\ late' \in SUBSET Criterion /\ late \subseteq late'
      /\ Completing(req') => Reopening(req') \subseteq late'
  BY GoesOn
<1>2. \A x \in Request : req'[x] = IF x = r THEN q ELSE req[x]
  BY <1>1 DEF ReviewTypeOK
<1>3. evaluation' \in EvaluationRows /\ evaluation'.status # "completed"
  BY DEF EvaluationRows, Row, Draft, EvaluationStatus
<1>4. ReviewTypeOK'
  BY <1>1, <1>3 DEF ReviewTypeOK, ReviewRequests
<1>5. OnlyLateUndecided' /\ ReopeningIsLate'
  BY <1>1, <1>3 DEF OnlyLateUndecided, ReopeningIsLate
<1>6. FinalIsDecided' /\ ReadyIsDecided' /\ ReadyToExport'
  BY <1>1, <1>2 DEF FinalIsDecided, ReadyIsDecided, ReadyToExport
<1>. QED  BY <1>4, <1>5, <1>6

LEMMA MakeStep ==
  ASSUME ReviewIInv, NEW r \in Request, PatchMake(r) \/ NoteMake(r)
  PROVE  ReviewIInv'
<1>1. CASE PatchMake(r)
  <2> DEFINE q == [req[r] EXCEPT !.at = "write"]
  <2>1. req[r] \in Checking /\ Goes(r, q) /\ evaluation' = Row(Draft, FALSE) /\ UNCHANGED <<outcome, exports>>
    BY <1>1, RequestFields DEF PatchMake, ReviewIInv, ReviewIsHonest
  <2>2. q \in ReviewRequests /\ q.at = "write"
    BY <2>1 DEF ReviewRequests, Checking
  <2> HIDE DEF q
  <2>. QED  BY <2>1, <2>2, DraftStep
<1>2. CASE NoteMake(r)
  BY <1>2, DraftStep DEF NoteMake, ReviewRequests, Idle
<1>. QED  BY <1>1, <1>2

\* An open outcome is written while another request completes the evaluation, or
\* after, only to a criterion that is noted.
LEMMA PatchWriteStep ==
  ASSUME ReviewIInv, NEW r \in Request, PatchWrite(r)
  PROVE  ReviewIInv'
<1> USE DEF ReviewIInv, ReviewIsHonest
<1>1. /\ req[r].at = "write" /\ req[r] \in Checking /\ UNCHANGED <<evaluation, exports>>
      /\ outcome' = [outcome EXCEPT ![req[r].c] = req[r].o]
  BY RequestFields DEF PatchWrite
<1>2. /\ req' = [req EXCEPT ![r] = Idle] /\ req' \in [Request -> ReviewRequests]
      /\ late' \in SUBSET Criterion /\ late \subseteq late'
      /\ Completing(req') => Reopening(req') \subseteq late'
  BY GoesOn DEF PatchWrite, ReviewRequests
<1>3. \A x \in Request : req'[x] = IF x = r THEN Idle ELSE req[x]
  BY <1>2 DEF ReviewTypeOK
<1>4. req[r].c \in Criterion /\ req[r].o \in Outcome
  BY <1>1 DEF Checking
<1>5. \A c \in Criterion : outcome'[c] \in Undecided => outcome[c] \in Undecided \/ c \in Reopening(req)
  BY <1>1, <1>4 DEF ReviewTypeOK, Reopening
<1>6. ReviewTypeOK'
  BY <1>1, <1>2, <1>4 DEF ReviewTypeOK, ReviewRequests
<1>7. OnlyLateUndecided'
  BY <1>1, <1>2, <1>5 DEF OnlyLateUndecided, ReopeningIsLate
<1>8. ReadyIsDecided'
  <2> SUFFICES ASSUME NEW x \in Request, req'[x].at = "putReady", req'[x].row.status = "completed"
               PROVE  /\ req'[x].row.context
                      /\ \A c \in Criterion : outcome'[c] \in Undecided => c \in late'
    BY DEF ReadyIsDecided
  <2>1. req'[x] = req[x]
    BY <1>3 DEF Idle
  <2>2. Completing(req)
    BY <2>1 DEF Completing
  <2>. QED  BY <1>2, <1>5, <2>1, <2>2 DEF ReadyIsDecided, ReopeningIsLate
<1>9. FinalIsDecided' /\ ReadyToExport'
  BY <1>1, <1>3 DEF FinalIsDecided, ReadyToExport, Idle
<1>10. Reopening(req') \subseteq Reopening(req)
  BY <1>3 DEF Reopening, Idle
<1>11. ReopeningIsLate'
  BY <1>1, <1>2, <1>10 DEF ReopeningIsLate
<1>. QED  BY <1>6, <1>7, <1>8, <1>9, <1>11

LEMMA NoteReadStep ==
  ASSUME ReviewIInv, NEW r \in Request, NoteRead(r)
  PROVE  ReviewIInv'
<1>1. CASE evaluation.exists
  BY <1>1, RequestStep DEF NoteRead, ReviewRequests, Idle, Reopens
<1>2. CASE ~evaluation.exists
  <2>1. [at |-> "noteMake"] \in ReviewRequests
    BY DEF ReviewRequests, Noting
  <2>. QED  BY <1>2, <2>1, RequestStep DEF NoteRead, Reopens
<1>. QED  BY <1>1, <1>2

-----------------------------------------------------------------------------
LEMMA ExportReadStep ==
  ASSUME ReviewIInv, NEW r \in Request, ExportRead(r)
  PROVE  ReviewIInv'
<1> DEFINE q == [at |-> "readable", row |-> evaluation]
<1>1. q \in ReviewRequests
  BY DEF ReviewRequests, Exporting, ReviewIInv, ReviewIsHonest, ReviewTypeOK
<1>. QED  BY <1>1, RequestStep DEF ExportRead, Reopens

LEMMA ExportAssessStep ==
  ASSUME ReviewIInv, NEW r \in Request, ExportAssess(r)
  PROVE  ReviewIInv'
<1> DEFINE ready == StillReady(req[r].row)
           q == [at |-> "assessed", decided |-> AllDecided, ready |-> ready]
<1>1. ready \in BOOLEAN /\ AllDecided \in BOOLEAN /\ (ready => AllDecided)
  <2>1. req[r].row \in EvaluationRows \cup {NoRow}
    BY RequestFields DEF ExportAssess, ReviewIInv, ReviewIsHonest
  <2>2. req[r].row.context \in BOOLEAN
    BY <2>1, RowFields
  <2>. QED  BY <2>2 DEF StillReady, Completable, AllDecided
<1>2. Goes(r, q) /\ UNCHANGED <<evaluation, outcome, exports>>
  BY DEF ExportAssess
<1> HIDE DEF ready
<1>3. q \in ReviewRequests
  BY <1>1 DEF ReviewRequests, Exporting
<1>. QED  BY <1>1, <1>2, <1>3, RequestStep DEF Reopens

\* A file is final only when readiness was assessed so.
LEMMA ExportReleaseStep ==
  ASSUME ReviewIInv, NEW r \in Request, ExportRelease(r)
  PROVE  ReviewIInv'
<1> USE DEF ReviewIInv, ReviewIsHonest
<1>1. /\ req[r].at = "assessed" /\ req[r].decided \in BOOLEAN /\ req[r].ready \in BOOLEAN
      /\ UNCHANGED <<evaluation, outcome>>
  BY RequestFields DEF ExportRelease
<1>2. /\ req' = [req EXCEPT ![r] = Idle] /\ req' \in [Request -> ReviewRequests]
      /\ late' \in SUBSET Criterion /\ late \subseteq late'
      /\ Completing(req') => Reopening(req') \subseteq late'
  BY GoesOn DEF ExportRelease, ReviewRequests
<1>3. PICK reviewed \in BOOLEAN :
        LET final == req[r].ready /\ reviewed
            released == exports \cup {[final |-> final, decided |-> req[r].decided]}
        IN exports' = released \/ (~final /\ exports' = exports)
  BY DEF ExportRelease
<1>4. \A x \in Request : req'[x] = IF x = r THEN Idle ELSE req[x]
  BY <1>2 DEF ReviewTypeOK
<1>5. (req[r].ready /\ reviewed) => req[r].decided
  BY <1>1 DEF ReadyToExport
<1>6. exports' \in SUBSET [final : BOOLEAN, decided : BOOLEAN] /\ FinalIsDecided'
  BY <1>1, <1>3, <1>5 DEF ReviewTypeOK, FinalIsDecided
<1>7. ReviewTypeOK'
  BY <1>1, <1>2, <1>6 DEF ReviewTypeOK, ReviewRequests
<1>8. OnlyLateUndecided' /\ ReadyIsDecided' /\ ReadyToExport'
  BY <1>1, <1>2, <1>4 DEF OnlyLateUndecided, ReadyIsDecided, ReadyToExport, Idle
<1>9. Reopening(req') \subseteq Reopening(req)
  BY <1>4 DEF Reopening, Idle
<1>10. ReopeningIsLate'
  BY <1>1, <1>2, <1>9 DEF ReopeningIsLate
<1>. QED  BY <1>6, <1>7, <1>8, <1>10

-----------------------------------------------------------------------------
LEMMA ReviewNextHolds == ReviewIInv /\ [ReviewNext]_reviewVars => ReviewIInv'
<1> SUFFICES ASSUME ReviewIInv, [ReviewNext]_reviewVars  PROVE ReviewIInv'
  OBVIOUS
<1>1. CASE UNCHANGED reviewVars
  BY <1>1 DEF reviewVars, ReviewIInv, ReviewIsHonest, ReviewTypeOK, OnlyLateUndecided, FinalIsDecided,
              ReadyIsDecided, ReopeningIsLate, ReadyToExport, Completing, Reopening
<1>2. ASSUME NEW r \in Request,
             \/ \E s \in EvaluationStatus \cup {Stored}, c \in {"given", "blank", Stored} : PutRead(r, s, c)
             \/ PutCheck(r) \/ PutWrite(r)
      PROVE  ReviewIInv'
  BY <1>2, PutReadStep, PutCheckStep, PutWriteStep
<1>3. ASSUME NEW r \in Request,
             \/ \E c \in Criterion, o \in Outcome : PatchGuard(r, c, o)
             \/ PatchEnsure(r) \/ PatchMake(r) \/ PatchWrite(r) \/ NoteRead(r) \/ NoteMake(r)
      PROVE  ReviewIInv'
  BY <1>3, PatchGuardStep, PatchEnsureStep, MakeStep, PatchWriteStep, NoteReadStep
<1>4. ASSUME NEW r \in Request, ExportRead(r) \/ ExportAssess(r) \/ ExportRelease(r)
      PROVE  ReviewIInv'
  BY <1>4, ExportReadStep, ExportAssessStep, ExportReleaseStep
<1>. QED  BY <1>1, <1>2, <1>3, <1>4 DEF ReviewNext

\* Whatever reviewers store, reopen and release at the same time, no report is
\* released as reviewed whose outcomes were not all decided when it was asked for
\* (web/server.py, repo.py).
THEOREM ReviewCorrect == ReviewSpec => []ReviewIsHonest
<1>1. ReviewIInv => ReviewIsHonest  BY DEF ReviewIInv
<1>. QED  BY <1>1, ReviewInitHolds, ReviewNextHolds, PTL DEF ReviewSpec

-----------------------------------------------------------------------------
(* Images *)

\* A row is under the models that made it.
KindsFit == \A i \in Picture : \A k \in DOMAIN reading[i] : Kind(reading[i][k]) = k

ImagesIInv == ImagesTypeOK /\ KindsFit /\ HintFitsGroup /\ FindingsAreGrounded /\ ToldOnce

\* No row of an image is lost.
RowsStay == \A i \in Picture : DOMAIN reading[i] \subseteq DOMAIN reading'[i]

LEMMA HintsAre == ASSUME NEW why PROVE Lookup(why) \in Hint
<1> DEFINE fits == {k \in DOMAIN Rules : /\ Rules[k].adequacy = why.adequacy
                                         /\ Rules[k].label \in {why.label, AnyLabel}}
<1> DEFINE least == CHOOSE k \in fits : \A l \in fits : k <= l
<1>1. Lookup(why) = IF fits = {} THEN "none" ELSE Rules[least].hint  BY Zenon DEF Lookup
<1>2. fits \in SUBSET Nat  BY ImagesAssumption
<1>3. fits \subseteq DOMAIN Rules  OBVIOUS
<1> HIDE DEF fits
<1>4. ASSUME fits # {} PROVE least \in fits
  <2>1. \E k \in fits : \A l \in fits : k <= l  BY <1>2, <1>4, LeastIs
  <2> QED  BY <2>1, Zenon
<1> HIDE DEF least
<1>5. CASE fits = {}  BY <1>1, <1>5 DEF Hint
<1>6. CASE fits # {}  BY <1>1, <1>3, <1>4, <1>6 DEF Hint
<1> QED  BY <1>5, <1>6

Fitting(rows) == /\ rows \in UNION {[K -> Reading] : K \in SUBSET Models}
                 /\ \A k \in DOMAIN rows : Kind(rows[k]) = k

\* What upsert_analysis does to the rows of an image: it drops none, takes no text
\* away, and keeps every row under the models that made it.
LEMMA RecordedFits ==
  ASSUME NEW rows, Fitting(rows), NEW r \in Reading
  PROVE  /\ Fitting(Recorded(rows, r))
         /\ DOMAIN rows \subseteq DOMAIN Recorded(rows, r)
         /\ Kind(r) \in DOMAIN Recorded(rows, r)
         /\ \A k \in DOMAIN rows : rows[k].text => Recorded(rows, r)[k].text
         /\ \A k \in DOMAIN Recorded(rows, r) : k # Kind(r) => k \in DOMAIN rows
<1> DEFINE new == Recorded(rows, r)
           K == DOMAIN rows \cup {Kind(r)}
           old == Kind(r) \in DOMAIN rows /\ rows[Kind(r)].text
           merged == [r EXCEPT !.text = @ \/ old]
<1>1. DOMAIN rows \in SUBSET Models /\ Kind(r) \in Models /\ \A k \in DOMAIN rows : rows[k] \in Reading
  BY DEF Fitting, Models, Kind
<1>2. merged \in Reading /\ merged.label = r.label /\ merged.text = (r.text \/ old)
  BY DEF Reading
<1>3. new = [k \in K |-> IF k # Kind(r) THEN rows[k] ELSE merged]
  BY DEF Recorded
<1>4. Kind(merged) = Kind(r)  BY <1>2 DEF Kind
<1> HIDE DEF merged, new
<1>5. DOMAIN new = K /\ \A k \in K : new[k] = IF k # Kind(r) THEN rows[k] ELSE merged
  BY <1>3
<1>6. K \in SUBSET Models  BY <1>1
<1>7. \A k \in K : new[k] \in Reading /\ Kind(new[k]) = k
  BY <1>1, <1>2, <1>4, <1>5 DEF Fitting
<1>8. new \in [K -> Reading]  BY <1>3, <1>5, <1>7
<1>9. Fitting(new)  BY <1>5, <1>6, <1>7, <1>8 DEF Fitting
<1>10. \A k \in DOMAIN rows : rows[k].text => new[k].text  BY <1>2, <1>5
<1> QED  BY <1>5, <1>9, <1>10 DEF new

\* An image has a classification when it has a row of the vision model.
LEMMA KnownIs ==
  ImagesTypeOK /\ KindsFit =>
    \A i \in Picture : (Known(i).label # NoLabel) <=> "vlm" \in DOMAIN reading[i]
<1> SUFFICES ASSUME ImagesTypeOK, KindsFit, NEW i \in Picture
    PROVE (Known(i).label # NoLabel) <=> "vlm" \in DOMAIN reading[i]
  OBVIOUS
<1>1. \A k \in DOMAIN reading[i] : Kind(reading[i][k]) = k  BY DEF KindsFit
<1>2. "vlm" \in DOMAIN reading[i] => reading[i]["vlm"].label # NoLabel
  BY <1>1 DEF Kind
<1>3. "ocr" \in DOMAIN reading[i] => reading[i]["ocr"].label = NoLabel
  BY <1>1 DEF Kind
<1> QED  BY <1>2, <1>3 DEF Known, Unread

\* The text of what is best known of an image is the text of one of its rows.
LEMMA TextIsRead ==
  ASSUME NEW i \in Picture, HasText(i)
  PROVE  i \in Inline \/ \E k \in DOMAIN reading[i] : reading[i][k].text
BY DEF HasText, Known, Unread
LEMMA LeftIs ==
  ASSUME analyst \in [Analyst -> {NotReading} \cup [at : {"reading", "asking"}, of : SUBSET Picture]],
         NEW w \in Analyst, NEW doing \in {"reading", "asking"}, NEW I \in SUBSET Picture,
         Left(w, doing, I)
  PROVE  analyst' \in [Analyst -> {NotReading} \cup [at : {"reading", "asking"}, of : SUBSET Picture]]
<1> DEFINE next == IF I = {} THEN NotReading ELSE [at |-> doing, of |-> I]
<1>1. next \in {NotReading} \cup [at : {"reading", "asking"}, of : SUBSET Picture]
  OBVIOUS
<1> HIDE DEF next
<1>2. analyst' = [analyst EXCEPT ![w] = next]  BY DEF Left, next
<1> QED  BY <1>1, <1>2

LEMMA TouchedIs ==
  ASSUME NEW S \in SUBSET Survey, NEW I \in SUBSET Picture,
         disturbed \in SUBSET (Survey \X Picture)
  PROVE  /\ Touched(S, I) \in SUBSET (Survey \X Picture)
         /\ disturbed \subseteq Touched(S, I)
         /\ \A s \in S, i \in I : finding[s][i].made => <<s, i>> \in Touched(S, I)
<1>1. \A f \in S \X I : f \in Survey \X Picture  OBVIOUS
<1>2. \A s \in S, i \in I : <<s, i>> \in S \X I /\ <<s, i>>[1] = s /\ <<s, i>>[2] = i  OBVIOUS
<1> QED  BY <1>1, <1>2 DEF Touched

\* What a step must leave of an image for its finding to be as it was.
LEMMA SameGroup ==
  ASSUME NEW s, NEW i, Alts(s, i)' = Alts(s, i), reading'[i] = reading[i]
  PROVE  Lookup(Why(s, i))' = Lookup(Why(s, i))
<1>1. Known(i)' = Known(i)  BY DEF Known
<1>2. Why(s, i)' = Why(s, i)  BY <1>1 DEF Why
<1> QED  BY <1>2 DEF Lookup

LEMMA ImagesInitHolds == ImagesInit => ImagesIInv
<1> SUFFICES ASSUME ImagesInit PROVE ImagesIInv
  OBVIOUS
<1> USE DEF ImagesInit
<1>1. [k \in {} |-> Unread] \in UNION {[K -> Reading] : K \in SUBSET Models}
  <2>1. {} \in SUBSET Models /\ [k \in {} |-> Unread] \in [{} -> Reading]
    OBVIOUS
  <2> QED  BY <2>1
<1>2. reading \in [Picture -> UNION {[K -> Reading] : K \in SUBSET Models}]  BY <1>1
<1>7. survey \in Survey /\ passes \in 0..MaxPasses  BY ImagesAssumption DEF Survey
<1>8. analyst \in [Analyst -> {NotReading} \cup [at : {"reading", "asking"}, of : SUBSET Picture]]
  OBVIOUS
<1>9. finding \in [Survey -> [Picture -> {NoFinding} \cup [made : {TRUE}, hint : Hint]]]
  OBVIOUS
<1>3. ImagesTypeOK  BY <1>2, <1>7, <1>8, <1>9 DEF ImagesTypeOK
<1>4. KindsFit  BY DEF KindsFit
<1>5. \A s \in Survey, i \in Picture : ~ finding[s][i].made  BY DEF NoFinding
<1>6. HintFitsGroup /\ FindingsAreGrounded  BY <1>5 DEF HintFitsGroup, FindingsAreGrounded, Made
<1> QED  BY <1>3, <1>4, <1>6 DEF ImagesIInv, ToldOnce

\* A page that is listed: its images are shown, and the others are as they were.
LEMMA ImagesListedAre ==
  ASSUME NEW p \in Sheet, NEW I \in SUBSET Picture, NEW a \in Adequacy,
         NEW same \in SUBSET {o \in shown : o[1] = survey /\ o[2] = p /\ o[3] \in I},
         survey \in Survey, shown \in SUBSET (Survey \X Sheet \X Picture \X Adequacy),
         shown' = ListedOn(p, I, a, same)
  PROVE  /\ shown' \in SUBSET (Survey \X Sheet \X Picture \X Adequacy)
         /\ \A s \in Survey, i \in Picture : Alts(s, i) # {} => Alts(s, i)' # {}
         /\ \A s \in Survey, i \in Picture : ~ (s = survey /\ i \in I) => Alts(s, i)' = Alts(s, i)
<1> DEFINE new == {<<survey, p, i, a>> : i \in I}
<1>1. shown' = (shown \ same) \cup new  BY DEF ListedOn
<1>2. \A o \in new : o \in Survey \X Sheet \X Picture \X Adequacy /\ o[1] = survey /\ o[3] \in I
  OBVIOUS
<1>3. \A i \in I : <<survey, p, i, a>> \in new /\ <<survey, p, i, a>>[1] = survey
                     /\ <<survey, p, i, a>>[3] = i
  OBVIOUS
<1>4. \A o \in same : o[1] = survey /\ o[3] \in I  OBVIOUS
<1> HIDE DEF new
<1>5. \A s, i : ~ (s = survey /\ i \in I) =>
        \A o : o \in shown' /\ o[1] = s /\ o[3] = i <=> o \in shown /\ o[1] = s /\ o[3] = i
  BY <1>1, <1>2, <1>4
<1>6. \A s, i : ~ (s = survey /\ i \in I) =>
        {q \in shown' : q[1] = s /\ q[3] = i} = {q \in shown : q[1] = s /\ q[3] = i}
  BY <1>5
<1>7. \A s, i : ~ (s = survey /\ i \in I) => Alts(s, i)' = Alts(s, i)
  BY <1>6 DEF Alts
<1>8. \A s, i : s = survey /\ i \in I => Alts(s, i)' # {}
  <2> SUFFICES ASSUME NEW s, NEW i, s = survey, i \in I PROVE Alts(s, i)' # {}
    OBVIOUS
  <2>1. <<survey, p, i, a>> \in {q \in shown' : q[1] = s /\ q[3] = i}  BY <1>1, <1>3
  <2> QED  BY <2>1 DEF Alts
<1>9. shown' \in SUBSET (Survey \X Sheet \X Picture \X Adequacy)  BY <1>1, <1>2
<1> QED  BY <1>7, <1>8, <1>9

LEMMA ListHolds == ASSUME ImagesIInv, NEW w \in Analyst, List(w) PROVE ImagesIInv'
<1>1. PICK p \in Sheet, I \in SUBSET Picture, a \in Adequacy :
        LET before == {o \in shown : o[1] = survey /\ o[2] = p /\ o[3] \in I}
        IN /\ \E same \in SUBSET before : shown' = ListedOn(p, I, a, same)
           /\ \E R \in SUBSET (I \ Inline) : Left(w, "reading", R)
           /\ disturbed' = Touched({survey}, I)
  BY DEF List
<1>2. PICK same \in SUBSET {o \in shown : o[1] = survey /\ o[2] = p /\ o[3] \in I} :
        shown' = ListedOn(p, I, a, same)
  BY <1>1
<1>3. PICK R \in SUBSET (I \ Inline) : Left(w, "reading", R)  BY <1>1
<1>4. /\ passes < MaxPasses /\ passes' = passes + 1 /\ disturbed' = Touched({survey}, I)
      /\ UNCHANGED <<survey, reading, finding, story, twice>>
  BY <1>1 DEF List
<1>5. ImagesTypeOK /\ KindsFit /\ HintFitsGroup /\ FindingsAreGrounded /\ ToldOnce  BY DEF ImagesIInv
<1>6. /\ shown' \in SUBSET (Survey \X Sheet \X Picture \X Adequacy)
      /\ \A s \in Survey, i \in Picture : Alts(s, i) # {} => Alts(s, i)' # {}
      /\ \A s \in Survey, i \in Picture : ~ (s = survey /\ i \in I) => Alts(s, i)' = Alts(s, i)
  BY <1>2, <1>5, ImagesListedAre DEF ImagesTypeOK
<1>7. analyst' \in [Analyst -> {NotReading} \cup [at : {"reading", "asking"}, of : SUBSET Picture]]
  <2>1. R \in SUBSET Picture  OBVIOUS
  <2> QED  BY <2>1, <1>3, <1>5, LeftIs DEF ImagesTypeOK
<1>8. /\ disturbed' \in SUBSET (Survey \X Picture) /\ disturbed \subseteq disturbed'
      /\ \A i \in I : finding[survey][i].made => <<survey, i>> \in disturbed'
  BY <1>4, <1>5, TouchedIs DEF ImagesTypeOK
<1>9. ImagesTypeOK'
  <2>1. passes' \in 0..MaxPasses  BY <1>4, <1>5, ImagesAssumption DEF ImagesTypeOK
  <2> QED  BY <2>1, <1>4, <1>5, <1>6, <1>7, <1>8 DEF ImagesTypeOK
<1>10. KindsFit'  BY <1>4, <1>5 DEF KindsFit
<1>11. HintFitsGroup'
  <2> SUFFICES ASSUME NEW s \in Survey, NEW i \in Picture, finding'[s][i].made, <<s, i>> \notin disturbed'
      PROVE finding'[s][i].hint = Lookup(Why(s, i))'
    BY DEF HintFitsGroup
  <2>1. ~ (s = survey /\ i \in I)  BY <1>4, <1>8
  <2>2. Lookup(Why(s, i))' = Lookup(Why(s, i))  BY <2>1, <1>4, <1>6, SameGroup
  <2>3. finding[s][i].hint = Lookup(Why(s, i))  BY <1>4, <1>5, <1>8 DEF HintFitsGroup
  <2> QED  BY <2>2, <2>3, <1>4
<1>12. FindingsAreGrounded'  BY <1>4, <1>5, <1>6 DEF FindingsAreGrounded, Made
<1> QED  BY <1>4, <1>5, <1>9, <1>10, <1>11, <1>12 DEF ImagesIInv, ToldOnce

\* The rows of the images that are read: none is lost, no text goes, and those of
\* the other images stay.
LEMMA ReadingIs ==
  ASSUME ImagesTypeOK, KindsFit, NEW now \in SUBSET Picture, NEW r \in [now -> Reading],
         reading' = [i \in Picture |-> IF i \in now THEN Recorded(reading[i], r[i]) ELSE reading[i]]
  PROVE  /\ reading' \in [Picture -> UNION {[K -> Reading] : K \in SUBSET Models}] /\ KindsFit'
         /\ \A i \in Picture : /\ DOMAIN reading[i] \subseteq DOMAIN reading'[i]
                               /\ (\E k \in DOMAIN reading[i] : reading[i][k].text)
                                    => \E k \in DOMAIN reading'[i] : reading'[i][k].text
                               /\ i \notin now => reading'[i] = reading[i]
<1>1. \A i \in Picture : Fitting(reading[i])  BY DEF ImagesTypeOK, KindsFit, Fitting
<1>2. \A i \in now : r[i] \in Reading  OBVIOUS
<1>3. \A i \in Picture :
        /\ Fitting(reading'[i]) /\ DOMAIN reading[i] \subseteq DOMAIN reading'[i]
        /\ \A k \in DOMAIN reading[i] : reading[i][k].text => reading'[i][k].text
        /\ i \notin now => reading'[i] = reading[i]
  <2> SUFFICES ASSUME NEW i \in Picture
      PROVE /\ Fitting(reading'[i]) /\ DOMAIN reading[i] \subseteq DOMAIN reading'[i]
            /\ \A k \in DOMAIN reading[i] : reading[i][k].text => reading'[i][k].text
            /\ i \notin now => reading'[i] = reading[i]
    OBVIOUS
  <2>1. CASE i \in now
    <3>1. reading'[i] = Recorded(reading[i], r[i])  BY <2>1
    <3> QED  BY <3>1, <2>1, <1>1, <1>2, RecordedFits
  <2>2. CASE i \notin now  BY <2>2, <1>1
  <2> QED  BY <2>1, <2>2
<1>4. reading' = [i \in Picture |-> reading'[i]]  OBVIOUS
<1>5. \A i \in Picture : reading'[i] \in UNION {[K -> Reading] : K \in SUBSET Models}
  BY <1>3 DEF Fitting
<1>6. reading' \in [Picture -> UNION {[K -> Reading] : K \in SUBSET Models}]  BY <1>4, <1>5
<1>7. KindsFit'  BY <1>3 DEF Fitting, KindsFit
<1> QED  BY <1>3, <1>6, <1>7

\* A step that writes rows of some images, and marks what was found in them.
LEMMA ReadingHolds ==
  ASSUME ImagesIInv, NEW now \in SUBSET Picture, NEW r \in [now -> Reading],
         reading' = [i \in Picture |-> IF i \in now THEN Recorded(reading[i], r[i]) ELSE reading[i]],
         disturbed' = Touched(Survey, now),
         analyst' \in [Analyst -> {NotReading} \cup [at : {"reading", "asking"}, of : SUBSET Picture]],
         UNCHANGED <<survey, passes, shown, finding, story, twice>>
  PROVE  ImagesIInv' /\ RowsStay
<1>5. ImagesTypeOK /\ KindsFit /\ HintFitsGroup /\ FindingsAreGrounded /\ ToldOnce  BY DEF ImagesIInv
<1>1. /\ reading' \in [Picture -> UNION {[K -> Reading] : K \in SUBSET Models}] /\ KindsFit'
      /\ \A i \in Picture : /\ DOMAIN reading[i] \subseteq DOMAIN reading'[i]
                            /\ (\E k \in DOMAIN reading[i] : reading[i][k].text)
                                 => \E k \in DOMAIN reading'[i] : reading'[i][k].text
                            /\ i \notin now => reading'[i] = reading[i]
  BY <1>5, ReadingIs
<1>2. /\ disturbed' \in SUBSET (Survey \X Picture) /\ disturbed \subseteq disturbed'
      /\ \A s \in Survey, i \in now : finding[s][i].made => <<s, i>> \in disturbed'
  BY <1>5, TouchedIs DEF ImagesTypeOK
<1>3. ImagesTypeOK'  BY <1>1, <1>2, <1>5 DEF ImagesTypeOK
<1>4. \A s, i : Alts(s, i)' = Alts(s, i)  BY DEF Alts
<1>6. HintFitsGroup'
  <2> SUFFICES ASSUME NEW s \in Survey, NEW i \in Picture, finding'[s][i].made, <<s, i>> \notin disturbed'
      PROVE finding'[s][i].hint = Lookup(Why(s, i))'
    BY DEF HintFitsGroup
  <2>1. i \notin now  BY <1>2
  <2>2. Lookup(Why(s, i))' = Lookup(Why(s, i))  BY <2>1, <1>1, <1>4, SameGroup
  <2>3. finding[s][i].hint = Lookup(Why(s, i))  BY <1>2, <1>5 DEF HintFitsGroup
  <2> QED  BY <2>2, <2>3
<1>7. FindingsAreGrounded'
  <2> SUFFICES ASSUME NEW s \in Survey, NEW i \in Picture, finding[s][i].made
      PROVE  Alts(s, i)' # {} /\ (i \in Inline \/ \E k \in DOMAIN reading'[i] : reading'[i][k].text)
    BY DEF FindingsAreGrounded, Made
  <2>1. Alts(s, i) # {} /\ (i \in Inline \/ \E k \in DOMAIN reading[i] : reading[i][k].text)
    BY <1>5 DEF FindingsAreGrounded, Made
  <2> QED  BY <2>1, <1>1, <1>4
<1> QED  BY <1>1, <1>3, <1>5, <1>6, <1>7 DEF ImagesIInv, ToldOnce, RowsStay

LEMMA ReadTextHolds == ASSUME ImagesIInv, NEW w \in Analyst, ReadText(w) PROVE ImagesIInv' /\ RowsStay
<1>1. PICK T, O \in SUBSET analyst[w].of, ask \in BOOLEAN :
        LET now == IF ask THEN O \ T ELSE O
        IN /\ T \subseteq O /\ Left(w, "asking", O \ now)
           /\ reading' = [i \in Picture |->
                IF i \in now THEN Recorded(reading[i], [text |-> i \in T, label |-> NoLabel])
                ELSE reading[i]]
           /\ disturbed' = Touched(Survey, now)
  BY DEF ReadText
<1> DEFINE now == IF ask THEN O \ T ELSE O
           r == [i \in now |-> [text |-> i \in T, label |-> NoLabel]]
<1>2. ImagesTypeOK  BY DEF ImagesIInv
<1>3. analyst[w].of \subseteq Picture
  BY <1>2 DEF ImagesTypeOK, ReadText, NotReading
<1>4. now \in SUBSET Picture /\ O \ now \in SUBSET Picture  BY <1>3
<1>5. r \in [now -> Reading]
  <2>1. \A i \in now : [text |-> i \in T, label |-> NoLabel] \in Reading  BY DEF Reading
  <2> QED  BY <2>1
<1>6. reading' = [i \in Picture |-> IF i \in now THEN Recorded(reading[i], r[i]) ELSE reading[i]]
  BY <1>1
<1>7. disturbed' = Touched(Survey, now) /\ Left(w, "asking", O \ now)  BY <1>1
<1>8. UNCHANGED <<survey, passes, shown, finding, story, twice>>  BY DEF ReadText
<1> HIDE DEF now, r
<1>9. analyst' \in [Analyst -> {NotReading} \cup [at : {"reading", "asking"}, of : SUBSET Picture]]
  BY <1>2, <1>4, <1>7, LeftIs DEF ImagesTypeOK
<1> QED  BY <1>4, <1>5, <1>6, <1>7, <1>8, <1>9, ReadingHolds

LEMMA ClassifyHolds == ASSUME ImagesIInv, NEW w \in Analyst, Classify(w) PROVE ImagesIInv' /\ RowsStay
<1>1. PICK i \in analyst[w].of, l \in Label \cup {NoLabel} :
        /\ reading' = [reading EXCEPT ![i] = Recorded(@, [text |-> TRUE, label |-> l])]
        /\ disturbed' = Touched(Survey, {i}) /\ Left(w, "asking", analyst[w].of \ {i})
  BY DEF Classify
<1> DEFINE r == [j \in {i} |-> [text |-> TRUE, label |-> l]]
<1>2. ImagesTypeOK  BY DEF ImagesIInv
<1>3. analyst[w].of \subseteq Picture
  BY <1>2 DEF ImagesTypeOK, Classify, NotReading
<1>4. {i} \in SUBSET Picture /\ analyst[w].of \ {i} \in SUBSET Picture  BY <1>3
<1>5. r \in [{i} -> Reading]  BY DEF Reading
<1>6. reading' = [j \in Picture |-> IF j \in {i} THEN Recorded(reading[j], r[j]) ELSE reading[j]]
  BY <1>1, <1>2, <1>4 DEF ImagesTypeOK
<1>7. UNCHANGED <<survey, passes, shown, finding, story, twice>>  BY DEF Classify
<1> HIDE DEF r
<1>8. analyst' \in [Analyst -> {NotReading} \cup [at : {"reading", "asking"}, of : SUBSET Picture]]
  BY <1>1, <1>2, <1>4, LeftIs DEF ImagesTypeOK
<1> QED  BY <1>1, <1>4, <1>5, <1>6, <1>7, <1>8, ReadingHolds

\* The other steps leave what is known and what is found alone.
LEMMA RestHolds ==
  ASSUME ImagesIInv, UNCHANGED <<shown, reading, finding, story, twice, disturbed>>,
         \/ \E w \in Analyst : Abandon(w)
         \/ NextSurvey
         \/ UNCHANGED imageVars
  PROVE  ImagesIInv'
<1>1. /\ survey' \in Survey /\ passes' \in 0..MaxPasses
      /\ analyst' \in [Analyst -> {NotReading} \cup [at : {"reading", "asking"}, of : SUBSET Picture]]
  BY ImagesAssumption DEF Abandon, NextSurvey, ImagesIInv, ImagesTypeOK, Survey, imageVars
<1>2. ImagesTypeOK'  BY <1>1 DEF ImagesIInv, ImagesTypeOK
<1>3. \A s, i : Lookup(Why(s, i))' = Lookup(Why(s, i)) /\ Alts(s, i)' = Alts(s, i)
  BY <1>1 DEF Alts, Known, Why, Lookup
<1>4. KindsFit' /\ HintFitsGroup'  BY <1>1, <1>3 DEF ImagesIInv, KindsFit, HintFitsGroup
<1>5. FindingsAreGrounded'  BY <1>1, <1>3 DEF ImagesIInv, FindingsAreGrounded, Made
<1> QED  BY <1>1, <1>2, <1>4, <1>5 DEF ImagesIInv, ToldOnce

LEMMA PairsAre ==
  ASSUME NEW f, NEW s
  PROVE  \A c \in Pairs(f, s) : c[1] \in Picture
BY DEF Pairs, Made

\* What is told of a scan is new, and of the two scans.
LEMMA ToldIs ==
  ASSUME NEW f, NEW s \in Survey
  PROVE  Told(f, s) \cap story = {} /\ Told(f, s) \subseteq Survey \X Picture \X Change \X Survey
<1>1. 3 - s \in Survey  BY DEF Survey
<1>2. \A k \in Told(f, s) : k \notin story  BY DEF Told, NotYetTold
<1>3. \A k \in Told(f, s) : k \in Survey \X Picture \X Change \X Survey
  BY <1>1, PairsAre DEF Told, Change
<1> QED  BY <1>2, <1>3

LEMMA SynthesizeHolds == ASSUME ImagesIInv, NEW s \in Survey, Synthesize(s) PROVE ImagesIInv'
<1> DEFINE I == Textual(s)
           f == UpsertFinding(s, I)
<1>1. /\ finding' = f /\ disturbed' = disturbed \ ({s} \X I)
      /\ UNCHANGED <<survey, passes, shown, reading, analyst>>
  BY DEF Synthesize
<1>2. PICK told \in {{}, IF survey = 1 THEN {} ELSE Told(f, s)} :
        story' = story \cup told /\ twice' = twice \cup (told \cap story)
  BY DEF Synthesize
<1>3. ImagesTypeOK /\ KindsFit /\ HintFitsGroup /\ FindingsAreGrounded /\ ToldOnce  BY DEF ImagesIInv
<1>4. I \subseteq Picture /\ \A i \in I : Alts(s, i) # {} /\ HasText(i)  BY DEF Textual
<1>5. /\ finding' \in [Survey -> [Picture -> {NoFinding} \cup [made : {TRUE}, hint : Hint]]]
      /\ \A i \in I : finding'[s][i].hint = Lookup(Why(s, i))
      /\ \A q \in Survey, i \in Picture : ~ (q = s /\ i \in I) => finding'[q][i] = finding[q][i]
  <2> DEFINE row == [i \in Picture |-> IF i \in I THEN [made |-> TRUE, hint |-> Lookup(Why(s, i))]
                                       ELSE finding[s][i]]
  <2>1. \A i : Lookup(Why(s, i)) \in Hint  BY HintsAre
  <2>2. finding \in [Survey -> [Picture -> {NoFinding} \cup [made : {TRUE}, hint : Hint]]]
    BY <1>3 DEF ImagesTypeOK
  <2>3. finding' = [finding EXCEPT ![s] = row]  BY <1>1, <2>2 DEF UpsertFinding
  <2>4. row \in [Picture -> {NoFinding} \cup [made : {TRUE}, hint : Hint]]  BY <2>1, <2>2
  <2>5. \A i \in Picture : /\ i \in I => row[i].hint = Lookup(Why(s, i))
                           /\ i \notin I => row[i] = finding[s][i]
    OBVIOUS
  <2> HIDE DEF row, I
  <2>6. finding'[s] = row /\ \A q \in Survey \ {s} : finding'[q] = finding[q]  BY <2>2, <2>3
  <2> QED  BY <2>2, <2>3, <2>4, <2>5, <2>6, <1>4
<1>6. told \cap story = {} /\ told \subseteq Survey \X Picture \X Change \X Survey
  BY <1>2, ToldIs
<1>7. ToldOnce'  BY <1>2, <1>3, <1>6 DEF ToldOnce
<1>8. ImagesTypeOK'
  <2>1. story' \in SUBSET (Survey \X Picture \X Change \X Survey) /\ twice' \subseteq story'
    BY <1>2, <1>3, <1>6 DEF ImagesTypeOK
  <2> QED  BY <2>1, <1>1, <1>3, <1>5 DEF ImagesTypeOK
<1> HIDE DEF I, f
<1>9. \A q, i : Lookup(Why(q, i))' = Lookup(Why(q, i)) /\ Alts(q, i)' = Alts(q, i)
  BY <1>1 DEF Alts, Known, Why, Lookup
<1>10. KindsFit'  BY <1>1, <1>3 DEF KindsFit
<1>11. HintFitsGroup'
  <2> SUFFICES ASSUME NEW q \in Survey, NEW i \in Picture, finding'[q][i].made, <<q, i>> \notin disturbed'
      PROVE finding'[q][i].hint = Lookup(Why(q, i))'
    BY DEF HintFitsGroup
  <2>1. CASE q = s /\ i \in I  BY <2>1, <1>5, <1>9
  <2>2. CASE ~ (q = s /\ i \in I)
    <3>1. <<q, i>> \notin disturbed  BY <2>2, <1>1
    <3>2. finding'[q][i] = finding[q][i]  BY <2>2, <1>5
    <3> QED  BY <3>1, <3>2, <1>3, <1>9 DEF HintFitsGroup
  <2> QED  BY <2>1, <2>2
<1>12. FindingsAreGrounded'
  <2> SUFFICES ASSUME NEW q \in Survey, NEW i \in Picture, finding'[q][i].made
      PROVE  Alts(q, i)' # {} /\ (i \in Inline \/ \E k \in DOMAIN reading'[i] : reading'[i][k].text)
    BY DEF FindingsAreGrounded, Made
  <2>1. CASE q = s /\ i \in I  BY <2>1, <1>1, <1>4, <1>9, TextIsRead
  <2>2. CASE ~ (q = s /\ i \in I)
    <3>1. finding[q][i].made  BY <2>2, <1>5
    <3> QED  BY <3>1, <1>1, <1>3, <1>9 DEF FindingsAreGrounded, Made
  <2> QED  BY <2>1, <2>2
<1> QED  BY <1>7, <1>8, <1>10, <1>11, <1>12 DEF ImagesIInv

LEMMA ImagesNextHolds == ImagesIInv /\ [ImagesNext]_imageVars => ImagesIInv' /\ RowsStay
<1> SUFFICES ASSUME ImagesIInv, [ImagesNext]_imageVars PROVE ImagesIInv' /\ RowsStay
  OBVIOUS
<1>8. UNCHANGED reading => RowsStay  BY DEF RowsStay
<1>1. ASSUME NEW w \in Analyst, List(w) PROVE ImagesIInv' /\ RowsStay
  BY <1>1, <1>8, ListHolds DEF List
<1>2. ASSUME NEW w \in Analyst, ReadText(w) PROVE ImagesIInv' /\ RowsStay  BY <1>2, ReadTextHolds
<1>3. ASSUME NEW w \in Analyst, Classify(w) PROVE ImagesIInv' /\ RowsStay  BY <1>3, ClassifyHolds
<1>4. ASSUME NEW w \in Analyst, Abandon(w) PROVE ImagesIInv' /\ RowsStay
  BY <1>4, <1>8, RestHolds DEF Abandon
<1>5. ASSUME NEW s \in Survey, Synthesize(s) PROVE ImagesIInv' /\ RowsStay
  BY <1>5, <1>8, SynthesizeHolds DEF Synthesize
<1>6. CASE NextSurvey  BY <1>6, <1>8, RestHolds DEF NextSurvey
<1>7. CASE UNCHANGED imageVars  BY <1>7, <1>8, RestHolds DEF imageVars
<1> QED  BY <1>1, <1>2, <1>3, <1>4, <1>5, <1>6, <1>7 DEF ImagesNext

\* What the report and the history say of an image is so, for any images, pages,
\* workers and rules (synthesizer/findings.py, diff.py, image_findings_queries.py).
THEOREM ImagesCorrect == ImagesSpec => []ImageReportHolds
<1>1. ImagesInit => ImagesIInv  BY ImagesInitHolds
<1>2. ImagesIInv /\ [ImagesNext]_imageVars => ImagesIInv'  BY ImagesNextHolds
<1>3. ImagesIInv => ImageReportHolds  BY DEF ImagesIInv, ImageReportHolds
<1> QED  BY <1>1, <1>2, <1>3, PTL DEF ImagesSpec

\* No visit whose model does not answer takes a classification away
\* (upsert_analysis, _images_with_text).
THEOREM LabelsStayCorrect == ImagesSpec => LabelsStay
<1>1. ImagesInit => ImagesIInv  BY ImagesInitHolds
<1>2. ImagesIInv /\ [ImagesNext]_imageVars => ImagesIInv' /\ RowsStay  BY ImagesNextHolds
<1>3. ImagesIInv => \A i \in Picture : (Known(i).label # NoLabel) <=> "vlm" \in DOMAIN reading[i]
  BY KnownIs DEF ImagesIInv
<1>4. (ImagesIInv => \A i \in Picture : (Known(i).label # NoLabel) <=> "vlm" \in DOMAIN reading[i])'
  BY <1>3, PTL
<1>5. ImagesIInv /\ ImagesIInv' /\ RowsStay => LabelStays
  <2> SUFFICES ASSUME ImagesIInv, ImagesIInv', RowsStay, NEW i \in Picture, Known(i).label # NoLabel
      PROVE Known(i)'.label # NoLabel
    BY DEF LabelStays
  <2>1. "vlm" \in DOMAIN reading'[i]  BY <1>3 DEF RowsStay
  <2> QED  BY <2>1, <1>4
<1> QED  BY <1>1, <1>2, <1>5, PTL DEF ImagesSpec, LabelsStay

-----------------------------------------------------------------------------
(* Issues *)

\* What a listing said of an issue stays so for the rows nobody touched.
ListedFits(p) ==
  /\ listing[p].ids \cup listing[p].repeats \subseteq RowsOfIssue(evidence, p)
  /\ \A i \in listing[p].ids \ moved : i \in FirstInstances(evidence, p)
  /\ \A i \in listing[p].repeats : \E j \in listing[p].ids : evidence[j].element = evidence[i].element
  /\ listing[p].triaged \in 0 .. MaxEvidence
  /\ \E D \in SUBSET listing[p].ids :
       /\ Cardinality(D) = listing[p].triaged
       /\ \A i \in listing[p].ids \ moved : i \in D <=> evidence[i].verdict \in TriagedStatus
  /\ listing[p].open = 0 => \A i \in listing[p].ids \ moved : evidence[i].verdict \notin OpenStatus

\* The rows of a filed issue that nobody touched are where they belong.
FiledFits(p) ==
  p \notin unfiled /\ listing[p].ids # {} =>
    /\ receipts[p] = listing[p].triaged
    /\ \A i \in listing[p].ids \ moved :
         /\ i \in cards <=> \/ evidence[i].verdict \in ConfirmedStatus /\ p \in ExpertLead
                            \/ evidence[i].verdict \in OpenStatus /\ p \in Barrier \cap Mapped
         /\ i \in appendixB <=> evidence[i].verdict \in OpenStatus /\ i \notin cards /\ p \notin halfway

\* Only filed rows are in the report.
OnlyFiled ==
  \A i \in cards \cup appendixB :
    /\ i \in DOMAIN evidence /\ i \in listing[evidence[i].problem].ids
    /\ evidence[i].problem \notin unfiled

HalfwayFits ==
  /\ halfway \cap unfiled = {} /\ halfway \subseteq ExpertLead
  /\ \A p, q \in halfway : p = q

\* What was collected is what is there, but for what was touched since.
CollectedFits ==
  /\ stage = "none" => moved = {}
  /\ stage # "none" =>
       /\ \A i \in DOMAIN inventory :
            /\ i \in DOMAIN evidence /\ inventory[i].problem = evidence[i].problem
            /\ inventory[i].element = evidence[i].element
       /\ \A i \in DOMAIN evidence \ moved : i \in DOMAIN inventory /\ inventory[i] = evidence[i]

StageFits ==
  /\ stage \in {"none", "collected"} =>
       listing = Nothing /\ unfiled = {} /\ halfway = {} /\ cards = {} /\ appendixB = {}
  /\ stage \in {"filing", "filed", "referenced"} =>
       \A i \in DOMAIN inventory :
         i \in listing[evidence[i].problem].ids \cup listing[evidence[i].problem].repeats
  /\ stage \in {"filed", "referenced"} =>
       /\ unfiled = {} /\ halfway = {}
       /\ \A i \in (cards \cup appendixB) \ moved : i \in tickets[inventory[i].problem].ids

IssuesIInv ==
  /\ IssuesTypeOK /\ (\A p \in Problem : ListedFits(p) /\ FiledFits(p))
  /\ OnlyFiled /\ HalfwayFits /\ CollectedFits /\ StageFits

-----------------------------------------------------------------------------
\* The rows and what a row is.
LEMMA RowsAre ==
  ASSUME evidence \in Seq(EvidenceRow)
  PROVE  /\ Len(evidence) \in Nat /\ DOMAIN evidence = 1 .. Len(evidence)
         /\ \A i \in DOMAIN evidence :
              /\ evidence[i] \in EvidenceRow /\ evidence[i].page \in Nat /\ evidence[i].problem \in Problem
              /\ evidence[i].element \in Element \cup {PageLevel}
              /\ evidence[i].verdict \in OpenStatus \cup TriagedStatus
<1>1. Len(evidence) \in Nat /\ DOMAIN evidence = 1 .. Len(evidence)
  BY LenProperties
<1>2. \A i \in DOMAIN evidence : evidence[i] \in EvidenceRow
  BY <1>1, LenProperties
<1>. QED  BY <1>1, <1>2, IssuesAssumption DEF EvidenceRow

\* Each element has a first instance.
LEMMA FirstIs ==
  ASSUME evidence \in Seq(EvidenceRow), NEW p, NEW i \in RowsOfIssue(evidence, p),
         evidence[i].element # PageLevel
  PROVE  \E j \in FirstInstances(evidence, p) :
           evidence[j].element = evidence[i].element /\ evidence[j].page <= evidence[i].page
<1> DEFINE S == {j \in RowsOfIssue(evidence, p) : evidence[j].element = evidence[i].element}
           P == {evidence[j].page : j \in S}
<1>1. i \in S /\ S \subseteq DOMAIN evidence /\ DOMAIN evidence \subseteq Nat
      /\ \A j \in S : evidence[j].page \in Nat
  BY RowsAre DEF RowsOfIssue
<1>2. P \in SUBSET Nat /\ P # {}
  BY <1>1
<1>3. PICK g \in P : \A h \in P : g <= h
  BY <1>2, LeastIs
<1> DEFINE T == {j \in S : evidence[j].page = g}
<1>4. T \in SUBSET Nat /\ T # {}
  BY <1>1, <1>3
<1>5. PICK j \in T : \A k \in T : j <= k
  BY <1>4, LeastIs
<1>6. /\ j \in RowsOfIssue(evidence, p) /\ evidence[j].element = evidence[i].element
      /\ evidence[j].page = g /\ evidence[j].page <= evidence[i].page /\ j \in S
  BY <1>1, <1>3, <1>5
<1>7. ASSUME NEW k \in Instances(evidence, p, j) \ {j}
      PROVE  Earlier(evidence, j, k)
  <2>1. k \in S /\ k # j /\ k \in Nat /\ j \in Nat /\ evidence[k].page \in Nat /\ g \in Nat
    BY <1>1, <1>2, <1>4, <1>6 DEF Instances
  <2>2. g <= evidence[k].page
    BY <1>3, <2>1
  <2>3. evidence[k].page = g => j <= k
    BY <1>5, <2>1
  <2>. QED  BY <1>6, <2>1, <2>2, <2>3 DEF Earlier
<1>8. j \in FirstInstances(evidence, p)
  BY <1>6, <1>7 DEF FirstInstances
<1>. QED  BY <1>6, <1>8

LEMMA OnceHolds == IssuesTypeOK => EachRowOnce
<1> SUFFICES ASSUME IssuesTypeOK, NEW i \in DOMAIN evidence
    PROVE  LET p == evidence[i].problem
               issue == IssueOf(evidence, p)
           IN  \/ i \in issue.ids
               \/ /\ i \in issue.repeats /\ evidence[i].element # PageLevel
                  /\ \E j \in issue.ids :
                        /\ evidence[j].element = evidence[i].element
                        /\ evidence[j].page <= evidence[i].page
  BY DEF EachRowOnce
<1> DEFINE p == evidence[i].problem
<1>1. evidence \in Seq(EvidenceRow) /\ i \in RowsOfIssue(evidence, p)
  BY DEF IssuesTypeOK, RowsOfIssue
<1>2. /\ IssueOf(evidence, p).ids = FirstInstances(evidence, p)
      /\ IssueOf(evidence, p).repeats = RowsOfIssue(evidence, p) \ FirstInstances(evidence, p)
  BY DEF IssueOf
<1>3. CASE evidence[i].element = PageLevel
  <2>1. i \in FirstInstances(evidence, p)
    BY <1>1, <1>3 DEF FirstInstances, Instances
  <2>. QED  BY <1>2, <2>1
<1>4. CASE evidence[i].element # PageLevel
  <2>1. \E j \in FirstInstances(evidence, p) :
          evidence[j].element = evidence[i].element /\ evidence[j].page <= evidence[i].page
    BY <1>1, <1>4, FirstIs
  <2>. QED  BY <1>1, <1>2, <1>4, <2>1
<1>. QED  BY <1>3, <1>4

\* What an issue that is listed now says of its rows.
LEMMA ListedIs ==
  ASSUME IssuesTypeOK, NEW p \in Problem, NEW x, x = IssueOf(evidence, p)
  PROVE  /\ x.ids = FirstInstances(evidence, p) /\ x.ids \cup x.repeats = RowsOfIssue(evidence, p)
         /\ \A i \in x.repeats : \E j \in x.ids : evidence[j].element = evidence[i].element
         /\ x.triaged \in 0 .. MaxEvidence
         /\ \E D \in SUBSET x.ids :
              /\ Cardinality(D) = x.triaged
              /\ \A i \in x.ids : i \in D <=> evidence[i].verdict \in TriagedStatus
         /\ x.open = 0 => \A i \in x.ids : evidence[i].verdict \notin OpenStatus
<1> DEFINE F == FirstInstances(evidence, p)
           D == InStatus(evidence, F, TriagedStatus)
           O == InStatus(evidence, F, OpenStatus)
<1>1. /\ x.ids = F /\ x.repeats = RowsOfIssue(evidence, p) \ F
      /\ x.triaged = Cardinality(D) /\ x.open = Cardinality(O)
  BY DEF IssueOf, CountedOpen
<1>2. F \subseteq RowsOfIssue(evidence, p) /\ RowsOfIssue(evidence, p) \subseteq DOMAIN evidence
  BY DEF FirstInstances, RowsOfIssue
<1>3. D \in SUBSET F /\ O \in SUBSET F
  BY DEF InStatus
<1>4. DOMAIN evidence = 1 .. Len(evidence) /\ Len(evidence) \in Nat /\ Len(evidence) <= MaxEvidence
      /\ MaxEvidence \in Nat
  BY RowsAre, IssuesAssumption DEF IssuesTypeOK
<1>5. IsFiniteSet(1 .. Len(evidence)) /\ Cardinality(1 .. Len(evidence)) = Len(evidence)
  <2>1. 1 \in Int /\ Len(evidence) \in Int
    BY <1>4
  <2>2. /\ IsFiniteSet(1 .. Len(evidence))
        /\ Cardinality(1 .. Len(evidence)) = IF 1 > Len(evidence) THEN 0 ELSE Len(evidence) - 1 + 1
    BY <2>1, FS_Interval
  <2>. QED  BY <1>4, <2>2
<1>6. D \in SUBSET (1 .. Len(evidence)) /\ O \in SUBSET (1 .. Len(evidence))
  BY <1>2, <1>3, <1>4
<1> HIDE DEF D, O
<1>7. IsFiniteSet(D) /\ IsFiniteSet(O) /\ Cardinality(D) <= Len(evidence) /\ Cardinality(D) \in Nat
  BY <1>5, <1>6, FS_Subset, FS_CardinalityType
<1>8. Cardinality(O) = 0 => O = {}
  BY <1>7, FS_EmptySet
<1>9. \A i \in x.repeats : \E j \in x.ids : evidence[j].element = evidence[i].element
  <2> SUFFICES ASSUME NEW i \in x.repeats  PROVE \E j \in x.ids : evidence[j].element = evidence[i].element
    OBVIOUS
  <2>1. i \in RowsOfIssue(evidence, p) /\ i \notin F
    BY <1>1
  <2>2. evidence[i].element # PageLevel
    BY <2>1 DEF FirstInstances, Instances
  <2>. QED  BY <1>1, <2>1, <2>2, FirstIs DEF IssuesTypeOK
<1>10. \A i \in F : (i \in D <=> evidence[i].verdict \in TriagedStatus) /\ (i \in O <=> evidence[i].verdict \in OpenStatus)
  BY DEF D, O, InStatus
<1> HIDE DEF F
<1>11. \A i : i \in x.ids \cup x.repeats <=> i \in RowsOfIssue(evidence, p)
  BY <1>1, <1>2
<1>12. x.ids \cup x.repeats = RowsOfIssue(evidence, p)
  BY <1>11, Zenon
<1>13. x.triaged \in 0 .. MaxEvidence
  BY <1>1, <1>4, <1>7
<1>14. \E G \in SUBSET x.ids :
          /\ Cardinality(G) = x.triaged
          /\ \A i \in x.ids : i \in G <=> evidence[i].verdict \in TriagedStatus
  BY <1>1, <1>3, <1>10
<1>15. x.open = 0 => \A i \in x.ids : evidence[i].verdict \notin OpenStatus
  BY <1>1, <1>8, <1>10
<1>16. x.ids = FirstInstances(evidence, p)
  BY <1>1 DEF F
<1>. QED  BY <1>9, <1>12, <1>13, <1>14, <1>15, <1>16, Zenon

\* In each state the invariant gives what is promised.
LEMMA IssuesAreSafe == IssuesIInv => EachRowFiled /\ FilesAgree
<1> SUFFICES ASSUME IssuesIInv  PROVE EachRowFiled /\ FilesAgree
  OBVIOUS
<1>0. /\ IssuesTypeOK /\ \A p \in Problem : ListedFits(p) /\ FiledFits(p)
      /\ evidence \in Seq(EvidenceRow)
  BY DEF IssuesIInv, IssuesTypeOK
<1>1. ASSUME NEW p \in Problem, Placed(p), NEW i \in Untouched(p)
      PROVE  /\ (evidence[i].verdict \in OpenStatus) <=> i \in cards \cup appendixB
             /\ i \in cards <=> \/ evidence[i].verdict \in ConfirmedStatus /\ p \in ExpertLead
                                \/ evidence[i].verdict \in OpenStatus
                                   /\ p \in Barrier \cap Mapped
             /\ i \notin cards \cap appendixB
  <2>1. p \notin unfiled /\ p \notin halfway /\ listing[p].ids # {} /\ i \in listing[p].ids \ moved
    BY <1>1 DEF Placed, Untouched
  <2>2. /\ i \in cards <=> \/ evidence[i].verdict \in ConfirmedStatus /\ p \in ExpertLead
                           \/ evidence[i].verdict \in OpenStatus /\ p \in Barrier \cap Mapped
        /\ i \in appendixB <=> evidence[i].verdict \in OpenStatus /\ i \notin cards /\ p \notin halfway
    BY <1>0, <2>1 DEF FiledFits
  <2>3. ConfirmedStatus \subseteq OpenStatus
    BY DEF ConfirmedStatus, OpenStatus
  <2>. QED  BY <2>1, <2>2, <2>3
<1>2. ASSUME NEW p \in Problem, Placed(p)
      PROVE  LET decided == Cardinality(InStatus(evidence, Untouched(p), TriagedStatus))
                 touched == Cardinality(listing[p].ids \cap moved)
             IN  decided <= receipts[p] /\ receipts[p] <= decided + touched
  <2> DEFINE L == listing[p].ids
             U == InStatus(evidence, Untouched(p), TriagedStatus)
             M == L \cap moved
  <2>1. receipts[p] = listing[p].triaged
    BY <1>0, <1>2 DEF FiledFits, Placed
  <2>2. PICK D \in SUBSET L :
          /\ Cardinality(D) = listing[p].triaged
          /\ \A i \in L \ moved : i \in D <=> evidence[i].verdict \in TriagedStatus
    BY <1>0 DEF ListedFits
  <2>3. \A i : i \in U <=> i \in D \ moved
    BY <2>2 DEF InStatus, Untouched
  <2>4. U = D \ M
    <3>1. \A i : i \in U <=> i \in D \ M
      BY <2>2, <2>3
    <3> HIDE DEF U, M
    <3>. QED  BY <3>1, Zenon
  <2>5. IsFiniteSet(D) /\ IsFiniteSet(M) /\ IsFiniteSet(D \cap M)
    <3>1. L \in SUBSET (1 .. Len(evidence)) /\ 1 \in Int /\ Len(evidence) \in Int
      BY <1>0, RowsAre DEF ListedFits, RowsOfIssue
    <3>2. IsFiniteSet(1 .. Len(evidence))
      BY <3>1, FS_Interval
    <3>3. D \in SUBSET (1 .. Len(evidence)) /\ M \in SUBSET (1 .. Len(evidence))
          /\ D \cap M \in SUBSET (1 .. Len(evidence))
      BY <3>1
    <3>. QED  BY <3>2, <3>3, FS_Subset
  <2> HIDE DEF U, M
  <2>6. /\ Cardinality(D \ M) = Cardinality(D) - Cardinality(D \cap M)
        /\ Cardinality(D \cap M) <= Cardinality(M)
    BY <2>5, FS_Difference, FS_Intersection
  <2>7. Cardinality(D) \in Nat /\ Cardinality(M) \in Nat /\ Cardinality(D \cap M) \in Nat
    BY <2>5, FS_CardinalityType
  <2>8. Cardinality(U) = Cardinality(D \ M)
    BY <2>4, Zenon
  <2>9. Cardinality(U) <= receipts[p] /\ receipts[p] <= Cardinality(U) + Cardinality(M)
    BY <2>1, <2>2, <2>6, <2>7, <2>8
  <2>. QED  BY <2>9 DEF U, M
<1>3. EachRowFiled
  BY <1>1, <1>2 DEF EachRowFiled
<1>4. ASSUME stage \in {"filed", "referenced"}, NEW i \in JiraRows \ moved
      PROVE  \/ i \in cards \cup appendixB
             \/ \E j \in listing[inventory[i].problem].ids :
                   /\ i \in listing[inventory[i].problem].repeats
                   /\ evidence[j].element = inventory[i].element
  <2> DEFINE p == evidence[i].problem
  <2>1. i \in DOMAIN inventory /\ inventory[i].verdict \notin TriagedStatus
    BY DEF JiraRows
  <2>2. i \in DOMAIN evidence /\ inventory[i] = evidence[i]
    BY <1>4, <2>1 DEF IssuesIInv, CollectedFits
  <2>3. p \in Problem /\ evidence[i].verdict \in OpenStatus
    BY <1>0, <2>1, <2>2, RowsAre
  <2>4. i \in listing[p].ids \cup listing[p].repeats /\ unfiled = {} /\ halfway = {}
    BY <1>4, <2>1 DEF IssuesIInv, StageFits
  <2>5. CASE i \in listing[p].ids
    <3>1. Placed(p) /\ i \in Untouched(p)
      BY <2>4, <2>5 DEF Placed, Untouched
    <3>. QED  BY <1>1, <2>3, <3>1
  <2>6. CASE i \in listing[p].repeats
    <3>1. \E j \in listing[p].ids : evidence[j].element = evidence[i].element
      BY <1>0, <2>3, <2>6 DEF ListedFits
    <3>. QED  BY <2>2, <2>6, <3>1
  <2>. QED  BY <2>4, <2>5, <2>6
<1>5. FilesAgree
  BY <1>4 DEF FilesAgree, IssuesIInv, StageFits
<1>. QED  BY <1>3, <1>5
-----------------------------------------------------------------------------
\* What a step of a crawler or of a reviewer has to see to.
Commits ==
  /\ \A i \in DOMAIN evidence :
       /\ i \in DOMAIN evidence' /\ evidence'[i].problem = evidence[i].problem
       /\ evidence'[i].element = evidence[i].element
  /\ moved \subseteq moved'
  /\ stage = "none" => moved' = moved
  /\ stage # "none" =>
       /\ \A i \in DOMAIN evidence \ moved' : evidence'[i] = evidence[i]
       /\ \A i \in DOMAIN evidence' \ DOMAIN evidence : i \in moved'
       /\ \A p \in Problem : \A i \in FirstInstances(evidence, p) \ moved' : i \in FirstInstances(evidence', p)
  /\ UNCHANGED <<stage, inventory, listing, unfiled, halfway, cards, appendixB, receipts, tickets, references>>

LEMMA CommitHolds == ASSUME IssuesIInv, IssuesTypeOK', Commits  PROVE IssuesIInv'
<1>0. /\ IssuesTypeOK /\ \A p \in Problem : ListedFits(p) /\ FiledFits(p)
      /\ evidence \in Seq(EvidenceRow)
  BY DEF IssuesIInv, IssuesTypeOK
<1>1. CASE stage = "none"
  <2>1. /\ \A p \in Problem : listing[p] = NoIssue
        /\ listing = Nothing /\ cards = {} /\ appendixB = {} /\ unfiled = {} /\ halfway = {} /\ moved = {}
    BY <1>1 DEF IssuesIInv, StageFits, CollectedFits, Nothing
  <2>2. UNCHANGED <<stage, inventory, listing, unfiled, halfway, cards, appendixB, receipts, moved>>
    BY <1>1 DEF Commits
  <2>3. ASSUME NEW p \in Problem  PROVE ListedFits(p)' /\ FiledFits(p)'
    <3>1. listing'[p].ids = {} /\ listing'[p].repeats = {}
      BY <2>1, <2>2 DEF NoIssue
    <3>2. ListedFits(p)
      BY <1>0
    <3>. QED  BY <2>2, <3>1, <3>2 DEF ListedFits, FiledFits
  <2>. QED  BY <1>1, <2>1, <2>2, <2>3 DEF IssuesIInv, OnlyFiled, HalfwayFits, CollectedFits, StageFits
<1>2. CASE stage # "none"
  <2>1. /\ \A i \in DOMAIN evidence : i \notin moved' => evidence'[i] = evidence[i]
        /\ \A i : i \notin moved' => i \notin moved
        /\ UNCHANGED <<stage, inventory, listing, unfiled, halfway, cards, appendixB, receipts, tickets>>
    BY <1>2 DEF Commits
  <2>2. ASSUME NEW p \in Problem  PROVE ListedFits(p)' /\ FiledFits(p)'
    <3>1. /\ listing'[p] = listing[p] /\ ListedFits(p) /\ FiledFits(p)
          /\ \A i \in RowsOfIssue(evidence, p) : i \in RowsOfIssue(evidence', p)
          /\ RowsOfIssue(evidence, p) \subseteq DOMAIN evidence
      BY <1>0, <2>1 DEF Commits, RowsOfIssue
    <3>2. FiledFits(p)'
      BY <2>1, <3>1 DEF FiledFits, ListedFits
    <3>3. \A i \in listing[p].ids \ moved' : i \in FirstInstances(evidence', p)
      BY <1>2, <2>1, <3>1 DEF ListedFits, Commits
    <3>4. \A i \in listing[p].repeats : \E j \in listing[p].ids : evidence'[j].element = evidence'[i].element
      BY <3>1 DEF ListedFits, Commits
    <3>5. \E D \in SUBSET listing[p].ids :
            /\ Cardinality(D) = listing[p].triaged
            /\ \A i \in listing[p].ids \ moved' : i \in D <=> evidence'[i].verdict \in TriagedStatus
      <4>1. PICK D \in SUBSET listing[p].ids :
              /\ Cardinality(D) = listing[p].triaged
              /\ \A i \in listing[p].ids \ moved : i \in D <=> evidence[i].verdict \in TriagedStatus
        BY <3>1 DEF ListedFits
      <4>2. \A i \in listing[p].ids \ moved' : i \in D <=> evidence'[i].verdict \in TriagedStatus
        BY <2>1, <3>1, <4>1 DEF ListedFits
      <4>. QED  BY <4>1, <4>2
    <3>6. listing[p].open = 0 => \A i \in listing[p].ids \ moved' : evidence'[i].verdict \notin OpenStatus
      BY <2>1, <3>1 DEF ListedFits
    <3>7. ListedFits(p)'
      BY <3>1, <3>3, <3>4, <3>5, <3>6 DEF ListedFits
    <3>. QED  BY <3>2, <3>7
  <2>3. OnlyFiled'
    BY <2>1 DEF Commits, IssuesIInv, OnlyFiled
  <2>4. HalfwayFits'
    BY <2>1 DEF IssuesIInv, HalfwayFits
  <2>5. CollectedFits'
    BY <1>2, <2>1 DEF Commits, IssuesIInv, CollectedFits
  <2>6. StageFits'
    BY <1>2, <2>1 DEF Commits, IssuesIInv, StageFits, CollectedFits
  <2>. QED  BY <2>2, <2>3, <2>4, <2>5, <2>6 DEF IssuesIInv
<1>. QED  BY <1>1, <1>2

LEMMA StoreCommits ==
  ASSUME IssuesIInv, NEW g \in 1 .. StoredPages, NEW p \in Problem, NEW e \in Element \cup {PageLevel},
         StoreRow(g, p, e)
  PROVE  IssuesTypeOK' /\ Commits
<1> DEFINE row == [page |-> g, problem |-> p, element |-> e, verdict |-> "new"]
           n == Len(evidence) + 1
<1>1. row \in EvidenceRow
  BY DEF EvidenceRow, OpenStatus
<1>2. /\ Len(evidence) < MaxEvidence /\ evidence' = Append(evidence, row)
      /\ moved' = IF stage = "none" THEN moved ELSE moved \cup Instances(evidence', p, Len(evidence'))
      /\ UNCHANGED <<verdicts, stage, inventory, listing, unfiled, halfway,
                     cards, appendixB, receipts, tickets, references>>
  BY DEF StoreRow, ExportBegun
<1>3. evidence \in Seq(EvidenceRow) /\ Len(evidence) \in Nat /\ DOMAIN evidence = 1 .. Len(evidence)
  BY RowsAre DEF IssuesIInv, IssuesTypeOK
<1> HIDE DEF row
<1>4. /\ evidence' \in Seq(EvidenceRow) /\ Len(evidence') = n
      /\ \A i \in 1 .. Len(evidence) : evidence'[i] = evidence[i]
      /\ evidence'[n] = row
  BY <1>1, <1>2, <1>3, AppendProperties
<1>5. DOMAIN evidence' = 1 .. n
  BY <1>4, LenProperties
<1>6. evidence'[n].problem = p /\ evidence'[n].element = e
  BY <1>4 DEF row
<1>7. n \in DOMAIN evidence' /\ n \notin DOMAIN evidence
      /\ \A i \in DOMAIN evidence' : i # n => i \in DOMAIN evidence /\ evidence'[i] = evidence[i]
  BY <1>3, <1>4, <1>5
<1> HIDE DEF n
<1>8. \A q : \A i : i \in RowsOfIssue(evidence', q) <=> i \in RowsOfIssue(evidence, q) \/ (i = n /\ q = p)
  BY <1>3, <1>4, <1>5, <1>6, <1>7 DEF RowsOfIssue
<1>9. stage # "none" => moved' = moved \cup Instances(evidence', p, n)
  BY <1>2, <1>4
<1>10. n \in Instances(evidence', p, n) /\ Instances(evidence', p, n) \subseteq DOMAIN evidence'
  BY <1>6, <1>7, <1>8 DEF Instances, RowsOfIssue
<1>11. ASSUME stage # "none", NEW q \in Problem, NEW i \in FirstInstances(evidence, q), i \notin moved'
       PROVE  i \in FirstInstances(evidence', q)
  <2>1. i \in RowsOfIssue(evidence, q) /\ i \in RowsOfIssue(evidence', q) /\ i \in DOMAIN evidence
        /\ evidence'[i] = evidence[i]
    BY <1>3, <1>4, <1>8 DEF FirstInstances, RowsOfIssue
  <2>2. ASSUME NEW j \in Instances(evidence', q, i) \ {i}
        PROVE  Earlier(evidence', i, j)
    <3>1. j \in RowsOfIssue(evidence', q) /\ evidence[i].element # PageLevel
          /\ evidence'[j].element = evidence[i].element
      BY <2>1, <2>2 DEF Instances
    <3>2. ASSUME j = n  PROVE FALSE
      <4>1. q = p /\ evidence'[n].element = evidence'[i].element /\ evidence'[n].element # PageLevel
        BY <1>7, <1>8, <2>1, <3>1, <3>2 DEF RowsOfIssue
      <4>2. i \in Instances(evidence', p, n)
        BY <2>1, <4>1 DEF Instances
      <4>. QED  BY <1>9, <1>11, <4>2
    <3>3. j \in RowsOfIssue(evidence, q) /\ evidence'[j] = evidence[j]
      BY <1>7, <1>8, <3>1, <3>2 DEF RowsOfIssue
    <3>4. j \in Instances(evidence, q, i) \ {i}
      BY <2>2, <3>1, <3>3 DEF Instances
    <3>5. Earlier(evidence, i, j)
      BY <3>4 DEF FirstInstances
    <3>. QED  BY <2>1, <3>3, <3>5 DEF Earlier
  <2>. QED  BY <2>1, <2>2 DEF FirstInstances
<1>12. IssuesTypeOK'
  <2>1. moved' \subseteq 1 .. MaxEvidence
    <3>1. DOMAIN evidence' \subseteq 1 .. MaxEvidence
      BY <1>2, <1>3, <1>5, IssuesAssumption DEF n
    <3>. QED  BY <1>2, <1>9, <1>10, <3>1 DEF IssuesIInv, IssuesTypeOK
  <2>2. Len(evidence') <= MaxEvidence
    BY <1>2, <1>3, <1>4, IssuesAssumption DEF n
  <2>. QED  BY <1>2, <1>4, <2>1, <2>2 DEF IssuesIInv, IssuesTypeOK
<1>13. Commits
  BY <1>2, <1>3, <1>4, <1>7, <1>9, <1>10, <1>11 DEF Commits
<1>. QED  BY <1>12, <1>13

LEMMA SetStatusCommits ==
  ASSUME IssuesIInv, NEW S \in SUBSET DOMAIN evidence, NEW v \in Verdict, SetStatus(S, v)
  PROVE  IssuesTypeOK' /\ Commits
<1>1. /\ evidence' = [i \in DOMAIN evidence |->
                      IF i \in S THEN [evidence[i] EXCEPT !.verdict = v] ELSE evidence[i]]
      /\ verdicts < MaxVerdicts /\ verdicts' = verdicts + 1
      /\ moved' = IF stage # "none" THEN moved \cup S ELSE moved
      /\ UNCHANGED <<stage, inventory, listing, unfiled, halfway, cards, appendixB,
                     receipts, tickets, references>>
  BY DEF SetStatus, ExportBegun
<1>2. /\ evidence \in Seq(EvidenceRow) /\ Len(evidence) \in Nat /\ DOMAIN evidence = 1 .. Len(evidence)
      /\ \A i \in DOMAIN evidence : evidence[i] \in EvidenceRow
  BY RowsAre DEF IssuesIInv, IssuesTypeOK
<1>3. DOMAIN evidence' = DOMAIN evidence
  BY <1>1
<1>4. \A i \in DOMAIN evidence :
        /\ evidence'[i] \in EvidenceRow
        /\ evidence'[i].problem = evidence[i].problem /\ evidence'[i].page = evidence[i].page
        /\ evidence'[i].element = evidence[i].element
        /\ i \notin S => evidence'[i] = evidence[i]
  <2> SUFFICES ASSUME NEW i \in DOMAIN evidence
               PROVE  /\ evidence'[i] \in EvidenceRow
                      /\ evidence'[i].problem = evidence[i].problem /\ evidence'[i].page = evidence[i].page
                      /\ evidence'[i].element = evidence[i].element
                      /\ i \notin S => evidence'[i] = evidence[i]
    OBVIOUS
  <2>1. v \in OpenStatus \cup TriagedStatus
    BY VerdictAssumption
  <2>2. evidence'[i] = IF i \in S THEN [evidence[i] EXCEPT !.verdict = v] ELSE evidence[i]
    BY <1>1
  <2>. QED  BY <1>2, <2>1, <2>2 DEF EvidenceRow
<1>5. evidence' \in Seq(EvidenceRow) /\ Len(evidence') = Len(evidence)
  <2>1. evidence' = [i \in 1 .. Len(evidence) |-> evidence'[i]]
    BY <1>1, <1>2
  <2>2. evidence' \in [1 .. Len(evidence) -> EvidenceRow]
    BY <1>2, <1>4, <2>1
  <2>. QED  BY <1>2, <2>2
<1>6. IssuesTypeOK'
  <2>1. moved' \subseteq 1 .. MaxEvidence
    BY <1>1, <1>2, IssuesAssumption DEF IssuesIInv, IssuesTypeOK
  <2>2. verdicts' \in 0 .. MaxVerdicts
    BY <1>1, IssuesAssumption DEF IssuesIInv, IssuesTypeOK
  <2>. QED  BY <1>1, <1>5, <2>1, <2>2 DEF IssuesIInv, IssuesTypeOK
<1>7. \A p : \A i : i \in RowsOfIssue(evidence', p) <=> i \in RowsOfIssue(evidence, p)
  BY <1>3, <1>4 DEF RowsOfIssue
<1>8. \A p \in Problem : \A i \in FirstInstances(evidence, p) : i \in FirstInstances(evidence', p)
  <2> SUFFICES ASSUME NEW p \in Problem, NEW i \in FirstInstances(evidence, p)
               PROVE  i \in FirstInstances(evidence', p)
    OBVIOUS
  <2>1. i \in RowsOfIssue(evidence, p) /\ i \in RowsOfIssue(evidence', p) /\ i \in DOMAIN evidence
    BY <1>7 DEF FirstInstances, RowsOfIssue
  <2>2. ASSUME NEW j \in Instances(evidence', p, i) \ {i}
        PROVE  Earlier(evidence', i, j)
    <3>1. j \in RowsOfIssue(evidence', p) /\ evidence'[i].element # PageLevel
          /\ evidence'[j].element = evidence'[i].element
      BY <2>2 DEF Instances
    <3>2. j \in RowsOfIssue(evidence, p) /\ j \in DOMAIN evidence
      BY <1>7, <3>1 DEF RowsOfIssue
    <3>3. j \in Instances(evidence, p, i) \ {i}
      BY <1>4, <2>1, <2>2, <3>1, <3>2 DEF Instances
    <3>4. Earlier(evidence, i, j)
      BY <3>3 DEF FirstInstances
    <3>. QED  BY <1>4, <2>1, <3>2, <3>4 DEF Earlier
  <2>. QED  BY <2>1, <2>2 DEF FirstInstances
<1>9. Commits
  BY <1>1, <1>3, <1>4, <1>8 DEF Commits
<1>. QED  BY <1>6, <1>9

\* What crawlers, reviewers and nobody do.
LEMMA CommitsAre ==
  ASSUME IssuesIInv, \/ \E g \in 1 .. StoredPages, p \in Problem, e \in Element \cup {PageLevel} : StoreRow(g, p, e)
                     \/ SettleIssue \/ SettleRow \/ UNCHANGED issuesVars
  PROVE  IssuesTypeOK' /\ Commits
<1>1. CASE SettleIssue \/ SettleRow
  <2>1. PICK S \in SUBSET DOMAIN evidence, v \in Verdict : SetStatus(S, v)
    BY <1>1 DEF SettleIssue, SettleRow, FirstInstances, RowsOfIssue
  <2>. QED  BY <2>1, SetStatusCommits
<1>2. CASE UNCHANGED issuesVars
  BY <1>2 DEF issuesVars, Commits, IssuesIInv, IssuesTypeOK
<1>. QED  BY <1>1, <1>2, StoreCommits

LEMMA CollectHolds == ASSUME IssuesIInv, Collect  PROVE IssuesIInv'
<1>1. /\ stage = "none" /\ stage' = "collected" /\ inventory' = evidence
      /\ UNCHANGED <<evidence, verdicts, listing, unfiled, halfway, cards,
                     appendixB, receipts, tickets, references, moved>>
  BY DEF Collect
<1>2. \A i \in DOMAIN evidence : evidence[i] \in EvidenceRow
  BY RowsAre DEF IssuesIInv, IssuesTypeOK
<1>3. IssuesTypeOK'
  BY <1>1, <1>2 DEF IssuesIInv, IssuesTypeOK
<1>4. \A p \in Problem : ListedFits(p)' /\ FiledFits(p)'
  BY <1>1 DEF IssuesIInv, ListedFits, FiledFits
<1>. QED  BY <1>1, <1>3, <1>4 DEF IssuesIInv, OnlyFiled, HalfwayFits, CollectedFits, StageFits

LEMMA ListForReportHolds == ASSUME IssuesIInv, ListForReport  PROVE IssuesIInv'
<1>0. IssuesTypeOK /\ evidence \in Seq(EvidenceRow)
  BY DEF IssuesIInv, IssuesTypeOK
<1>1. /\ stage = "collected" /\ stage' = "filing" /\ listing' = ListIssues(evidence)
      /\ unfiled' = {p \in Problem : RowsOfIssue(evidence, p) # {}}
      /\ UNCHANGED <<evidence, verdicts, inventory, halfway, cards, appendixB,
                     receipts, tickets, references, moved>>
  BY DEF ListForReport
<1>2. cards = {} /\ appendixB = {} /\ halfway = {}
  BY <1>1 DEF IssuesIInv, StageFits
<1>3. DOMAIN listing' = Problem /\ \A p \in Problem : listing'[p] = IssueOf(evidence, p)
  BY <1>1 DEF ListIssues
<1>4. IssuesTypeOK'
  BY <1>0, <1>1, <1>3 DEF IssuesTypeOK
<1>5. ASSUME NEW p \in Problem
      PROVE  /\ ListedFits(p)' /\ FiledFits(p)'
             /\ listing'[p].ids \cup listing'[p].repeats = RowsOfIssue(evidence, p)
  <2> DEFINE x == listing'[p]
  <2>1. x = IssueOf(evidence, p)
    BY <1>3
  <2> HIDE DEF x
  <2>2. /\ x.ids = FirstInstances(evidence, p) /\ x.ids \cup x.repeats = RowsOfIssue(evidence, p)
        /\ \A i \in x.repeats : \E j \in x.ids : evidence[j].element = evidence[i].element
        /\ x.triaged \in 0 .. MaxEvidence
        /\ \E D \in SUBSET x.ids :
             /\ Cardinality(D) = x.triaged
             /\ \A i \in x.ids : i \in D <=> evidence[i].verdict \in TriagedStatus
        /\ x.open = 0 => \A i \in x.ids : evidence[i].verdict \notin OpenStatus
    BY <1>0, <2>1, ListedIs
  <2>3. \E D \in SUBSET x.ids :
          /\ Cardinality(D) = x.triaged
          /\ \A i \in x.ids \ moved : i \in D <=> evidence[i].verdict \in TriagedStatus
    <3>1. PICK D \in SUBSET x.ids :
            /\ Cardinality(D) = x.triaged
            /\ \A i \in x.ids : i \in D <=> evidence[i].verdict \in TriagedStatus
      BY <2>2
    <3>. QED  BY <3>1
  <2>4. /\ x.ids \cup x.repeats \subseteq RowsOfIssue(evidence, p)
        /\ \A i \in x.ids \ moved : i \in FirstInstances(evidence, p)
        /\ x.open = 0 => \A i \in x.ids \ moved : evidence[i].verdict \notin OpenStatus
    BY <2>2
  <2>5. ListedFits(p)'
    BY <1>1, <2>2, <2>3, <2>4 DEF ListedFits, x
  <2>6. x.ids # {} => p \in unfiled'
    BY <1>1, <2>4
  <2>7. FiledFits(p)'
    BY <2>6 DEF FiledFits, x
  <2>. QED  BY <2>2, <2>5, <2>7 DEF x
<1>6. ASSUME NEW i \in DOMAIN inventory'
      PROVE  i \in listing'[evidence'[i].problem].ids \cup listing'[evidence'[i].problem].repeats
  <2>1. i \in DOMAIN evidence /\ evidence' = evidence
    BY <1>1, <1>6 DEF IssuesIInv, CollectedFits
  <2>2. evidence[i].problem \in Problem /\ i \in RowsOfIssue(evidence, evidence[i].problem)
    BY <1>0, <2>1, RowsAre DEF RowsOfIssue
  <2>. QED  BY <1>5, <2>1, <2>2
<1>7. StageFits'
  BY <1>1, <1>6 DEF StageFits
<1>8. CollectedFits'
  BY <1>1 DEF IssuesIInv, CollectedFits
<1>9. OnlyFiled' /\ HalfwayFits'
  BY <1>1, <1>2 DEF OnlyFiled, HalfwayFits
<1>. QED  BY <1>4, <1>5, <1>7, <1>8, <1>9 DEF IssuesIInv
\* An issue is filed: what a step puts in the cards and in the leads.
LEMMA FiledHolds ==
  ASSUME IssuesIInv, IssuesTypeOK', NEW p \in Problem, NEW C \in SUBSET listing[p].ids, NEW A \in SUBSET listing[p].ids,
         stage = "filing", halfway = {}, p \in unfiled,
         unfiled' = unfiled \ {p}, receipts' = [receipts EXCEPT ![p] = listing[p].triaged],
         halfway' = {} \/ (halfway' = {p} /\ p \in ExpertLead),
         cards' = cards \cup C, appendixB' = appendixB \cup A,
         \A i \in listing[p].ids \ moved :
           /\ i \in C <=> \/ evidence[i].verdict \in ConfirmedStatus /\ p \in ExpertLead
                          \/ evidence[i].verdict \in OpenStatus /\ p \in Barrier \cap Mapped
           /\ i \in A <=> evidence[i].verdict \in OpenStatus /\ i \notin C /\ p \notin halfway',
         UNCHANGED <<evidence, stage, inventory, listing, tickets, moved>>
  PROVE  IssuesIInv'
<1>0. /\ IssuesTypeOK /\ \A q \in Problem : ListedFits(q) /\ FiledFits(q)
  BY DEF IssuesIInv
<1>1. \A q \in Problem : ListedFits(q)'
  BY <1>0 DEF ListedFits
<1>2. \A q \in Problem : \A i \in listing[q].ids : i \in DOMAIN evidence /\ evidence[i].problem = q
  BY <1>0 DEF ListedFits, RowsOfIssue
<1>3. \A i \in listing[p].ids : i \notin cards \cup appendixB
  BY <1>2 DEF IssuesIInv, OnlyFiled
<1>4. FiledFits(p)'
  <2>1. receipts'[p] = listing[p].triaged
    BY <1>0 DEF IssuesTypeOK
  <2>2. \A i \in listing[p].ids : (i \in cards' <=> i \in C) /\ (i \in appendixB' <=> i \in A)
    BY <1>3
  <2>. QED  BY <2>1, <2>2 DEF FiledFits
<1>5. ASSUME NEW q \in Problem, q # p
      PROVE  FiledFits(q)'
  <2>1. \A i \in listing[q].ids : (i \in cards' <=> i \in cards) /\ (i \in appendixB' <=> i \in appendixB)
    BY <1>2, <1>5
  <2>2. receipts'[q] = receipts[q] /\ (q \in unfiled' <=> q \in unfiled) /\ q \notin halfway /\ q \notin halfway'
    BY <1>0, <1>5 DEF IssuesTypeOK
  <2>. QED  BY <1>0, <2>1, <2>2 DEF FiledFits
<1>6. OnlyFiled'
  BY <1>2 DEF IssuesIInv, OnlyFiled
<1>7. HalfwayFits' /\ CollectedFits' /\ StageFits'
  BY DEF IssuesIInv, HalfwayFits, CollectedFits, StageFits
<1>. QED  BY <1>1, <1>4, <1>5, <1>6, <1>7 DEF IssuesIInv

\* The types, whatever of an issue's rows a step files.
LEMMA FiledTypes ==
  ASSUME IssuesIInv, NEW p \in Problem, NEW st
  PROVE  /\ Projected(p, st) \in SUBSET listing[p].ids /\ Projected(p, st) \subseteq 1 .. MaxEvidence
         /\ [receipts EXCEPT ![p] = listing[p].triaged] \in [Problem -> 0 .. MaxEvidence]
         /\ \A i : i \in Projected(p, st) <=> i \in listing[p].ids /\ evidence[i].verdict \in st
         /\ \A i \in listing[p].ids : evidence[i].verdict \in OpenStatus \cup TriagedStatus
<1>1. ListedFits(p) /\ receipts \in [Problem -> 0 .. MaxEvidence]
  BY DEF IssuesIInv, IssuesTypeOK
<1>2. /\ Len(evidence) \in Nat /\ DOMAIN evidence = 1 .. Len(evidence) /\ Len(evidence) <= MaxEvidence
      /\ \A i \in DOMAIN evidence : evidence[i].verdict \in OpenStatus \cup TriagedStatus
  BY RowsAre DEF IssuesIInv, IssuesTypeOK
<1>3. listing[p].ids \subseteq DOMAIN evidence /\ listing[p].triaged \in 0 .. MaxEvidence
  BY <1>1 DEF ListedFits, RowsOfIssue
<1>. QED  BY <1>1, <1>2, <1>3, IssuesAssumption DEF Projected, InStatus

LEMMA FileTriagedHolds == ASSUME IssuesIInv, NEW p \in Problem, FileTriaged(p)  PROVE IssuesIInv'
<1>1. /\ stage = "filing" /\ halfway = {} /\ p \in unfiled /\ listing[p].open = 0
      /\ receipts' = [receipts EXCEPT ![p] = listing[p].triaged] /\ unfiled' = unfiled \ {p}
      /\ UNCHANGED <<evidence, verdicts, stage, inventory, listing, halfway, cards,
                     appendixB, tickets, references, moved>>
  BY DEF FileTriaged, Filing
<1>2. IssuesTypeOK'
  BY <1>1, FiledTypes DEF IssuesIInv, IssuesTypeOK
<1>3. \A i \in listing[p].ids \ moved : evidence[i].verdict \notin OpenStatus
  BY <1>1 DEF IssuesIInv, ListedFits
<1>4. ConfirmedStatus \subseteq OpenStatus
  BY DEF ConfirmedStatus, OpenStatus
<1> DEFINE C == {}
<1>5. /\ C \in SUBSET listing[p].ids /\ cards' = cards \cup C /\ appendixB' = appendixB \cup C
      /\ \A i \in listing[p].ids \ moved :
           /\ i \in C <=> \/ evidence[i].verdict \in ConfirmedStatus /\ p \in ExpertLead
                          \/ evidence[i].verdict \in OpenStatus /\ p \in Barrier \cap Mapped
           /\ i \in C <=> evidence[i].verdict \in OpenStatus /\ i \notin C /\ p \notin halfway'
  BY <1>1, <1>3, <1>4
<1> HIDE DEF C
<1>. QED  BY <1>1, <1>2, <1>5, FiledHolds

LEMMA FileConfirmedHolds == ASSUME IssuesIInv, NEW p \in Problem, FileConfirmed(p)  PROVE IssuesIInv'
<1>1. /\ stage = "filing" /\ halfway = {} /\ p \in unfiled /\ p \in ExpertLead
      /\ receipts' = [receipts EXCEPT ![p] = listing[p].triaged] /\ unfiled' = unfiled \ {p}
      /\ cards' = cards \cup Projected(p, ConfirmedStatus) /\ halfway' = {p}
      /\ UNCHANGED <<evidence, verdicts, stage, inventory, listing, appendixB, tickets, references, moved>>
  BY DEF FileConfirmed, Filing
<1> DEFINE C == Projected(p, ConfirmedStatus)
           A == {}
<1>2. /\ C \in SUBSET listing[p].ids /\ C \subseteq 1 .. MaxEvidence /\ A \in SUBSET listing[p].ids
      /\ \A i : i \in C <=> i \in listing[p].ids /\ evidence[i].verdict \in ConfirmedStatus
      /\ appendixB' = appendixB \cup A
  BY <1>1, FiledTypes
<1>3. IssuesTypeOK'
  BY <1>1, <1>2, FiledTypes DEF IssuesIInv, IssuesTypeOK
<1>4. p \notin Barrier
  BY <1>1, IssuesAssumption
<1>5. \A i \in listing[p].ids \ moved :
        /\ i \in C <=> \/ evidence[i].verdict \in ConfirmedStatus /\ p \in ExpertLead
                       \/ evidence[i].verdict \in OpenStatus /\ p \in Barrier \cap Mapped
        /\ i \in A <=> evidence[i].verdict \in OpenStatus /\ i \notin C /\ p \notin halfway'
  BY <1>1, <1>2, <1>4
<1>6. cards' = cards \cup C
  BY <1>1
<1> HIDE DEF C, A
<1>. QED  BY <1>1, <1>2, <1>3, <1>5, <1>6, FiledHolds

LEMMA FileOpenHolds == ASSUME IssuesIInv, NEW p \in Problem, FileOpen(p)  PROVE IssuesIInv'
<1> DEFINE P == Projected(p, OpenStatus)
           C == IF p \in Barrier \cap Mapped THEN P ELSE {}
           A == IF p \in Barrier \cap Mapped THEN {} ELSE P
<1>1. /\ stage = "filing" /\ halfway = {} /\ p \in unfiled /\ p \notin ExpertLead
      /\ receipts' = [receipts EXCEPT ![p] = listing[p].triaged] /\ unfiled' = unfiled \ {p}
      /\ cards' = cards \cup C /\ appendixB' = appendixB \cup A
      /\ UNCHANGED <<evidence, verdicts, stage, inventory, listing, halfway, tickets, references, moved>>
  BY DEF FileOpen, Filing
<1>2. /\ P \in SUBSET listing[p].ids /\ P \subseteq 1 .. MaxEvidence
      /\ \A i : i \in P <=> i \in listing[p].ids /\ evidence[i].verdict \in OpenStatus
  BY FiledTypes
<1> HIDE DEF P
<1>3. /\ C \in SUBSET listing[p].ids /\ A \in SUBSET listing[p].ids
      /\ C \subseteq 1 .. MaxEvidence /\ A \subseteq 1 .. MaxEvidence
  BY <1>2
<1>4. \A i \in listing[p].ids \ moved :
        /\ i \in C <=> \/ evidence[i].verdict \in ConfirmedStatus /\ p \in ExpertLead
                       \/ evidence[i].verdict \in OpenStatus /\ p \in Barrier \cap Mapped
        /\ i \in A <=> evidence[i].verdict \in OpenStatus /\ i \notin C /\ p \notin halfway'
  BY <1>1, <1>2
<1> HIDE DEF C, A
<1>5. IssuesTypeOK'
  BY <1>1, <1>3, FiledTypes DEF IssuesIInv, IssuesTypeOK
<1>. QED  BY <1>1, <1>3, <1>4, <1>5, FiledHolds

LEMMA FileUnconfirmedHolds == ASSUME IssuesIInv, NEW p \in Problem, FileUnconfirmed(p)  PROVE IssuesIInv'
<1> DEFINE A == Projected(p, UnconfirmedStatus)
<1>0. /\ IssuesTypeOK /\ \A q \in Problem : ListedFits(q) /\ FiledFits(q)
  BY DEF IssuesIInv
<1>1. /\ stage = "filing" /\ p \in halfway /\ appendixB' = appendixB \cup A /\ halfway' = {}
      /\ UNCHANGED <<evidence, verdicts, stage, inventory, listing, unfiled, cards,
                     receipts, tickets, references, moved>>
  BY DEF FileUnconfirmed
<1>2. /\ A \in SUBSET listing[p].ids /\ A \subseteq 1 .. MaxEvidence
      /\ \A i : i \in A <=> i \in listing[p].ids /\ evidence[i].verdict \in UnconfirmedStatus
      /\ \A i \in listing[p].ids : evidence[i].verdict \in OpenStatus \cup TriagedStatus
  BY FiledTypes
<1> HIDE DEF A
<1>3. /\ halfway = {p} /\ p \notin unfiled /\ p \in ExpertLead /\ p \notin Barrier
  BY <1>1, IssuesAssumption DEF IssuesIInv, HalfwayFits
<1>4. IssuesTypeOK'
  BY <1>0, <1>1, <1>2 DEF IssuesTypeOK
<1>5. \A q \in Problem : ListedFits(q)'
  BY <1>0, <1>1 DEF ListedFits
<1>6. \A q \in Problem : \A i \in listing[q].ids : i \in DOMAIN evidence /\ evidence[i].problem = q
  BY <1>0 DEF ListedFits, RowsOfIssue
<1>7. FiledFits(p)'
  <2>1. ASSUME NEW i \in listing[p].ids \ moved
        PROVE  i \in appendixB' <=> evidence[i].verdict \in OpenStatus /\ i \notin cards
    <3>1. /\ i \in cards <=> evidence[i].verdict \in ConfirmedStatus
          /\ i \notin appendixB
      BY <1>0, <1>3, <2>1 DEF FiledFits
    <3>. QED  BY <1>1, <1>2, <3>1 DEF OpenStatus, ConfirmedStatus, UnconfirmedStatus
  <2>. QED  BY <1>0, <1>1, <2>1 DEF FiledFits
<1>8. ASSUME NEW q \in Problem, q # p
      PROVE  FiledFits(q)'
  <2>1. \A i \in listing[q].ids : i \in appendixB' <=> i \in appendixB
    BY <1>1, <1>2, <1>6, <1>8
  <2>. QED  BY <1>0, <1>1, <1>3, <1>8, <2>1 DEF FiledFits
<1>9. OnlyFiled'
  BY <1>1, <1>2, <1>3, <1>6 DEF IssuesIInv, OnlyFiled
<1>10. HalfwayFits' /\ CollectedFits' /\ StageFits'
  BY <1>1 DEF IssuesIInv, HalfwayFits, CollectedFits, StageFits
<1>. QED  BY <1>4, <1>5, <1>7, <1>8, <1>9, <1>10 DEF IssuesIInv

LEMMA ListForWorkbookHolds == ASSUME IssuesIInv, ListForWorkbook  PROVE IssuesIInv'
<1>0. IssuesTypeOK /\ evidence \in Seq(EvidenceRow)
  BY DEF IssuesIInv, IssuesTypeOK
<1>1. /\ stage = "filing" /\ halfway = {} /\ unfiled = {} /\ stage' = "filed" /\ tickets' = ListIssues(evidence)
      /\ UNCHANGED <<evidence, verdicts, inventory, listing, unfiled, halfway,
                     cards, appendixB, receipts, references, moved>>
  BY DEF ListForWorkbook, Filing
<1>2. DOMAIN tickets' = Problem /\ \A p \in Problem : tickets'[p].ids = FirstInstances(evidence, p)
  BY <1>1 DEF ListIssues, IssueOf
<1>3. IssuesTypeOK'
  BY <1>0, <1>1, <1>2 DEF IssuesTypeOK
<1>4. \A p \in Problem : ListedFits(p)' /\ FiledFits(p)'
  BY <1>1 DEF IssuesIInv, ListedFits, FiledFits
<1>5. ASSUME NEW i \in (cards \cup appendixB) \ moved
      PROVE  i \in tickets'[inventory[i].problem].ids
  <2> DEFINE p == evidence[i].problem
  <2>1. i \in DOMAIN evidence /\ i \in listing[p].ids
    BY DEF IssuesIInv, OnlyFiled
  <2>2. p \in Problem
    BY <1>0, <2>1, RowsAre
  <2>3. inventory[i] = evidence[i]
    BY <1>1, <2>1 DEF IssuesIInv, CollectedFits
  <2>4. i \in FirstInstances(evidence, p)
    BY <2>1, <2>2 DEF IssuesIInv, ListedFits
  <2>. QED  BY <1>2, <2>2, <2>3, <2>4
<1>6. StageFits'
  BY <1>1, <1>5 DEF IssuesIInv, StageFits
<1>. QED  BY <1>1, <1>3, <1>4, <1>6 DEF IssuesIInv, OnlyFiled, HalfwayFits, CollectedFits

LEMMA ListForReferencesHolds == ASSUME IssuesIInv, ListForReferences  PROVE IssuesIInv'
<1>1. /\ stage = "filed" /\ stage' = "referenced" /\ DOMAIN references' = Problem
      /\ UNCHANGED <<evidence, verdicts, inventory, listing, unfiled, halfway,
                     cards, appendixB, receipts, tickets, moved>>
  BY DEF ListForReferences, ListIssues
<1>2. IssuesTypeOK'
  BY <1>1 DEF IssuesIInv, IssuesTypeOK
<1>3. \A p \in Problem : ListedFits(p)' /\ FiledFits(p)'
  BY <1>1 DEF IssuesIInv, ListedFits, FiledFits
<1>. QED  BY <1>1, <1>2, <1>3 DEF IssuesIInv, OnlyFiled, HalfwayFits, CollectedFits, StageFits

LEMMA IssuesInitHolds == IssuesInit => IssuesIInv
<1> SUFFICES ASSUME IssuesInit  PROVE IssuesIInv
  OBVIOUS
<1>1. /\ evidence = <<>> /\ verdicts = 0 /\ stage = "none" /\ inventory = <<>>
      /\ listing = Nothing /\ tickets = Nothing /\ references = Nothing
      /\ unfiled = {} /\ halfway = {} /\ cards = {} /\ appendixB = {} /\ moved = {}
      /\ receipts = [p \in Problem |-> 0]
  BY DEF IssuesInit
<1>2. /\ evidence \in Seq(EvidenceRow) /\ Len(evidence) = 0 /\ DOMAIN inventory = {} /\ DOMAIN evidence = {}
      /\ DOMAIN Nothing = Problem /\ MaxEvidence \in Nat /\ MaxVerdicts \in Nat
      /\ \A p \in Problem : listing[p] = NoIssue
  BY <1>1, IssuesAssumption DEF Nothing
<1>3. IssuesTypeOK
  BY <1>1, <1>2 DEF IssuesTypeOK
<1>4. ASSUME NEW p \in Problem  PROVE ListedFits(p) /\ FiledFits(p)
  <2>1. listing[p].ids = {} /\ listing[p].repeats = {} /\ listing[p].triaged = 0
    BY <1>2 DEF NoIssue
  <2>2. Cardinality({}) = 0
    BY FS_EmptySet
  <2>. QED  BY <1>2, <2>1, <2>2 DEF ListedFits, FiledFits
<1>. QED  BY <1>1, <1>2, <1>3, <1>4 DEF IssuesIInv, OnlyFiled, HalfwayFits, CollectedFits, StageFits

LEMMA IssuesNextHolds == IssuesIInv /\ [IssuesNext]_issuesVars => IssuesIInv'
<1> SUFFICES ASSUME IssuesIInv, [IssuesNext]_issuesVars  PROVE IssuesIInv'
  OBVIOUS
<1>1. CASE \/ \E g \in 1 .. StoredPages, p \in Problem, e \in Element \cup {PageLevel} : StoreRow(g, p, e)
           \/ SettleIssue \/ SettleRow \/ UNCHANGED issuesVars
  BY <1>1, CommitsAre, CommitHolds
<1>. QED  BY <1>1, CollectHolds, ListForReportHolds, ListForWorkbookHolds, ListForReferencesHolds,
             FileTriagedHolds, FileConfirmedHolds, FileUnconfirmedHolds, FileOpenHolds DEF IssuesNext

\* Every row of a scan is in one issue of what is listed, in one section of each
\* file, and the files of one report agree, whatever is decided while they are
\* written (web/issues.py list_issues, exports/).
THEOREM IssuesCorrect == IssuesSpec => []NoRowIsLost
<1>1. IssuesIInv => IssuesTypeOK
  BY DEF IssuesIInv
<1>. QED  BY <1>1, IssuesInitHolds, IssuesNextHolds, OnceHolds, IssuesAreSafe, PTL DEF IssuesSpec, NoRowIsLost

-----------------------------------------------------------------------------
(* The report *)

\* What the workbook lists later is of the issue, and its references have every
\* row of a card that nobody touched.
LaterFits ==
  /\ \A p \in Problem : tickets[p].ids \cup references[p].ids \subseteq RowsOfIssue(evidence, p)
  /\ stage = "referenced" => \A i \in cards \ moved : i \in references[evidence[i].problem].ids

LEMMA LaterInitHolds == IssuesInit => LaterFits
BY DEF IssuesInit, LaterFits, Nothing, NoIssue

LEMMA LaterNextHolds == IssuesIInv /\ LaterFits /\ [IssuesNext]_issuesVars => LaterFits'
<1> SUFFICES ASSUME IssuesIInv, LaterFits, [IssuesNext]_issuesVars  PROVE LaterFits'
  OBVIOUS
<1>1. CASE \/ \E g \in 1 .. StoredPages, p \in Problem, e \in Element \cup {PageLevel} : StoreRow(g, p, e)
           \/ SettleIssue \/ SettleRow \/ UNCHANGED issuesVars
  <2>1. Commits /\ UNCHANGED <<stage, cards, tickets, references>>
    BY <1>1, CommitsAre DEF Commits
  <2>2. \A p \in Problem : \A i \in RowsOfIssue(evidence, p) : i \in RowsOfIssue(evidence', p)
    BY <2>1 DEF Commits, RowsOfIssue
  <2>3. \A i \in cards : i \in DOMAIN evidence
    BY DEF IssuesIInv, OnlyFiled
  <2>. QED  BY <2>1, <2>2, <2>3 DEF LaterFits, Commits
<1>2. CASE ListForWorkbook
  <2>1. /\ stage' = "filed" /\ UNCHANGED <<evidence, references>>
        /\ \A p \in Problem : tickets'[p].ids = FirstInstances(evidence, p)
    BY <1>2 DEF ListForWorkbook, ListIssues, IssueOf
  <2>. QED  BY <2>1 DEF LaterFits, FirstInstances
<1>3. CASE ListForReferences
  <2>1. /\ UNCHANGED <<evidence, tickets, cards, moved>>
        /\ \A p \in Problem : references'[p].ids = FirstInstances(evidence, p)
    BY <1>3 DEF ListForReferences, ListIssues, IssueOf
  <2>2. ASSUME NEW i \in cards \ moved  PROVE i \in references'[evidence[i].problem].ids
    <3>1. i \in DOMAIN evidence /\ i \in listing[evidence[i].problem].ids /\ evidence[i].problem \in Problem
      BY RowsAre DEF IssuesIInv, IssuesTypeOK, OnlyFiled
    <3>. QED  BY <2>1, <3>1 DEF IssuesIInv, ListedFits
  <2>. QED  BY <2>1, <2>2 DEF LaterFits, FirstInstances
<1>4. CASE Collect
  <2>1. stage' = "collected" /\ UNCHANGED <<evidence, tickets, references>>
    BY <1>4 DEF Collect
  <2>. QED  BY <2>1 DEF LaterFits
<1>5. CASE ListForReport
  <2>1. stage' = "filing" /\ UNCHANGED <<evidence, tickets, references>>
    BY <1>5 DEF ListForReport
  <2>. QED  BY <2>1 DEF LaterFits
<1>6. ASSUME NEW p \in Problem, FileTriaged(p) \/ FileConfirmed(p) \/ FileUnconfirmed(p) \/ FileOpen(p)
      PROVE LaterFits'
  <2>1. stage = "filing" /\ UNCHANGED <<stage, evidence, tickets, references>>
    BY <1>6 DEF FileTriaged, FileConfirmed, FileUnconfirmed, FileOpen, Filing
  <2>. QED  BY <2>1 DEF LaterFits
<1>. QED  BY <1>1, <1>2, <1>3, <1>4, <1>5, <1>6 DEF IssuesNext

\* Some rows are finitely many, and so are the issues and the pages they are of.
LEMMA RowsAreFew ==
  ASSUME IssuesTypeOK, NEW S, S \subseteq DOMAIN evidence
  PROVE  /\ IsFiniteSet(S) /\ Cardinality(S) \in Nat /\ (Cardinality(S) = 0 <=> S = {})
         /\ IsFiniteSet({evidence[i].problem : i \in S})
<1>1. evidence \in Seq(EvidenceRow) /\ Len(evidence) \in Nat /\ DOMAIN evidence = 1 .. Len(evidence)
  BY RowsAre DEF IssuesTypeOK
<1>2. 1 \in Int /\ Len(evidence) \in Int
  BY <1>1
<1>3. IsFiniteSet(1 .. Len(evidence))
  BY <1>2, FS_Interval
<1>4. S \in SUBSET (1 .. Len(evidence))
  BY <1>1
<1>5. IsFiniteSet(S)
  BY <1>3, <1>4, FS_Subset
<1>6. Cardinality(S) \in Nat /\ (Cardinality(S) = 0 <=> S = {})
  BY <1>5, FS_CardinalityType, FS_EmptySet
<1>7. IsFiniteSet({evidence[i].problem : i \in S})
  <2> DEFINE T == {evidence[i].problem : i \in S}
             f == [i \in S |-> evidence[i].problem]
  <2>1. f \in Surjection(S, T)
    BY DEF Surjection
  <2> HIDE DEF f, T
  <2>2. IsFiniteSet(T)
    BY <1>5, <2>1, FS_Surjection
  <2>. QED  BY <2>2 DEF T
<1>. QED  BY <1>5, <1>6, <1>7

\* A part of some rows and the rest are all of them.
LEMMA PartAndRest ==
  ASSUME IssuesTypeOK, NEW S, S \subseteq DOMAIN evidence, NEW T, T \subseteq S
  PROVE  /\ Cardinality(S \ T) = Cardinality(S) - Cardinality(T)
         /\ Cardinality(S \cap T) + Cardinality(S \ T) = Cardinality(S)
<1>1. IsFiniteSet(S) /\ IsFiniteSet(T) /\ Cardinality(S) \in Nat /\ Cardinality(T) \in Nat
  <2>1. T \subseteq DOMAIN evidence
    OBVIOUS
  <2>. QED  BY <2>1, RowsAreFew
<1>2. Cardinality(S \ T) = Cardinality(S) - Cardinality(S \cap T)
  BY <1>1, FS_Difference
<1>3. S \cap T = T
  <2>1. \A x : x \in S \cap T <=> x \in T
    OBVIOUS
  <2>. QED  BY <2>1, Zenon
<1>4. Cardinality(S \cap T) = Cardinality(T)
  BY <1>3, Zenon
<1>. QED  BY <1>1, <1>2, <1>4

\* Of some rows, one comes first.
LEMMA FirstOf ==
  ASSUME IssuesTypeOK, NEW S, S \subseteq DOMAIN evidence, S # {}
  PROVE  \E i \in S : \A j \in S : ~Earlier(evidence, j, i)
<1>1. /\ evidence \in Seq(EvidenceRow) /\ DOMAIN evidence \subseteq Nat
      /\ \A i \in DOMAIN evidence : evidence[i].page \in Nat
  BY RowsAre DEF IssuesTypeOK
<1> DEFINE P == {evidence[i].page : i \in S}
<1>2. P \in SUBSET Nat /\ P # {}
  BY <1>1
<1>3. PICK g \in P : \A h \in P : g <= h
  BY <1>2, LeastIs
<1> DEFINE T == {i \in S : evidence[i].page = g}
<1>4. T \in SUBSET Nat /\ T # {}
  BY <1>1, <1>3
<1>5. PICK i \in T : \A k \in T : i <= k
  BY <1>4, LeastIs
<1>6. ASSUME NEW j \in S  PROVE ~Earlier(evidence, j, i)
  <2>1. g <= evidence[j].page /\ evidence[j].page \in Nat /\ g \in Nat /\ i \in Nat /\ j \in Nat /\ evidence[i].page = g
    BY <1>1, <1>2, <1>3, <1>5
  <2>2. evidence[j].page = g => i <= j
    BY <1>5
  <2>. QED  BY <2>1, <2>2 DEF Earlier
<1>7. i \in S  OBVIOUS
<1>. QED  BY <1>6, <1>7

\* The first rows are shown, one at least, and the others counted.
LEMMA ShownIs ==
  ASSUME IssuesTypeOK, NEW S, S \subseteq DOMAIN evidence
  PROVE  /\ Shown(S) \subseteq S /\ (S # {} => Shown(S) # {})
         /\ Overflow(S) = Cardinality(S \ Shown(S))
         /\ Cardinality(Shown(S)) + Overflow(S) = Cardinality(S)
<1>1. Shown(S) \subseteq S
  BY DEF Shown
<1>2. ASSUME S # {}  PROVE Shown(S) # {}
  <2>1. PICK i \in S : \A j \in S : ~Earlier(evidence, j, i)
    BY <1>2, FirstOf
  <2> DEFINE before == {j \in S : Earlier(evidence, j, i)}
  <2>2. before = {}
    BY <2>1
  <2> HIDE DEF before
  <2>3. Cardinality(before) = 0
    BY <2>2, FS_EmptySet
  <2>4. Cardinality(before) < MaxLocations
    BY <2>3, ReportAssumption
  <2>5. i \in Shown(S)
    BY <2>4 DEF Shown, before
  <2>. QED  BY <2>5
<1>3. Overflow(S) = Cardinality(S \ Shown(S))
  BY <1>1, PartAndRest DEF Overflow
<1>4. Cardinality(S) \in Nat /\ Cardinality(Shown(S)) \in Nat
  <2>1. Shown(S) \subseteq DOMAIN evidence
    BY <1>1
  <2>. QED  BY <2>1, RowsAreFew
<1>. QED  BY <1>1, <1>2, <1>3, <1>4 DEF Overflow

\* A card has the rows of the issue that are on cards.
LEMMA CardsAre ==
  ASSUME IssuesIInv
  PROVE  /\ \A p \in Problem : /\ CardRows(p) \subseteq DOMAIN evidence
                               /\ \A i : i \in CardRows(p) <=> i \in cards /\ evidence[i].problem = p
         /\ \A i \in cards : /\ i \in DOMAIN evidence /\ evidence[i].problem \in Carded
                             /\ evidence[i].page \in SitePages
         /\ IsFiniteSet(Carded)
<1>1. /\ IssuesTypeOK /\ evidence \in Seq(EvidenceRow)
      /\ \A p \in Problem : ListedFits(p)
      /\ \A i \in cards : i \in DOMAIN evidence /\ i \in listing[evidence[i].problem].ids
  BY DEF IssuesIInv, IssuesTypeOK, OnlyFiled
<1>2. \A i \in DOMAIN evidence : evidence[i].problem \in Problem /\ evidence[i].page \in 1 .. StoredPages
  BY <1>1, RowsAre DEF EvidenceRow
<1>3. ASSUME NEW p \in Problem
      PROVE  \A i : i \in CardRows(p) <=> i \in cards /\ evidence[i].problem = p
  BY <1>1 DEF CardRows, ListedFits, RowsOfIssue
<1>4. \A i \in cards : evidence[i].problem \in Carded
  BY <1>1, <1>2, <1>3 DEF Carded
<1>5. Carded \subseteq {evidence[i].problem : i \in DOMAIN evidence}
  BY <1>1, <1>3 DEF Carded
<1>6. IsFiniteSet(Carded)
  BY <1>1, <1>5, RowsAreFew, FS_Subset
<1>. QED  BY <1>1, <1>2, <1>3, <1>4, <1>6 DEF SitePages

\* The report says that no barriers remain only if nothing that nobody touched is
\* to be fixed but what has no rated effort.
LEMMA NothingRemainsHolds == IssuesIInv => NothingRemains
<1> SUFFICES ASSUME IssuesIInv, Rendered  PROVE NothingRemains
  BY DEF NothingRemains
<1>0. /\ IssuesTypeOK /\ unfiled = {} /\ halfway = {}
      /\ \A p \in Problem : ListedFits(p) /\ FiledFits(p)
  BY DEF IssuesIInv, StageFits, Rendered
<1>1. ASSUME Conclusion(FALSE) = "no barriers remain", NEW p \in Problem, NEW i \in listing[p].ids \ moved,
             ToFix(i), Effort[p] # Unrated
      PROVE  FALSE
  <2>1. evidence[i].problem = p
    BY <1>0 DEF ListedFits, RowsOfIssue
  <2>2. i \in cards
    BY <1>0, <1>1, <2>1 DEF FiledFits, ToFix
  <2>3. p \in Carded
    BY <2>1, <2>2, CardsAre
  <2> DEFINE tier == Effort[p]
             alike == {q \in Carded : Effort[q] = tier}
  <2>4. tier \in {EffortTier[k] : k \in DOMAIN EffortTier}
    BY <1>1, ReportAssumption
  <2> HIDE DEF tier
  <2>5. Estimate[tier] = Cardinality(alike) /\ tier \in DOMAIN Estimate
    BY <2>4 DEF Estimate
  <2>6. alike \subseteq Carded /\ p \in alike
    BY <2>3 DEF tier
  <2> HIDE DEF alike
  <2>7. IsFiniteSet(alike)
    BY <2>6, CardsAre, FS_Subset
  <2>8. Cardinality(alike) \in Nat /\ Cardinality(alike) # 0
    BY <2>6, <2>7, FS_CardinalityType, FS_EmptySet
  <2>9. Estimate[tier] > 0
    BY <2>5, <2>8
  <2>. QED  BY <1>1, <2>5, <2>9 DEF Conclusion
<1>2. ASSUME NEW seed \in {"read", "refused", "missing"}, NEW read \in {0, 1}, NEW errors \in {0, 1},
             seed = "refused" \/ (seed = "missing" /\ read = 0 /\ errors = 1)
      PROVE  Conclusion(BlockedSeed(seed, read, errors)) # "no barriers remain"
  <2>1. BlockedSeed(seed, read, errors)
    BY <1>2 DEF BlockedSeed
  <2>. QED  BY <2>1 DEF Conclusion
<1>. QED  BY <1>1, <1>2 DEF NothingRemains

\* A page with no less than one location is among the hot ones.
LEMMA HotIs ==
  ASSUME IssuesIInv, cards # {}, NEW S \in Hotspots
  PROVE  S # {}
<1>1. PICK i \in cards : TRUE
  OBVIOUS
<1> DEFINE p == evidence[i].problem
           C == CardRows(p)
<1>2. p \in Carded /\ p \in Problem /\ C \subseteq DOMAIN evidence /\ i \in C /\ IssuesTypeOK
  BY CardsAre DEF Carded, IssuesIInv
<1>3. PICK j \in Shown(C) : j \in C
  <2>1. C # {}
    BY <1>2
  <2> HIDE DEF C
  <2>2. Shown(C) \subseteq C /\ Shown(C) # {}
    BY <1>2, <2>1, ShownIs
  <2>. QED  BY <2>2
<1>4. j \in cards /\ evidence[j].page \in SitePages
  BY <1>2, <1>3, CardsAre
<1>5. evidence[j].page \in Hot
  BY <1>2, <1>3, <1>4 DEF Hot, LocationsOn
<1>6. IsFiniteSet(Hot) /\ Cardinality(Hot) \in Nat \ {0}
  <2>1. 1 \in Int /\ StoredPages \in Int
    BY IssuesAssumption
  <2>2. IsFiniteSet(1 .. StoredPages)
    BY <2>1, FS_Interval
  <2>3. Hot \in SUBSET (1 .. StoredPages)
    BY DEF Hot, SitePages
  <2>4. IsFiniteSet(Hot)
    BY <2>2, <2>3, FS_Subset
  <2>5. Hot # {}
    BY <1>5, Zenon
  <2> HIDE DEF p, C
  <2>6. Cardinality(Hot) \in Nat /\ Cardinality(Hot) # 0
    BY <2>4, <2>5, FS_CardinalityType, FS_EmptySet
  <2>. QED  BY <2>4, <2>6
<1> DEFINE n == Cardinality(Hot)
<1>7. MaxHotspots \in Nat \ {0}
  BY ReportAssumption
<1> HIDE DEF n
<1>8. Min({MaxHotspots, n}) # 0
  BY <1>6, <1>7 DEF Min, n
<1>9. Cardinality(S) # 0
  BY <1>8 DEF Hotspots, n
<1>. QED  BY <1>9, FS_EmptySet

LEMMA SectionsAgreeHolds == IssuesIInv => SectionsAgree
<1> SUFFICES ASSUME IssuesIInv  PROVE SectionsAgree
  OBVIOUS
<1>0. IssuesTypeOK /\ \A p \in Problem : ListedFits(p)
  BY DEF IssuesIInv
<1>1. ASSUME NEW i \in cards  PROVE {p \in Carded : i \in CardRows(p)} = {evidence[i].problem}
  <2>1. \A p \in Carded : i \in CardRows(p) <=> p = evidence[i].problem
    BY CardsAre DEF Carded
  <2>2. evidence[i].problem \in Carded
    BY CardsAre
  <2>. QED  BY <2>1, <2>2
<1>2. ASSUME NEW p \in Carded
      PROVE  Cardinality({i \in CardRows(p) : \E g \in SitePages : i \in LocationsOn(g)})
               + Overflow(CardRows(p)) = Cardinality(CardRows(p))
  <2> DEFINE C == CardRows(p)
             located == {i \in C : \E g \in SitePages : i \in LocationsOn(g)}
  <2>1. p \in Problem /\ C \subseteq DOMAIN evidence /\ Shown(C) \subseteq C
    BY <1>0, CardsAre, ShownIs DEF Carded
  <2>2. ASSUME NEW i \in C
        PROVE  (\E g \in SitePages : i \in LocationsOn(g)) <=> i \in Shown(C)
    <3>1. i \in cards /\ evidence[i].problem = p /\ evidence[i].page \in SitePages
      BY <2>1, CardsAre
    <3>2. ASSUME NEW q \in Carded, i \in Shown(CardRows(q))  PROVE q = p
      <4>1. q \in Problem /\ i \in CardRows(q)
        BY <3>2 DEF Carded, Shown
      <4>. QED  BY <3>1, <4>1, CardsAre
    <3>. QED  BY <3>1, <3>2 DEF LocationsOn
  <2>3. located = Shown(C)
    <3>1. \A i : i \in located <=> i \in Shown(C)
      BY <2>1, <2>2
    <3> HIDE DEF located
    <3>. QED  BY <3>1
  <2> HIDE DEF located
  <2>4. Cardinality(located) = Cardinality(Shown(C))
    BY <2>3, Zenon
  <2>5. Cardinality(Shown(C)) + Overflow(C) = Cardinality(C)
    BY <1>0, <2>1, ShownIs
  <2>6. Cardinality(located) + Overflow(C) = Cardinality(C)
    BY <2>4, <2>5
  <2>. QED  BY <2>6 DEF located
<1>3. ASSUME NEW p \in Carded  PROVE {o \in DOMAIN Worklist : p \in Worklist[o]} = {Owner[p]}
  <2>1. \A o : o \in DOMAIN Worklist /\ p \in Worklist[o] <=> o = Owner[p]
    BY DEF Worklist
  <2>. QED  BY <2>1
<1>4. UNION {Scorecard[l] : l \in DOMAIN Scorecard} = {p \in Carded : Level[p] # NoLevel}
  <2>1. DOMAIN Scorecard = {"A", "AA", "AAA"}
        /\ \A l \in {"A", "AA", "AAA"} : Scorecard[l] = {p \in Carded : Level[p] = l}
    BY DEF Scorecard
  <2>2. \A p \in Carded : Level[p] # NoLevel <=> Level[p] \in {"A", "AA", "AAA"}
    BY ReportAssumption DEF Carded
  <2>. QED  BY <2>1, <2>2
<1>5. \A a \in DOMAIN Affected : Affected[a] # {}
  BY DEF Affected
<1>6. ASSUME NEW p \in QuickWins, NEW q \in Carded  PROVE Weight[q] <= Weight[p]
  <2>1. Weight[p] \in Nat /\ Weight[q] \in Nat
    BY ReportAssumption DEF QuickWins, Carded
  <2>. QED  BY <2>1 DEF QuickWins
<1>7. \A S \in Hotspots : cards # {} => S # {}
  BY HotIs
<1>8. LeadsLeft + MaxLeads >= Cardinality(Leads)
  <2>1. Leads \subseteq {evidence[i].problem : i \in DOMAIN evidence}
    BY <1>0 DEF Leads, ListedFits, RowsOfIssue
  <2>2. IsFiniteSet(Leads)
    BY <1>0, <2>1, RowsAreFew, FS_Subset
  <2>3. Cardinality(Leads) \in Nat /\ MaxLeads \in Nat
    BY <2>2, FS_CardinalityType, ReportAssumption
  <2>. QED  BY <2>3 DEF LeadsLeft
<1>. QED  BY <1>1, <1>2, <1>3, <1>4, <1>5, <1>6, <1>7, <1>8 DEF SectionsAgree

\* The workbook accounts for the rows of a card on the sheet of its issue.
LEMMA SheetsAccountHolds == IssuesIInv /\ LaterFits => SheetsAccount
<1> SUFFICES ASSUME IssuesIInv, LaterFits, Rendered, NEW number \in Numbering, NEW p \in Listed(tickets)
    PROVE  LET s == SheetOf(number, p)
               missing == tickets[p].ids \ OnSheet(number, s)
           IN  /\ s # Pooled => Cardinality(missing) = LeftOut(number, p)
               /\ IndexCount(p) = Cardinality(tickets[p].ids \cap OnSheet(number, s))
                                    + Cardinality(missing)
               /\ \A i \in CardRows(p) \ moved : i \in OnSheet(number, s) \cup missing
               /\ \A q \in Listed(tickets) : number[p] < number[q] => Lane(p) <= Lane(q)
  BY DEF SheetsAccount
<1> DEFINE s == SheetOf(number, p)
           ids == tickets[p].ids
           on == OnSheet(number, s)
<1>0. p \in Problem /\ IssuesTypeOK /\ ids \subseteq DOMAIN evidence
  BY DEF Listed, LaterFits, RowsOfIssue, IssuesIInv
<1>1. ASSUME s # Pooled  PROVE Cardinality(ids \ on) = LeftOut(number, p)
  <2>1. s = p
    BY <1>1 DEF SheetOf
  <2>2. \A q \in Listed(tickets) : SheetOf(number, q) = s <=> q = p
    BY <1>1, <2>1 DEF SheetOf
  <2>3. \A i : i \in on <=> i \in Shown(ids)
    BY <2>2 DEF OnSheet
  <2> HIDE DEF s, on
  <2>4. on = Shown(ids)
    BY <2>3
  <2>5. Cardinality(ids \ on) = Cardinality(ids \ Shown(ids))
    BY <2>4, Zenon
  <2>6. Overflow(ids) = Cardinality(ids \ Shown(ids))
    BY <1>0, ShownIs
  <2>7. LeftOut(number, p) = Overflow(ids)
    BY <1>1 DEF LeftOut, s
  <2>. QED  BY <2>5, <2>6, <2>7
<1>2. IndexCount(p) = Cardinality(ids \cap on) + Cardinality(ids \ on)
  <2> DEFINE T == ids \cap on
  <2>1. T \subseteq ids
    OBVIOUS
  <2>2. ids \cap T = T /\ ids \ T = ids \ on
    OBVIOUS
  <2> HIDE DEF T, on, ids
  <2>3. Cardinality(ids \cap T) + Cardinality(ids \ T) = Cardinality(ids)
    BY <1>0, <2>1, PartAndRest
  <2>4. Cardinality(ids \cap T) = Cardinality(T) /\ Cardinality(ids \ T) = Cardinality(ids \ on)
    BY <2>2, Zenon
  <2>5. Cardinality(T) + Cardinality(ids \ on) = Cardinality(ids)
    BY <2>3, <2>4
  <2>. QED  BY <2>5 DEF IndexCount, ids, T
<1>3. ASSUME NEW i \in CardRows(p) \ moved  PROVE i \in ids
  <2>1. i \in cards /\ evidence[i].problem = p /\ i \in DOMAIN evidence
    BY <1>0, CardsAre
  <2>2. i \in tickets[inventory[i].problem].ids
    BY <2>1 DEF IssuesIInv, StageFits, Rendered
  <2>3. inventory[i] = evidence[i]
    BY <2>1 DEF IssuesIInv, CollectedFits, Rendered
  <2>. QED  BY <2>1, <2>2, <2>3
<1>4. ASSUME NEW q \in Listed(tickets), number[p] < number[q]  PROVE Lane(p) <= Lane(q)
  <2>1. p # q => number[p] # number[q] /\ (Precedes(tickets, q, p) => number[q] < number[p])
    BY DEF Numbering
  <2>2. number[p] \in Int /\ number[q] \in Int /\ Lane(p) \in Int /\ Lane(q) \in Int
    BY DEF Numbering, Lane
  <2>. QED  BY <1>4, <2>1, <2>2 DEF Precedes
<1>. QED  BY <1>1, <1>2, <1>3, <1>4

\* The list of issues and its filters, of any rows.
LEMMA ListIsWholeHolds == IssuesTypeOK => ListIsWhole
<1> SUFFICES ASSUME IssuesTypeOK  PROVE ListIsWhole
  OBVIOUS
<1> DEFINE now == ListIssues(evidence)
<1>1. \A p \in Problem : now[p].ids = FirstInstances(evidence, p) /\ now[p].ids \subseteq DOMAIN evidence
                         /\ \A i \in now[p].ids : evidence[i].problem = p
  BY DEF ListIssues, IssueOf, FirstInstances, RowsOfIssue
<1>2. ASSUME NEW p \in Listed(now), NEW i \in now[p].ids
      PROVE  {g \in DOMAIN IssuePages(now[p]) : i \in IssuePages(now[p])[g]} = {evidence[i].page}
  BY DEF IssuePages, PagesWith
<1>3. ASSUME NEW p \in Listed(now), NEW S \in Samples(now[p], MaxLocations)  PROVE S # {}
  <2> DEFINE places == {<<evidence[i].page, evidence[i].element>> : i \in now[p].ids}
             n == Cardinality(places)
  <2>1. p \in Problem /\ now[p].ids # {}
    BY DEF Listed
  <2>2. places # {} /\ S \subseteq places /\ Cardinality(S) = Min({MaxLocations, n})
    BY <2>1 DEF Samples
  <2>3. IsFiniteSet(places)
    <3> DEFINE ids == now[p].ids
               f == [i \in ids |-> <<evidence[i].page, evidence[i].element>>]
    <3>1. IsFiniteSet(ids)
      BY <1>1, <2>1, RowsAreFew
    <3>2. f \in Surjection(ids, places)
      BY DEF Surjection
    <3> HIDE DEF f, places, ids
    <3>. QED  BY <3>1, <3>2, FS_Surjection
  <2> HIDE DEF places
  <2>4. n \in Nat /\ n # 0
    BY <2>2, <2>3, FS_CardinalityType, FS_EmptySet
  <2> HIDE DEF n
  <2>5. Min({MaxLocations, n}) # 0
    BY <2>4, ReportAssumption DEF Min
  <2>. QED  BY <2>2, <2>5, FS_EmptySet
<1> HIDE DEF now
<1>4. ASSUME NEW p \in Listed(now)  PROVE p \in Filtered(now, {}, {}, {Lane(p)}, {}, "any")
  <2>1. "any" \notin Verdict
    BY VerdictAssumption DEF OpenStatus, TriagedStatus
  <2>. QED  BY <2>1 DEF Filtered
<1>5. ASSUME NEW v \in Verdict, NEW i \in DOMAIN evidence, i \in now[evidence[i].problem].ids, evidence[i].verdict = v
      PROVE  evidence[i].problem \in Filtered(now, {}, {}, {}, {"wcag", "click_through"}, v)
  <2> DEFINE p == evidence[i].problem
             ways == FoundBy(now[p].ids)
  <2>1. p \in Problem
    BY RowsAre DEF IssuesTypeOK
  <2>2. ways \subseteq {"wcag", "click_through"} /\ ways # {}
    BY <1>5 DEF FoundBy
  <2> HIDE DEF ways
  <2>3. ways \cap {"wcag", "click_through"} # {}
    BY <2>2
  <2>. QED  BY <1>5, <2>1, <2>3 DEF Filtered, Listed, ways
<1>. QED  BY <1>2, <1>3, <1>4, <1>5 DEF ListIsWhole, now

\* What a line of the page references shows is of its page and of its title.
LEMMA ReferencesAreThereHolds == IssuesIInv /\ LaterFits => ReferencesAreThere
<1> SUFFICES ASSUME IssuesIInv, LaterFits, stage = "referenced"  PROVE ReferencesAreThere
  BY DEF ReferencesAreThere
<1> DEFINE lines == UNION {{p} \X PagesWith(references[p].ids) : p \in Problem}
<1>0. \A p, g : <<p, g>> \in lines <=> p \in Problem /\ g \in PagesWith(references[p].ids)
  OBVIOUS
<1>1. DOMAIN References = lines
  BY DEF References
<1>2. ASSUME NEW p \in Unmoved, NEW i \in CardRows(p)  PROVE <<p, evidence[i].page>> \in lines
  <2>1. p \in Problem /\ i \in cards /\ evidence[i].problem = p
    BY CardsAre DEF Unmoved
  <2>2. i \notin moved
    BY <2>1 DEF Unmoved
  <2>3. i \in references[p].ids
    BY <2>1, <2>2 DEF LaterFits
  <2>. QED  BY <1>0, <2>1, <2>3 DEF PagesWith
<1>3. ASSUME NEW pg \in lines, NEW i \in References[pg]
      PROVE  evidence[i].page = pg[2] /\ Titled[evidence[i].problem] = Titled[pg[1]]
  <2>1. PICK p \in Problem : \E g \in PagesWith(references[p].ids) : pg = <<p, g>>
    OBVIOUS
  <2>2. References[pg] = UNION {{k \in S : evidence[k].page = pg[2]} : S \in Sources(pg[1])}
    BY DEF References
  <2>3. PICK S \in Sources(p) : i \in S /\ evidence[i].page = pg[2]
    BY <2>1, <2>2
  <2>4. CASE CardsLike(p) = {}
    <3>1. i \in references[p].ids
      BY <2>3, <2>4 DEF Sources, Shown
    <3>. QED  BY <2>1, <2>3, <3>1 DEF LaterFits, RowsOfIssue
  <2>5. CASE CardsLike(p) # {}
    <3>1. PICK q \in CardsLike(p) : S = Shown(CardRows(q))
      BY <2>3, <2>5 DEF Sources
    <3>2. q \in Problem /\ Titled[q] = Titled[p] /\ i \in CardRows(q)
      BY <2>3, <3>1 DEF CardsLike, Carded, Shown
    <3>3. evidence[i].problem = q
      BY <3>2, CardsAre
    <3>. QED  BY <2>1, <2>3, <3>2, <3>3
  <2>. QED  BY <2>4, <2>5
<1> HIDE DEF lines
<1>. QED  BY <1>1, <1>2, <1>3 DEF ReferencesAreThere

\* What the report, the workbook and the list tell of the issues of a scan accounts
\* for every row of it, whatever is stored and decided while they are made
\* (audit_report.py, xlsx_export.py, issues.py).
THEOREM ReportCorrect == IssuesSpec => []ReportIsTrue
<1>1. IssuesIInv => IssuesTypeOK
  BY DEF IssuesIInv
<1>2. IssuesIInv /\ LaterFits => ReportIsTrue
  BY <1>1, NothingRemainsHolds, SectionsAgreeHolds, SheetsAccountHolds, ListIsWholeHolds, ReferencesAreThereHolds
     DEF ReportIsTrue
<1>. QED  BY <1>2, IssuesInitHolds, IssuesNextHolds, LaterInitHolds, LaterNextHolds, PTL DEF IssuesSpec
=============================================================================
