-------------------------- MODULE Coverage_proofs ---------------------------
(***************************************************************************)
(* What a report says was done is what was done: the totals of a comparison, *)
(* the clicks of the probe and what the workbook and the history make of   *)
(* them, and the settings that a scan ran with.  For any site, any controls, *)
(* any settings and any number of crawls.                                  *)
(***************************************************************************)
EXTENDS Coverage, Settings, FiniteSetTheorems, SequenceTheorems, WellFoundedInduction, TLAPS

-----------------------------------------------------------------------------
(* The totals of a comparison *)

\* The pages the method was run on, and those a finding is on, have a page row.
RowsTell == \A s \in Compared : tried[s] \subseteq PageRows(s) /\ Places(s) \subseteq PageRows(s)

\* A scan that has not begun has done nothing.
NotYet ==
  \A s \in Compared : s > now =>
    PageRows(s) = {} /\ tried[s] = {} /\ counter[s] = 0 /\ cut[s] = 0 /\ ~errors[s]

\* Unless an exception or the end of the process made a page go round again, no
\* page is counted twice, and none that is still to do was tried.
CountedOnce ==
  \A s \in Compared : cut[s] = 0 /\ ~errors[s] =>
    /\ counter[s] <= Cardinality(tried[s])
    /\ s = now => todo \cap PageRows(s) = {}

\* Something was counted just when the method was run on a page.
CountShows == \A s \in Compared : counter[s] > 0 <=> tried[s] # {}

\* A method that says when it fails has evaluated the pages it counted.
FailureTells == method \notin Silent => tried = checked

TotalsIInv == ComparisonTypeOK /\ RowsTell /\ NotYet /\ CountedOnce /\ CountShows /\ FailureTells

LEMMA PagesAreFinite ==
  ASSUME NEW S \in SUBSET SitePage
  PROVE  IsFiniteSet(S) /\ Cardinality(S) \in Nat /\ Cardinality(S) <= Cardinality(SitePage)
BY ComparisonAssumption, FS_Subset, FS_CardinalityType

LEMMA TotalsInitHolds == ComparisonInit => TotalsIInv
<1> SUFFICES ASSUME ComparisonInit  PROVE TotalsIInv
  OBVIOUS
<1> USE DEF ComparisonInit
<1>1. Cardinality(SitePage) \in Nat /\ MaxDeaths \in Nat /\ 0 \in 0..MaxDeaths /\ 0 \in 0..Cardinality(SitePage)
  BY PagesAreFinite, ComparisonAssumption
<1>2. ComparisonTypeOK
  BY <1>1, ComparisonAssumption DEF ComparisonTypeOK
<1>3. \A s \in Compared : PageRows(s) = {} /\ Places(s) = {}
  BY DEF PageRows, Places
<1>4. RowsTell /\ NotYet /\ CountShows /\ FailureTells
  BY <1>3 DEF RowsTell, NotYet, CountShows, FailureTells
<1>5. CountedOnce
  BY <1>3, FS_EmptySet DEF CountedOnce
<1>. QED  BY <1>2, <1>4, <1>5 DEF TotalsIInv

\* How the attempt at a page ends: only a page that is done with leaves the
\* scan without an exception and without an end of the process.
LEMMA EndsTell ==
  ASSUME ComparisonTypeOK, NEW s \in Compared, NEW p \in SitePage, Ends(s, p)
  PROVE  /\ todo' \subseteq todo /\ cut' \in [Compared -> 0..MaxDeaths] /\ errors' \in [Compared -> BOOLEAN]
         /\ \A t \in Compared \ {s} : cut'[t] = cut[t] /\ (errors'[t] <=> errors[t])
         /\ cut'[s] = 0 /\ ~errors'[s] => todo' = todo \ {p} /\ cut[s] = 0 /\ ~errors[s]
<1>1. \A t \in Compared : cut[t] \in 0..MaxDeaths /\ cut[t] \in Nat
  BY ComparisonAssumption DEF ComparisonTypeOK
<1>2. CASE todo' = todo \ {p} /\ UNCHANGED <<errors, cut>>
  BY <1>2 DEF ComparisonTypeOK
<1>3. CASE /\ todo' \in {todo, todo \ {p}} /\ errors' = [errors EXCEPT ![s] = TRUE]
           /\ UNCHANGED cut
  BY <1>3 DEF ComparisonTypeOK
<1>4. CASE /\ cut[1] + cut[2] < MaxDeaths /\ cut' = [cut EXCEPT ![s] = @ + 1]
           /\ errors' = [errors EXCEPT ![s] = FALSE] /\ UNCHANGED todo
  <2>1. cut[s] + 1 \in 0..MaxDeaths /\ cut[s] + 1 # 0
    BY <1>1, <1>4, ComparisonAssumption DEF Compared
  <2>2. cut' \in [Compared -> 0..MaxDeaths] /\ cut'[s] = cut[s] + 1
    BY <1>4, <2>1 DEF ComparisonTypeOK
  <2>. QED  BY <1>4, <2>1, <2>2 DEF ComparisonTypeOK
<1>. QED  BY <1>2, <1>3, <1>4 DEF Ends

\* An attempt at page p of the scan under way, whatever comes of it.
LEMMA AttemptHolds ==
  ASSUME TotalsIInv, NEW s \in Compared, s = now, NEW p \in todo, NEW state \in {"ok", "flawed"},
         row' = [row EXCEPT ![s][p] = state], UNCHANGED <<settings, now>>,
         todo' \subseteq todo, cut' \in [Compared -> 0..MaxDeaths], errors' \in [Compared -> BOOLEAN],
         \A t \in Compared \ {s} : cut'[t] = cut[t] /\ (errors'[t] <=> errors[t]),
         cut'[s] = 0 /\ ~errors'[s] => todo' = todo \ {p} /\ cut[s] = 0 /\ ~errors[s],
         \/ UNCHANGED <<counter, tried, checked, found>>
         \/ \E F \in {{}} \cup {{<<p, r>>} : r \in Result} : Evaluate(s, p, F)
  PROVE  TotalsIInv'
<1> USE DEF TotalsIInv
<1>1. p \in SitePage /\ now \in {1, 2} /\ UNCHANGED <<method, enabled, now>>
  BY DEF ComparisonTypeOK, Compared, settings
<1>2. /\ row' \in [Compared -> [SitePage -> {"none", "ok", "flawed"}]]
      /\ \A t \in Compared, q \in SitePage : row'[t][q] = IF t = s /\ q = p THEN state ELSE row[t][q]
  BY <1>1 DEF ComparisonTypeOK
<1>3. \A t \in Compared : PageRows(t)' = IF t = s THEN PageRows(t) \cup {p} ELSE PageRows(t)
  BY <1>1, <1>2 DEF PageRows
<1>4. Cardinality(SitePage) \in Nat /\ Cardinality(SitePage) >= 1
  BY <1>1, PagesAreFinite, FS_EmptySet, ComparisonAssumption
<1>5. CASE UNCHANGED <<counter, tried, checked, found>>
  <2>1. ComparisonTypeOK'
    BY <1>1, <1>2, <1>5 DEF ComparisonTypeOK
  <2>2. RowsTell'
    BY <1>3, <1>5 DEF RowsTell, Places
  <2>3. NotYet' /\ CountShows' /\ FailureTells'
    BY <1>1, <1>3, <1>5 DEF NotYet, CountShows, FailureTells
  <2>4. CountedOnce'
    BY <1>1, <1>3, <1>5 DEF CountedOnce
  <2>. QED  BY <2>1, <2>2, <2>3, <2>4
<1>6. CASE \E F \in {{}} \cup {{<<p, r>>} : r \in Result} : Evaluate(s, p, F)
  <2>1. PICK F \in {{}} \cup {{<<p, r>>} : r \in Result} : Evaluate(s, p, F)
    BY <1>6
  <2>2. F \subseteq SitePage \X Result /\ \A f \in F : f[1] = p
    BY <1>1
  <2>3. /\ counter' = [counter EXCEPT ![s] = Plus1(counter[s])]
        /\ tried' = [tried EXCEPT ![s] = tried[s] \cup {p}]
        /\ \/ checked' = [checked EXCEPT ![s] = checked[s] \cup {p}]
           \/ method \in Silent /\ checked' = checked
        /\ found' \in [Compared -> SUBSET (SitePage \X Result)]
        /\ \A t \in Compared : found'[t] \subseteq IF t = s THEN found[t] \cup F ELSE found[t]
    BY <2>1, <2>2 DEF Evaluate, ComparisonTypeOK
  <2>4. /\ counter[s] \in 0..Cardinality(SitePage) /\ Plus1(counter[s]) \in 0..Cardinality(SitePage)
        /\ Plus1(counter[s]) > 0 /\ Plus1(counter[s]) <= counter[s] + 1
    BY <1>4 DEF Plus1, ComparisonTypeOK
  <2>5. ComparisonTypeOK'
    BY <1>1, <1>2, <2>3, <2>4 DEF ComparisonTypeOK
  <2>6. RowsTell'
    BY <1>3, <2>2, <2>3 DEF RowsTell, Places, ComparisonTypeOK
  <2>7. NotYet' /\ CountShows'
    BY <1>1, <1>3, <2>3, <2>4 DEF NotYet, CountShows, ComparisonTypeOK
  <2>9. FailureTells'
    BY <1>1, <2>3 DEF FailureTells
  <2>8. CountedOnce'
    <3>1. ASSUME NEW t \in Compared \ {s}, cut'[t] = 0, ~errors'[t]
          PROVE  counter'[t] <= Cardinality(tried'[t]) /\ t # now'
      BY <1>1, <2>3, <3>1 DEF CountedOnce, ComparisonTypeOK
    <3>2. ASSUME cut'[s] = 0, ~errors'[s]
          PROVE  counter'[s] <= Cardinality(tried'[s]) /\ todo' \cap PageRows(s)' = {}
      <4>1. todo' = todo \ {p} /\ cut[s] = 0 /\ ~errors[s]
        BY <3>2
      <4>2. counter[s] <= Cardinality(tried[s]) /\ todo \cap PageRows(s) = {}
        BY <4>1 DEF CountedOnce
      <4>3. p \notin tried[s] /\ tried[s] \in SUBSET SitePage
        BY <4>2 DEF RowsTell, ComparisonTypeOK
      <4>4. /\ Cardinality(tried[s] \cup {p}) = Cardinality(tried[s]) + 1
            /\ Cardinality(tried[s]) \in Nat
        BY <4>3, PagesAreFinite, FS_AddElement
      <4>5. counter'[s] = Plus1(counter[s]) /\ Cardinality(tried'[s]) = Cardinality(tried[s]) + 1
        BY <2>3, <4>4 DEF ComparisonTypeOK
      <4>6. counter'[s] <= Cardinality(tried'[s])
        BY <2>4, <4>2, <4>4, <4>5
      <4>. QED  BY <1>3, <4>1, <4>2, <4>6
    <3>. QED  BY <3>1, <3>2 DEF CountedOnce
  <2>. QED  BY <2>5, <2>6, <2>7, <2>8, <2>9
<1>. QED  BY <1>5, <1>6

LEMMA CheckPageHolds == ASSUME TotalsIInv, CheckPage  PROVE TotalsIInv'
<1>1. PICK s \in Compared, p \in todo :
        /\ s = now
        /\ \E state \in {"ok", "flawed"} : row' = [row EXCEPT ![s][p] = state]
        /\ \/ /\ s \in enabled
              /\ \E F \in {{}} \cup {{<<p, r>>} : r \in Result} : Evaluate(s, p, F)
           \/ UNCHANGED <<counter, tried, checked, found>>
        /\ Ends(s, p) /\ UNCHANGED <<settings, now>>
  BY DEF CheckPage
<1>2. PICK state \in {"ok", "flawed"} : row' = [row EXCEPT ![s][p] = state]
  BY <1>1
<1>3. /\ todo' \subseteq todo /\ cut' \in [Compared -> 0..MaxDeaths] /\ errors' \in [Compared -> BOOLEAN]
      /\ \A t \in Compared \ {s} : cut'[t] = cut[t] /\ (errors'[t] <=> errors[t])
      /\ cut'[s] = 0 /\ ~errors'[s] => todo' = todo \ {p} /\ cut[s] = 0 /\ ~errors[s]
  BY <1>1, EndsTell DEF TotalsIInv, ComparisonTypeOK
<1>. QED  BY <1>1, <1>2, <1>3, AttemptHolds

LEMMA CheckPageFailsHolds == ASSUME TotalsIInv, CheckPageFails  PROVE TotalsIInv'
<1>1. PICK s \in Compared, p \in todo :
        /\ s = now /\ row' = [row EXCEPT ![s][p] = "flawed"]
        /\ todo' = todo \ {p} /\ errors' \in {errors, [errors EXCEPT ![s] = TRUE]}
        /\ UNCHANGED <<settings, now, cut, counter, found, tried, checked>>
  BY DEF CheckPageFails
<1>2. /\ todo' \subseteq todo /\ cut' \in [Compared -> 0..MaxDeaths] /\ errors' \in [Compared -> BOOLEAN]
      /\ \A t \in Compared \ {s} : cut'[t] = cut[t] /\ (errors'[t] <=> errors[t])
      /\ cut'[s] = 0 /\ ~errors'[s] => todo' = todo \ {p} /\ cut[s] = 0 /\ ~errors[s]
  BY <1>1 DEF TotalsIInv, ComparisonTypeOK
<1>. QED  BY <1>1, <1>2, AttemptHolds

LEMMA FinishHolds == ASSUME TotalsIInv, Finish  PROVE TotalsIInv'
<1> USE DEF TotalsIInv
<1>1. /\ now \in Compared /\ now' = now + 1 /\ now' \in 2..3 /\ (now' = 2 => now = 1)
      /\ todo' \in SUBSET SitePage
      /\ UNCHANGED <<method, enabled, cut, row, counter, errors, found, tried, checked>>
  BY ComparisonAssumption DEF Finish, settings, Compared
<1>2. ComparisonTypeOK'
  BY <1>1 DEF ComparisonTypeOK
<1>3. \A s \in Compared : PageRows(s)' = PageRows(s) /\ Places(s)' = Places(s)
  BY <1>1 DEF PageRows, Places
<1>4. RowsTell' /\ NotYet' /\ CountShows' /\ FailureTells'
  BY <1>1, <1>3 DEF RowsTell, NotYet, CountShows, FailureTells, Compared
<1>5. \A s \in Compared : s = now' => PageRows(s) = {}
  BY <1>1 DEF NotYet, Compared
<1>6. CountedOnce'
  BY <1>1, <1>3, <1>5 DEF CountedOnce
<1>. QED  BY <1>2, <1>4, <1>6

LEMMA TotalsNextHolds == TotalsIInv /\ [ComparisonNext]_comparisonVars => TotalsIInv'
<1> SUFFICES ASSUME TotalsIInv, [ComparisonNext]_comparisonVars  PROVE TotalsIInv'
  OBVIOUS
<1>1. CASE UNCHANGED comparisonVars
  <2>1. UNCHANGED <<method, enabled, now, todo, cut, row, counter, errors, found, tried, checked>>
    BY <1>1 DEF comparisonVars, settings
  <2>2. \A s \in Compared : PageRows(s)' = PageRows(s) /\ Places(s)' = Places(s)
    BY <2>1 DEF PageRows, Places
  <2>. QED  BY <2>1, <2>2 DEF TotalsIInv, ComparisonTypeOK, RowsTell, NotYet, CountedOnce, CountShows, FailureTells
<1>. QED  BY <1>1, CheckPageHolds, CheckPageFailsHolds, FinishHolds DEF ComparisonNext

-----------------------------------------------------------------------------
(* What the totals support *)

\* What is known of a method is where it was run: one that fails says so.
LEMMA ReachedIs == ASSUME TotalsIInv, NEW s \in Compared  PROVE Reached(s) = tried[s]
BY DEF TotalsIInv, FailureTells, Reached

\* As many pages counted as there are in a set of page rows: all of them.
LEMMA AllTried ==
  ASSUME TotalsIInv, NEW s \in Compared, cut[s] = 0, ~errors[s], NEW P \in Against(s),
         Cardinality(P) <= counter[s]
  PROVE  P \subseteq tried[s]
<1>1. /\ P \in SUBSET SitePage /\ tried[s] \in SUBSET SitePage /\ tried[s] \subseteq P
  BY DEF Against, PageRows, TotalsIInv, RowsTell, ComparisonTypeOK
<1>2. counter[s] \in Nat /\ counter[s] <= Cardinality(tried[s])
  BY PagesAreFinite DEF TotalsIInv, CountedOnce, ComparisonTypeOK
<1>3. /\ IsFiniteSet(P) /\ Cardinality(P) \in Nat /\ Cardinality(tried[s]) \in Nat
      /\ Cardinality(tried[s]) <= Cardinality(P)
  BY <1>1, PagesAreFinite, FS_Subset
<1>4. Cardinality(P) = Cardinality(tried[s])
  BY <1>2, <1>3
<1>. QED  BY <1>1, <1>3, <1>4, FS_Subset

LEMMA AbsenceCovered == TotalsIInv => AbsenceIsCovered
<1> SUFFICES ASSUME TotalsIInv, NEW s \in Compared, NEW o \in Compared, s # o, cut[s] = 0, ~Limited
             PROVE  Places(o) \subseteq Reached(s)
  <2>1. Category = "no_longer_detected" => ~Limited
    BY DEF Category
  <2>2. Category = "new" => ~Limited
    BY DEF Category
  <2>. QED  BY <2>1, <2>2 DEF AbsenceIsCovered, Compared
<1>1. /\ PageRows(s) = PageRows(o) /\ ~errors[s] /\ ~MethodNotes(s)
  BY DEF Limited, PairNotes, CommonNotes, Compared
<1>2. Cardinality(PageRows(s)) <= counter[s]
  <2>1. Cardinality(PageRows(s)) \in Nat /\ counter[s] \in Nat
    BY PagesAreFinite DEF PageRows, TotalsIInv, ComparisonTypeOK
  <2>. QED  BY <1>1, <2>1 DEF MethodNotes
<1>3. tried[s] \subseteq PageRows(s) /\ Places(o) \subseteq PageRows(s)
  BY <1>1 DEF TotalsIInv, RowsTell
<1>4. PageRows(s) \in Against(s)
  BY <1>3 DEF Against
<1>. QED  BY <1>1, <1>2, <1>3, <1>4, AllTried, ReachedIs

LEMMA MethodsTold == TotalsIInv => MethodsAreTold
<1> SUFFICES ASSUME TotalsIInv  PROVE MethodsAreTold
  OBVIOUS
<1>1. ASSUME NEW s \in Compared, NEW known \in BOOLEAN, NEW P \in Against(s)
      PROVE  LET told == MethodTold(s, known, P)
             IN /\ told = "checked" /\ cut[s] = 0 /\ ~errors[s] => P \subseteq Reached(s)
                /\ told = "partial" /\ now > s => SaidPartial(s)
                /\ told \in {"checked", "partial", "running"} => Reached(s) # {}
                /\ told \in {"not_run", "waiting", "not_selected", "coverage_unknown"} => tried[s] = {}
                /\ Line(s) = "ran, clean" => Reached(s) # {} /\ found[s] = {}
                /\ Line(s) = "n/a" => tried[s] = {}
  <2> DEFINE told == MethodTold(s, known, P)
  <2>1. /\ counter[s] \in Nat /\ P \subseteq PageRows(s) /\ PageRows(s) \in SUBSET SitePage
        /\ (counter[s] > 0 <=> tried[s] # {})
    BY PagesAreFinite DEF Against, PageRows, TotalsIInv, ComparisonTypeOK, CountShows
  <2>2. /\ Cardinality(P) \in Nat /\ Cardinality(PageRows(s)) \in Nat
        /\ Cardinality(P) <= Cardinality(PageRows(s))
    BY <2>1, PagesAreFinite, FS_Subset
  <2>3. told = "checked" => Cardinality(P) <= counter[s]
    BY <2>1, <2>2 DEF MethodTold, MethodResult
  <2>4. told = "partial" /\ now > s => SaidPartial(s)
    BY <2>1, <2>2 DEF MethodTold, MethodResult, SaidPartial
  <2>5. /\ told \in {"checked", "partial", "running"} => counter[s] > 0
        /\ told \in {"not_run", "waiting", "not_selected", "coverage_unknown"} => ~(counter[s] > 0)
    BY <2>1 DEF MethodTold, MethodResult
  <2>6. /\ Line(s) = "ran, clean" => counter[s] > 0 /\ found[s] = {}
        /\ Line(s) = "n/a" => ~(counter[s] > 0)
    BY DEF Line
  <2> HIDE DEF told
  <2>7. told = "checked" /\ cut[s] = 0 /\ ~errors[s] => P \subseteq tried[s]
    BY <2>3, AllTried
  <2>8. Reached(s) = tried[s]
    BY ReachedIs
  <2>9. told = "checked" /\ cut[s] = 0 /\ ~errors[s] => P \subseteq Reached(s)
    BY <2>7, <2>8
  <2>10. /\ told \in {"checked", "partial", "running"} => Reached(s) # {}
         /\ told \in {"not_run", "waiting", "not_selected", "coverage_unknown"} => tried[s] = {}
    BY <2>1, <2>5, <2>8
  <2>11. /\ Line(s) = "ran, clean" => Reached(s) # {} /\ found[s] = {}
         /\ Line(s) = "n/a" => tried[s] = {}
    BY <2>1, <2>6, <2>8, Zenon
  <2>. QED  BY <2>4, <2>9, <2>10, <2>11, Zenon DEF told
<1>2. ASSUME NEW on \in BOOLEAN, NEW running \in BOOLEAN, NEW attention \in BOOLEAN, NEW total \in 0..2,
             NEW done \in 0..total
      PROVE  /\ ImageResult(on, running, done, total) = "checked" => done = total
             /\ SearchResult(on, running, done, attention) = "checked" => ~attention /\ done > 0
  <2>1. done \in Nat /\ done <= total
    OBVIOUS
  <2>2. ImageResult(on, running, done, total) = "checked" => done = total
    BY <2>1 DEF ImageResult, MethodResult
  <2>3. SearchResult(on, running, done, attention) = "checked" => ~attention /\ done > 0
    BY <2>1 DEF SearchResult, MethodResult
  <2>. QED  BY <2>2, <2>3
<1>3. \A s \in Compared : \A known \in BOOLEAN, P \in Against(s) :
           LET told == MethodTold(s, known, P)
           IN /\ told = "checked" /\ cut[s] = 0 /\ ~errors[s] => P \subseteq Reached(s)
              /\ told = "partial" /\ now > s => SaidPartial(s)
              /\ told \in {"checked", "partial", "running"} => Reached(s) # {}
              /\ told \in {"not_run", "waiting", "not_selected", "coverage_unknown"} => tried[s] = {}
              /\ Line(s) = "ran, clean" => Reached(s) # {} /\ found[s] = {}
              /\ Line(s) = "n/a" => tried[s] = {}
  BY <1>1, Zenon
<1>4. \A on, running, attention \in BOOLEAN : \A total \in 0..2 : \A done \in 0..total :
        /\ ImageResult(on, running, done, total) = "checked" => done = total
        /\ SearchResult(on, running, done, attention) = "checked" => ~attention /\ done > 0
  BY <1>2, Zenon
<1>. QED  BY <1>3, <1>4, Zenon DEF MethodsAreTold

\* A comparison claims an absence only of pages that the method covered, and the
\* list of methods says of each what its totals support (web/comparison.py,
\* server.py _methods_used).
THEOREM TotalsCorrect == ComparisonSpec => []TotalsAreTrue
<1>1. TotalsIInv => TotalsAreTrue
  BY AbsenceCovered, MethodsTold DEF TotalsIInv, TotalsAreTrue
<1>. QED  BY <1>1, TotalsInitHolds, TotalsNextHolds, PTL DEF ComparisonSpec

-----------------------------------------------------------------------------
(* The clicks of the probe *)

\* What captured is.
Captured == [loaded : SUBSET {TopLevel, "frame"}, seen : SUBSET Ctl, found : SUBSET (Ctl \X Ctl),
             shots : SUBSET Ctl, states : SUBSET Ctl, missed : BOOLEAN]

Level == [from : Ctl \cup {TopLevel}, all : SUBSET Ctl, todo : SUBSET Ctl, opened : SUBSET Modal]

\* What the levels still have to see to was found, in the document swept, and
\* all but the first descend from a control that was tried; the dialog a level
\* has to close is the one this control opened.
LevelsFit ==
  /\ \A i \in DOMAIN levels :
       /\ levels[i].todo \subseteq budget.discovered \cap Swept
       /\ i > 1 => levels[i].from \in budget.claimed
       /\ levels[i].opened \subseteq {levels[i].from}
  /\ frame = "behind" => levels = <<>>

Ahead(x) == \E i \in DOMAIN levels : x \in levels[i].todo

\* A control that was found is ahead, tried or refused, unless a limit that is
\* told, or soon will be, explains it.
FoundIsExplained ==
  \/ budget.limits \ Cosmetic # {} \/ budget.remaining = 0
  \/ \A x \in budget.discovered : x \in budget.claimed \cup budget.refused \/ Ahead(x)

\* What was tried or refused was found, and a dialog was opened by a control tried.
TriedIsFound ==
  /\ budget.operated \subseteq budget.claimed /\ budget.claimed \subseteq budget.discovered
  /\ budget.refused \subseteq budget.discovered /\ dialogs \subseteq budget.claimed

\* A dialog that cannot be closed is told of; one is being closed by the level
\* that opened it and that has nothing else to do.
HaltIsTold ==
  /\ budget.halted => "dialog_not_dismissed" \in budget.limits
  /\ "dialog_not_dismissed" \in budget.limits => budget.claimed # {}
  /\ probing = "closing" =>
       levels # <<>> /\ (Top.todo = {} \/ Spent) /\ Top.opened \cap dialogs # {}

\* The violations of a document as it loads are known if the check of it worked,
\* and those of the frame are not found before it is swept.
LoadIsSeen ==
  /\ TopLevel \in captured.loaded => Faulty \cap Present \subseteq captured.seen
  /\ "frame" \in captured.loaded => Faulty \cap Framed \subseteq captured.seen
  /\ frame = "ahead" => "frame" \notin captured.loaded
  /\ \A x \in captured.found : x[1] \in captured.seen /\ (frame = "ahead" => x[1] \notin Framed)

ProbeIInv ==
  /\ ProbeTypeOK /\ LevelsFit /\ FoundIsExplained /\ TriedIsFound /\ HaltIsTold /\ LoadIsSeen
  /\ RevealedIsNew /\ CoverageAddsUp

-----------------------------------------------------------------------------
(* What the steps make of the stack of levels *)

LEMMA TopIs ==
  ASSUME levels \in Seq(Level), levels # <<>>
  PROVE  /\ Len(levels) \in DOMAIN levels /\ Top \in Level /\ Len(levels) \in Nat \ {0}
         /\ DOMAIN levels = 1..Len(levels)
BY EmptySeq, LenProperties DEF Top

LEMMA DropIs ==
  ASSUME levels \in Seq(Level), levels # <<>>, NEW c
  PROVE  /\ Drop(c) \in Seq(Level) /\ Len(Drop(c)) = Len(levels) /\ DOMAIN Drop(c) = DOMAIN levels
         /\ \A i \in DOMAIN levels :
              /\ Drop(c)[i].from = levels[i].from /\ Drop(c)[i].opened = levels[i].opened
              /\ Drop(c)[i].todo = IF i = Len(levels) THEN levels[i].todo \ {c} ELSE levels[i].todo
<1> DEFINE e == [Top EXCEPT !.todo = @ \ {c}]
<1>1. e \in Level /\ e.from = Top.from /\ e.opened = Top.opened /\ e.todo = Top.todo \ {c}
  BY TopIs DEF Level
<1>2. Drop(c) = [levels EXCEPT ![Len(levels)] = e]
  BY TopIs DEF Drop, Top
<1> HIDE DEF e
<1>3. /\ Drop(c) \in Seq(Level) /\ Len(Drop(c)) = Len(levels)
      /\ \A i \in 1..Len(levels) : Drop(c)[i] = IF i = Len(levels) THEN e ELSE levels[i]
  BY <1>1, <1>2, TopIs, ExceptSeq
<1>4. DOMAIN Drop(c) = DOMAIN levels
  BY <1>3, TopIs, LenProperties
<1>. QED  BY <1>1, <1>3, <1>4, TopIs DEF Top

\* The stack after a step that is done with one control at most.
LEMMA DroppedIs ==
  ASSUME levels \in Seq(Level), levels # <<>>, NEW c, levels' = levels \/ levels' = Drop(c)
  PROVE  /\ levels' \in Seq(Level) /\ DOMAIN levels' = DOMAIN levels
         /\ \A i \in DOMAIN levels :
              /\ levels'[i].from = levels[i].from /\ levels'[i].opened = levels[i].opened
              /\ levels'[i].todo \subseteq levels[i].todo
         /\ \A i \in DOMAIN levels :
              /\ levels[i].todo \ {c} \subseteq levels'[i].todo
              /\ levels' = levels => levels'[i].todo = levels[i].todo
<1>1. CASE levels' = levels
  BY <1>1
<1>2. CASE levels' # levels
  <2>1. levels' = Drop(c)
    BY <1>2
  <2>2. /\ Drop(c) \in Seq(Level) /\ DOMAIN Drop(c) = DOMAIN levels
        /\ \A i \in DOMAIN levels :
             /\ Drop(c)[i].from = levels[i].from /\ Drop(c)[i].opened = levels[i].opened
             /\ Drop(c)[i].todo = IF i = Len(levels) THEN levels[i].todo \ {c} ELSE levels[i].todo
    BY DropIs
  <2> DEFINE d == Drop(c)
  <2> HIDE DEF d
  <2>3. /\ d \in Seq(Level) /\ DOMAIN d = DOMAIN levels
        /\ \A i \in DOMAIN levels :
             /\ d[i].from = levels[i].from /\ d[i].opened = levels[i].opened
             /\ d[i].todo \subseteq levels[i].todo /\ levels[i].todo \ {c} \subseteq d[i].todo
    BY <2>2 DEF d
  <2>4. levels' = d
    BY <2>1 DEF d
  <2>. QED  BY <1>2, <2>3, <2>4
<1>. QED  BY <1>1, <1>2

LEMMA BelowIs ==
  ASSUME levels \in Seq(Level), levels # <<>>
  PROVE  /\ Below \in Seq(Level) /\ DOMAIN Below = 1..(Len(levels) - 1)
         /\ \A i \in DOMAIN Below : i \in DOMAIN levels /\ i # Len(levels) /\ Below[i] = levels[i]
<1>1. \A i \in 1..(Len(levels) - 1) : levels[i] \in Level
  BY TopIs, LenProperties
<1>2. /\ Below \in Seq(Level) /\ Len(Below) = Len(levels) - 1
      /\ \A i \in 1..(Len(levels) - 1) : Below[i] = levels[i]
  BY <1>1, TopIs, SubSeqProperties DEF Below
<1>3. DOMAIN Below = 1..(Len(levels) - 1)
  BY <1>2, LenProperties
<1>. QED  BY <1>2, <1>3, TopIs

LEMMA DeeperIs ==
  ASSUME levels \in Seq(Level), levels # <<>>, NEW c, NEW e \in Level
  PROVE  /\ Drop(c) \o <<e>> \in Seq(Level)
         /\ DOMAIN (Drop(c) \o <<e>>) = 1..(Len(levels) + 1)
         /\ (Drop(c) \o <<e>>)[Len(levels) + 1] = e
         /\ \A i \in DOMAIN levels :
              i \in 1..(Len(levels) + 1) /\ (Drop(c) \o <<e>>)[i] = Drop(c)[i]
<1>1. Drop(c) \in Seq(Level) /\ Len(Drop(c)) = Len(levels) /\ Len(levels) \in Nat /\ DOMAIN levels = 1..Len(levels)
  BY DropIs, TopIs
<1>2. <<e>> \in Seq(Level) /\ Len(<<e>>) = 1 /\ <<e>>[1] = e
  OBVIOUS
<1> DEFINE d == Drop(c)
           s == <<e>>
<1> HIDE DEF d, s
<1>3. /\ d \o s \in Seq(Level) /\ Len(d \o s) = Len(levels) + 1
      /\ \A i \in 1..(Len(levels) + 1) : (d \o s)[i] = IF i <= Len(levels) THEN d[i] ELSE s[i - Len(levels)]
  BY <1>1, <1>2, ConcatProperties DEF d, s
<1>4. DOMAIN (d \o s) = 1..(Len(levels) + 1)
  BY <1>3, LenProperties
<1>5. (d \o s)[Len(levels) + 1] = e
  BY <1>1, <1>2, <1>3 DEF s
<1>. QED  BY <1>1, <1>3, <1>4, <1>5 DEF d, s

LEMMA OutsetIs ==
  ASSUME NEW S \in SUBSET Ctl
  PROVE  /\ Outset(S) \in Seq(Level) /\ DOMAIN Outset(S) = {1}
         /\ Outset(S)[1].todo = (IF MaxDepth = 0 THEN {} ELSE S) /\ Outset(S)[1].opened = {}
         /\ TooDeep(0, S) \subseteq {"depth"}
         /\ MaxDepth = 0 /\ S # {} => TooDeep(0, S) = {"depth"}
<1> DEFINE e == [from |-> TopLevel, all |-> S, todo |-> IF MaxDepth = 0 THEN {} ELSE S, opened |-> {}]
<1>1. e \in Level
  BY DEF Level
<1>2. Outset(S) = <<e>>
  BY DEF Outset
<1>3. e.todo = (IF MaxDepth = 0 THEN {} ELSE S) /\ e.opened = {}
  OBVIOUS
<1> HIDE DEF e
<1>4. Outset(S) \in Seq(Level) /\ DOMAIN Outset(S) = {1} /\ Outset(S)[1] = e
  BY <1>1, <1>2
<1>5. TooDeep(0, S) \subseteq {"depth"} /\ (MaxDepth = 0 /\ S # {} => TooDeep(0, S) = {"depth"})
  BY ProbeAssumption DEF TooDeep
<1>. QED  BY <1>3, <1>4, <1>5

-----------------------------------------------------------------------------
LEMMA ProbeInitHolds == ProbeInit => ProbeIInv
<1> SUFFICES ASSUME ProbeInit  PROVE ProbeIInv
  OBVIOUS
<1> USE DEF ProbeInit
<1>1. Present \in SUBSET Ctl /\ Framed \in SUBSET Ctl /\ MaxClicks \in Nat /\ MaxDepth \in Nat
      /\ Present \cap InFrame = {} /\ Framed \cap Present = {} /\ Faulty \subseteq Ctl
  BY ProbeAssumption
<1>2. /\ levels \in Seq(Level) /\ DOMAIN levels = {1}
      /\ levels[1].todo = (IF MaxDepth = 0 THEN {} ELSE Present) /\ levels[1].opened = {}
      /\ budget.limits = TooDeep(0, Present) /\ TooDeep(0, Present) \subseteq {"depth"}
      /\ MaxDepth = 0 /\ Present # {} => TooDeep(0, Present) = {"depth"}
  BY <1>1, OutsetIs
<1>3. budget \in Budget
  BY <1>1, <1>2 DEF Budget, Limits
<1>4. /\ captured \in Captured /\ "frame" \notin captured.loaded /\ captured.found = {}
      /\ captured.shots = {} /\ captured.states = {}
      /\ TopLevel \in captured.loaded \/ ~captured.missed => captured.seen = Faulty \cap Present
  <2> DEFINE none == [loaded |-> {}, seen |-> {}, found |-> {}, shots |-> {}, states |-> {},
                      missed |-> FALSE]
  <2>1. CASE captured = [none EXCEPT !.loaded = @ \cup {TopLevel}, !.seen = @ \cup (Faulty \cap Present)]
    <3>1. captured = [loaded |-> {TopLevel}, seen |-> Faulty \cap Present, found |-> {}, shots |-> {},
                      states |-> {}, missed |-> FALSE]
      BY <2>1
    <3>. QED  BY <1>1, <3>1 DEF Captured, TopLevel
  <2>2. CASE captured = [none EXCEPT !.missed = TRUE]
    <3>1. captured = [loaded |-> {}, seen |-> {}, found |-> {}, shots |-> {}, states |-> {}, missed |-> TRUE]
      BY <2>2
    <3>. QED  BY <1>1, <3>1 DEF Captured, TopLevel
  <2>. QED  BY <2>1, <2>2 DEF Baselines
<1>5. ProbeTypeOK
  BY <1>1, <1>2, <1>3, <1>4 DEF ProbeTypeOK, Level, Captured
<1>6. LevelsFit
  BY <1>1, <1>2 DEF LevelsFit, Swept
<1>7. FoundIsExplained
  BY <1>2 DEF FoundIsExplained, Ahead, Cosmetic
<1>8. TriedIsFound /\ HaltIsTold
  BY <1>2 DEF TriedIsFound, HaltIsTold
<1>9. LoadIsSeen /\ RevealedIsNew /\ CoverageAddsUp
  BY <1>1, <1>4 DEF LoadIsSeen, RevealedIsNew, CoverageAddsUp
<1>. QED  BY <1>5, <1>6, <1>7, <1>8, <1>9 DEF ProbeIInv

\* What a step that sweeps may rely on.
LEMMA SweepFields ==
  ASSUME ProbeIInv, Sweeping
  PROVE  /\ levels \in Seq(Level) /\ levels # <<>> /\ probing = "sweep" /\ frame \in {"ahead", "here"}
         /\ budget \in Budget /\ budget.remaining \in 1..MaxClicks /\ ~budget.halted
         /\ \A c \in Top.todo : c \in budget.discovered \cap Swept /\ c \in Ctl
<1>1. levels \in Seq(Level) /\ levels # <<>> /\ probing = "sweep" /\ budget \in Budget
      /\ budget.remaining # 0 /\ ~budget.halted /\ frame \in {"ahead", "here", "behind"}
  BY DEF ProbeIInv, ProbeTypeOK, Sweeping, Spent, Level
<1>2. budget.remaining \in 1..MaxClicks
  BY <1>1, ProbeAssumption DEF Budget
<1>3. frame # "behind" /\ Top = levels[Len(levels)] /\ Len(levels) \in DOMAIN levels
  BY <1>1, TopIs DEF ProbeIInv, LevelsFit, Top
<1>4. Top.todo \subseteq budget.discovered \cap Swept /\ budget.discovered \subseteq Ctl
  BY <1>1, <1>3 DEF ProbeIInv, LevelsFit, Budget
<1>. QED  BY <1>1, <1>2, <1>3, <1>4

\* A step that is done with one control at most, and reveals nothing.
LEMMA DropHolds ==
  ASSUME ProbeIInv, Sweeping, NEW c \in Top.todo, UNCHANGED <<frame, probing>>,
         \/ levels' = levels
         \/ /\ levels' = Drop(c)
            /\ c \in budget'.claimed \cup budget'.refused \/ budget'.limits \ Cosmetic # {},
         budget' \in Budget, budget'.discovered = budget.discovered, budget'.halted = budget.halted,
         budget.limits \subseteq budget'.limits,
         "dialog_not_dismissed" \in budget'.limits => "dialog_not_dismissed" \in budget.limits,
         budget.claimed \subseteq budget'.claimed, budget'.claimed \subseteq budget.claimed \cup {c},
         budget.refused \subseteq budget'.refused, budget'.refused \subseteq budget.refused \cup {c},
         budget.operated \subseteq budget'.operated, budget'.operated \subseteq budget'.claimed,
         operable' \in SUBSET Ctl,
         dialogs' \in SUBSET Modal, dialogs' \subseteq budget'.claimed,
         hit' \in [dialog : BOOLEAN, blind : BOOLEAN, left : BOOLEAN],
         captured' = captured \/ captured' = [captured EXCEPT !.missed = TRUE]
  PROVE  ProbeIInv'
<1> USE DEF ProbeIInv
<1>1. /\ levels \in Seq(Level) /\ levels # <<>> /\ probing = "sweep" /\ frame \in {"ahead", "here"}
      /\ budget \in Budget /\ budget.remaining \in 1..MaxClicks /\ c \in budget.discovered
      /\ budget.discovered \subseteq Ctl
  BY SweepFields DEF Budget
<1>2. /\ levels' \in Seq(Level) /\ DOMAIN levels' = DOMAIN levels
      /\ \A i \in DOMAIN levels :
           /\ levels'[i].from = levels[i].from /\ levels'[i].opened = levels[i].opened
           /\ levels'[i].todo \subseteq levels[i].todo
      /\ \A i \in DOMAIN levels :
           /\ levels[i].todo \ {c} \subseteq levels'[i].todo
           /\ levels' = levels => levels'[i].todo = levels[i].todo
  BY <1>1, DroppedIs
<1>3. /\ captured' \in Captured /\ captured'.loaded = captured.loaded
      /\ captured'.seen = captured.seen /\ captured'.found = captured.found
      /\ captured'.shots = captured.shots /\ captured'.states = captured.states
      /\ ~captured'.missed => ~captured.missed
  BY DEF ProbeTypeOK, Captured
<1>4. ProbeTypeOK'
  BY <1>2, <1>3 DEF ProbeTypeOK, Level, Captured
<1>5. LevelsFit'
  BY <1>1, <1>2 DEF LevelsFit, Swept
<1>6. FoundIsExplained'
  BY <1>1, <1>2 DEF FoundIsExplained, Ahead
<1>7. TriedIsFound' /\ HaltIsTold' /\ CoverageAddsUp'
  BY <1>1 DEF TriedIsFound, HaltIsTold, CoverageAddsUp
<1>8. LoadIsSeen' /\ RevealedIsNew'
  BY <1>3 DEF LoadIsSeen, RevealedIsNew
<1>. QED  BY <1>4, <1>5, <1>6, <1>7, <1>8

\* The budget after a click: one less is left, and the control is tried.
LEMMA ClickedIs ==
  ASSUME ProbeIInv, Sweeping, NEW c \in Top.todo,
         NEW b \in {Clicked(c), [Clicked(c) EXCEPT !.inert = @ \cup {c}], Changes(Clicked(c), c)}
  PROVE  /\ b \in Budget /\ b.discovered = budget.discovered /\ b.halted = budget.halted
         /\ b.limits = budget.limits /\ b.claimed = budget.claimed \cup {c}
         /\ b.refused = budget.refused /\ b.operated = budget.operated \cup {c}
<1>1. budget \in Budget /\ budget.remaining \in 1..MaxClicks /\ c \in Ctl
  BY SweepFields
<1>2. budget.remaining - 1 \in 0..MaxClicks
  BY <1>1, ProbeAssumption
<1>3. /\ Clicked(c) \in Budget /\ Clicked(c).discovered = budget.discovered /\ Clicked(c).halted = budget.halted
      /\ Clicked(c).limits = budget.limits /\ Clicked(c).claimed = budget.claimed \cup {c}
      /\ Clicked(c).refused = budget.refused /\ Clicked(c).operated = budget.operated \cup {c}
  BY <1>1, <1>2 DEF Clicked, Budget
<1> DEFINE k == Clicked(c)
<1> HIDE DEF k
<1>4. \A b2 \in {k, [k EXCEPT !.inert = @ \cup {c}], [k EXCEPT !.inert = {i \in @ : Shape[i] # Shape[c]}]} :
        k \in Budget => /\ b2 \in Budget /\ b2.discovered = k.discovered /\ b2.halted = k.halted
                        /\ b2.limits = k.limits /\ b2.claimed = k.claimed
                        /\ b2.refused = k.refused /\ b2.operated = k.operated
  BY <1>1 DEF Budget
<1>. QED  BY <1>3, <1>4 DEF k, Changes

LEMMA HitsType ==
  ASSUME ProbeIInv, NEW c, NEW blind \in BOOLEAN, NEW left \in BOOLEAN, Hits(c, blind, left)
  PROVE  hit' \in [dialog : BOOLEAN, blind : BOOLEAN, left : BOOLEAN]
<1>1. hit.dialog \in BOOLEAN /\ hit.blind \in BOOLEAN /\ hit.left \in BOOLEAN
  BY DEF ProbeIInv, ProbeTypeOK
<1>2. (hit.dialog \/ Covered(c)) \in BOOLEAN /\ (hit.blind \/ blind) \in BOOLEAN /\ (hit.left \/ left) \in BOOLEAN
  BY <1>1 DEF Covered
<1>. QED  BY <1>2 DEF Hits

\* A click that changed the address may leave the dialog it opened, and no other.
LEMMA LandsIs ==
  ASSUME ProbeTypeOK, NEW c \in Ctl, Lands(c)
  PROVE  /\ operable' \in SUBSET Ctl /\ dialogs' \in SUBSET Modal
         /\ dialogs' \subseteq dialogs \cup ({c} \cap Modal)
<1>1. Reveals[c] \in SUBSET Ctl /\ Present \subseteq Ctl /\ Framed \subseteq Ctl
  BY ProbeAssumption
<1>2. operable \in SUBSET Ctl /\ dialogs \in SUBSET Modal
  BY DEF ProbeTypeOK
<1>. QED  BY <1>1, <1>2 DEF Lands

LEMMA RefuseHolds == ASSUME ProbeIInv, Refuse  PROVE ProbeIInv'
<1>1. PICK c \in Top.todo : levels' = Drop(c) /\ budget' = [budget EXCEPT !.refused = @ \cup {c}]
  BY DEF Refuse
<1>2. Sweeping /\ UNCHANGED <<operable, dialogs, frame, probing, hit, captured>>
  BY DEF Refuse
<1>3. c \in Ctl /\ budget \in Budget
  BY <1>2, SweepFields
<1>4. /\ budget' \in Budget /\ budget'.discovered = budget.discovered /\ budget'.halted = budget.halted
      /\ budget'.limits = budget.limits /\ budget'.claimed = budget.claimed
      /\ budget'.refused = budget.refused \cup {c} /\ budget'.operated = budget.operated
  BY <1>1, <1>3 DEF Budget
<1>. QED  BY <1>1, <1>2, <1>4, DropHolds DEF ProbeIInv, ProbeTypeOK, TriedIsFound

LEMMA SkipHolds == ASSUME ProbeIInv, Skip  PROVE ProbeIInv'
<1>1. PICK c \in Top.todo :
        /\ levels' = Drop(c)
        /\ \/ c \in budget.claimed /\ UNCHANGED budget
           \/ \E l \in Sampled(c) : budget' = [budget EXCEPT !.limits = @ \cup {l}]
  BY DEF Skip
<1>2. Sweeping /\ UNCHANGED <<operable, dialogs, frame, probing, hit, captured>>
  BY DEF Skip
<1>3. budget \in Budget
  BY <1>2, SweepFields
<1>4. /\ budget' \in Budget /\ budget'.discovered = budget.discovered /\ budget'.halted = budget.halted
      /\ budget.limits \subseteq budget'.limits /\ budget'.claimed = budget.claimed
      /\ "dialog_not_dismissed" \in budget'.limits => "dialog_not_dismissed" \in budget.limits
      /\ budget'.refused = budget.refused /\ budget'.operated = budget.operated
      /\ c \in budget.claimed \/ budget'.limits \ Cosmetic # {}
  BY <1>1, <1>3 DEF Budget, Sampled, Limits, Cosmetic
<1>. QED  BY <1>1, <1>2, <1>4, DropHolds DEF ProbeIInv, ProbeTypeOK, TriedIsFound

LEMMA OperateFailsHolds == ASSUME ProbeIInv, OperateFails  PROVE ProbeIInv'
<1>1. PICK c \in Top.todo, sent \in BOOLEAN :
        /\ levels' = Drop(c)
        /\ budget' = [budget EXCEPT !.claimed = @ \cup {c}, !.remaining = IF sent THEN @ - 1 ELSE @]
  BY DEF OperateFails
<1>2. Sweeping /\ UNCHANGED <<operable, dialogs, frame, probing, hit, captured>>
  BY DEF OperateFails
<1>3. budget \in Budget /\ c \in Ctl /\ (IF sent THEN budget.remaining - 1 ELSE budget.remaining) \in 0..MaxClicks
  BY <1>2, SweepFields, ProbeAssumption
<1>4. /\ budget' \in Budget /\ budget'.discovered = budget.discovered /\ budget'.halted = budget.halted
      /\ budget'.limits = budget.limits /\ budget'.claimed = budget.claimed \cup {c}
      /\ budget'.refused = budget.refused /\ budget'.operated = budget.operated
  BY <1>1, <1>3 DEF Budget
<1>. QED  BY <1>1, <1>2, <1>4, DropHolds DEF ProbeIInv, ProbeTypeOK, TriedIsFound

LEMMA OperateInertHolds == ASSUME ProbeIInv, OperateInert  PROVE ProbeIInv'
<1>1. PICK c \in Top.todo :
        levels' = Drop(c) /\ Hits(c, FALSE, FALSE) /\ budget' = [Clicked(c) EXCEPT !.inert = @ \cup {c}]
  BY DEF OperateInert
<1>2. Sweeping /\ UNCHANGED <<operable, dialogs, frame, probing, captured>>
  BY DEF OperateInert
<1>3. hit' \in [dialog : BOOLEAN, blind : BOOLEAN, left : BOOLEAN]
  BY <1>1, HitsType
<1>4. /\ budget' \in Budget /\ budget'.discovered = budget.discovered /\ budget'.halted = budget.halted
      /\ budget'.limits = budget.limits /\ budget'.claimed = budget.claimed \cup {c}
      /\ budget'.refused = budget.refused /\ budget'.operated = budget.operated \cup {c}
  BY <1>1, <1>2, ClickedIs
<1>. QED  BY <1>1, <1>2, <1>3, <1>4, DropHolds DEF ProbeIInv, ProbeTypeOK, TriedIsFound

LEMMA OperateNavigatesHolds == ASSUME ProbeIInv, OperateNavigates  PROVE ProbeIInv'
<1>1. PICK c \in Top.todo :
        /\ levels' = Drop(c) /\ budget' = Clicked(c)
        /\ Lands(c) /\ Hits(c, FALSE, ~ (dialogs' \subseteq dialogs))
  BY DEF OperateNavigates
<1>2. Sweeping /\ UNCHANGED <<frame, probing, captured>> /\ c \in Ctl
  BY SweepFields DEF OperateNavigates
<1>3. hit' \in [dialog : BOOLEAN, blind : BOOLEAN, left : BOOLEAN]
  <2>1. (~ (dialogs' \subseteq dialogs)) \in BOOLEAN
    OBVIOUS
  <2>. QED  BY <1>1, <2>1, HitsType
<1>4. /\ budget' \in Budget /\ budget'.discovered = budget.discovered /\ budget'.halted = budget.halted
      /\ budget'.limits = budget.limits /\ budget'.claimed = budget.claimed \cup {c}
      /\ budget'.refused = budget.refused /\ budget'.operated = budget.operated \cup {c}
  BY <1>1, <1>2, ClickedIs
<1>5. /\ operable' \in SUBSET Ctl /\ dialogs' \in SUBSET Modal
      /\ dialogs' \subseteq dialogs \cup ({c} \cap Modal)
  BY <1>1, <1>2, LandsIs DEF ProbeIInv
<1>. QED  BY <1>1, <1>2, <1>3, <1>4, <1>5, DropHolds DEF ProbeIInv, TriedIsFound

LEMMA OperateBreaksHolds == ASSUME ProbeIInv, OperateBreaks  PROVE ProbeIInv'
<1>1. PICK c \in Top.todo :
        /\ levels' = Drop(c) /\ Lands(c) /\ Hits(c, TRUE, FALSE)
        /\ budget' \in {Clicked(c), Changes(Clicked(c), c)}
        /\ captured' = [captured EXCEPT !.missed = TRUE]
  BY DEF OperateBreaks
<1>2. Sweeping /\ UNCHANGED <<frame, probing>> /\ c \in Ctl
  BY SweepFields DEF OperateBreaks
<1>3. hit' \in [dialog : BOOLEAN, blind : BOOLEAN, left : BOOLEAN]
  BY <1>1, HitsType
<1>4. /\ budget' \in Budget /\ budget'.discovered = budget.discovered /\ budget'.halted = budget.halted
      /\ budget'.limits = budget.limits /\ budget'.claimed = budget.claimed \cup {c}
      /\ budget'.refused = budget.refused /\ budget'.operated = budget.operated \cup {c}
  <2>1. CASE budget' = Clicked(c)
    BY <1>2, <2>1, ClickedIs
  <2>2. CASE budget' = Changes(Clicked(c), c)
    BY <1>2, <2>2, ClickedIs
  <2>. QED  BY <1>1, <2>1, <2>2
<1>5. /\ operable' \in SUBSET Ctl /\ dialogs' \in SUBSET Modal
      /\ dialogs' \subseteq dialogs \cup ({c} \cap Modal)
  BY <1>1, <1>2, LandsIs DEF ProbeIInv
<1>. QED  BY <1>1, <1>2, <1>3, <1>4, <1>5, DropHolds DEF ProbeIInv, TriedIsFound

LEMMA OperateClosesHolds == ASSUME ProbeIInv, OperateCloses  PROVE ProbeIInv'
<1>1. PICK c \in Top.todo, d \in dialogs :
        /\ levels' = Drop(c) /\ Hits(c, FALSE, FALSE) /\ budget' = Changes(Clicked(c), c)
        /\ dialogs' = dialogs \ {d} /\ operable' = operable \ Inside[d]
  BY DEF OperateCloses
<1>2. Sweeping /\ UNCHANGED <<frame, probing, captured>>
  BY DEF OperateCloses
<1>3. hit' \in [dialog : BOOLEAN, blind : BOOLEAN, left : BOOLEAN]
  BY <1>1, HitsType
<1>4. /\ budget' \in Budget /\ budget'.discovered = budget.discovered /\ budget'.halted = budget.halted
      /\ budget'.limits = budget.limits /\ budget'.claimed = budget.claimed \cup {c}
      /\ budget'.refused = budget.refused /\ budget'.operated = budget.operated \cup {c}
  BY <1>1, <1>2, ClickedIs
<1>5. operable' \in SUBSET Ctl /\ dialogs' \in SUBSET Modal /\ dialogs' \subseteq dialogs
  BY <1>1 DEF ProbeIInv, ProbeTypeOK
<1>. QED  BY <1>1, <1>2, <1>3, <1>4, <1>5, DropHolds DEF ProbeIInv, TriedIsFound

LEMMA ReopenHolds == ASSUME ProbeIInv, Reopen  PROVE ProbeIInv'
<1>1. PICK c \in Top.todo \ operable, i \in 2..Len(levels) :
        LET a == levels[i].from
        IN /\ Resolved(a) /\ ~ (Reveals[a] \subseteq operable)
           /\ \/ /\ operable' = operable \cup Reveals[a] /\ dialogs' = dialogs \cup ({a} \cap Modal)
                 /\ budget' = [budget EXCEPT !.remaining = @ - 1] /\ UNCHANGED levels
              \/ /\ Lands(a)
                 /\ budget' = [budget EXCEPT !.remaining = @ - 1, !.claimed = @ \cup {c}]
                 /\ levels' = Drop(c)
  BY DEF Reopen
<1>2. Sweeping /\ UNCHANGED <<frame, probing, hit, captured>>
  BY DEF Reopen
<1>3. /\ budget \in Budget /\ c \in Ctl /\ c \in Top.todo /\ budget.remaining - 1 \in 0..MaxClicks
      /\ hit' \in [dialog : BOOLEAN, blind : BOOLEAN, left : BOOLEAN]
  BY <1>2, SweepFields, ProbeAssumption DEF ProbeIInv, ProbeTypeOK
<1> DEFINE a == levels[i].from
<1>4. a \in budget.claimed /\ a \in Ctl
  <2>1. levels \in Seq(Level) /\ levels # <<>>
    BY <1>2, SweepFields
  <2>2. i \in DOMAIN levels /\ i > 1
    BY <2>1, TopIs
  <2>. QED  BY <1>3, <2>2 DEF ProbeIInv, LevelsFit, Budget
<1> HIDE DEF a
<1>5. CASE /\ operable' = operable \cup Reveals[a] /\ dialogs' = dialogs \cup ({a} \cap Modal)
           /\ budget' = [budget EXCEPT !.remaining = @ - 1] /\ UNCHANGED levels
  <2>1. /\ budget' \in Budget /\ budget'.discovered = budget.discovered /\ budget'.halted = budget.halted
        /\ budget'.limits = budget.limits /\ budget'.claimed = budget.claimed
        /\ budget'.refused = budget.refused /\ budget'.operated = budget.operated
    BY <1>3, <1>5 DEF Budget
  <2>2. operable' \in SUBSET Ctl /\ dialogs' \in SUBSET Modal /\ dialogs' \subseteq budget.claimed
    BY <1>4, <1>5, ProbeAssumption DEF ProbeIInv, ProbeTypeOK, TriedIsFound
  <2>. QED  BY <1>2, <1>3, <1>5, <2>1, <2>2, DropHolds DEF ProbeIInv, TriedIsFound
<1>6. CASE /\ Lands(a)
           /\ budget' = [budget EXCEPT !.remaining = @ - 1, !.claimed = @ \cup {c}]
           /\ levels' = Drop(c)
  <2>1. /\ budget' \in Budget /\ budget'.discovered = budget.discovered /\ budget'.halted = budget.halted
        /\ budget'.limits = budget.limits /\ budget'.claimed = budget.claimed \cup {c}
        /\ budget'.refused = budget.refused /\ budget'.operated = budget.operated
    BY <1>3, <1>6 DEF Budget
  <2>2. operable' \in SUBSET Ctl /\ dialogs' \in SUBSET Modal /\ dialogs' \subseteq budget.claimed
    BY <1>4, <1>6, LandsIs DEF ProbeIInv, TriedIsFound
  <2>. QED  BY <1>2, <1>3, <1>6, <2>1, <2>2, DropHolds DEF ProbeIInv, TriedIsFound
<1>. QED  BY <1>1, <1>5, <1>6 DEF a

-----------------------------------------------------------------------------
\* What is new was not known: a violation is reported of one click, and not if it
\* is known to have been there as the document loaded.
LEMMA NewIs ==
  ASSUME ProbeIInv, Sweeping, NEW there \in SUBSET Ctl
  PROVE  /\ New(there) \subseteq Faulty \cap there \cap Swept
         /\ New(there) \cap captured.seen = {} /\ New(there) \subseteq Ctl
         /\ TopLevel \in captured.loaded => New(there) \cap Present = {}
         /\ "frame" \in captured.loaded \/ frame = "ahead" => New(there) \cap Framed = {}
         /\ Faulty \cap there \cap Swept \subseteq captured.seen \cup New(there)
<1>1. Framed \subseteq InFrame /\ Faulty \subseteq Ctl
  BY ProbeAssumption
<1>2. New(there) = (Faulty \cap there \cap Swept) \ captured.seen
  BY DEF New
<1>3. /\ TopLevel \in captured.loaded => Faulty \cap Present \subseteq captured.seen
      /\ "frame" \in captured.loaded => Faulty \cap Framed \subseteq captured.seen
  BY DEF ProbeIInv, LoadIsSeen
<1>4. frame = "ahead" => Swept \cap Framed = {}
  BY <1>1 DEF Swept
<1>. QED  BY <1>1, <1>2, <1>3, <1>4

LEMMA OperateRevealsHolds == ASSUME ProbeIInv, OperateReveals  PROVE ProbeIInv'
<1> USE DEF ProbeIInv
<1>1. PICK c \in Top.todo, blind \in BOOLEAN, read \in BOOLEAN, kept \in BOOLEAN :
       /\ Claimable(c) /\ Resolved(c) /\ Hits(c, blind, FALSE)
       /\ operable' = operable \cup Reveals[c] /\ dialogs' = dialogs \cup ({c} \cap Modal)
       /\ LET new == IF read THEN New(operable \cup Reveals[c]) ELSE {}
              keeps == kept /\ frame # "here" /\ new # {}
          IN /\ kept => keeps
             /\ \E fresh \in {Reveals[c] \ operable, Reveals[c] \ budget.discovered} :
                  /\ levels' = Drop(c) \o
                       <<[from |-> c, all |-> fresh, todo |-> IF Depth + 1 >= MaxDepth THEN {} ELSE fresh,
                          opened |-> IF blind THEN {} ELSE ({c} \cap Modal) \ dialogs]>>
                  /\ budget' = [Changes(Clicked(c), c) EXCEPT !.discovered = @ \cup fresh,
                                  !.limits = @ \cup TooDeep(Depth + 1, fresh) \cup LimitsMet(new)]
             /\ \E S \in Shot(new) :
                  captured' = [loaded |-> captured.loaded,
                               seen |-> captured.seen \cup new,
                               found |-> captured.found \cup (new \X {c}),
                               shots |-> IF keeps THEN captured.shots \cup S ELSE captured.shots,
                               states |-> IF keeps /\ RoomForState THEN captured.states \cup {c}
                                          ELSE captured.states,
                               missed |-> captured.missed \/ ~read]
  BY DEF OperateReveals
<1>2. Sweeping /\ UNCHANGED <<frame, probing>>
  BY DEF OperateReveals
<1>3. /\ levels \in Seq(Level) /\ levels # <<>> /\ probing = "sweep" /\ frame \in {"ahead", "here"}
      /\ budget \in Budget /\ budget.remaining \in 1..MaxClicks /\ ~budget.halted
      /\ c \in budget.discovered \cap Swept /\ c \in Ctl
  BY <1>2, SweepFields
<1> DEFINE new == IF read THEN New(operable \cup Reveals[c]) ELSE {}
           keeps == kept /\ frame # "here" /\ new # {}
<1>4. PICK fresh \in {Reveals[c] \ operable, Reveals[c] \ budget.discovered} :
        /\ levels' = Drop(c) \o
             <<[from |-> c, all |-> fresh, todo |-> IF Depth + 1 >= MaxDepth THEN {} ELSE fresh,
                opened |-> IF blind THEN {} ELSE ({c} \cap Modal) \ dialogs]>>
        /\ budget' = [Changes(Clicked(c), c) EXCEPT !.discovered = @ \cup fresh,
                        !.limits = @ \cup TooDeep(Depth + 1, fresh) \cup LimitsMet(new)]
  BY <1>1
<1>5. PICK S \in Shot(new) :
        captured' = [loaded |-> captured.loaded,
                     seen |-> captured.seen \cup new,
                     found |-> captured.found \cup (new \X {c}),
                     shots |-> IF keeps THEN captured.shots \cup S ELSE captured.shots,
                     states |-> IF keeps /\ RoomForState THEN captured.states \cup {c} ELSE captured.states,
                     missed |-> captured.missed \/ ~read]
  BY <1>1
<1>6. Reveals[c] \in SUBSET Ctl /\ fresh \subseteq Reveals[c] /\ Reveals[c] \subseteq Swept
      /\ operable \cup Reveals[c] \in SUBSET Ctl
  <2>1. Reveals[c] \subseteq (IF c \in InFrame THEN InFrame ELSE Ctl \ InFrame) /\ Reveals[c] \in SUBSET Ctl
    BY <1>3, ProbeAssumption
  <2>2. c \in InFrame <=> frame = "here"
    BY <1>3 DEF Swept
  <2>. QED  BY <2>1, <2>2 DEF Swept, ProbeTypeOK
<1>7. /\ new \subseteq Faulty /\ new \cap captured.seen = {} /\ new \subseteq Ctl
      /\ TopLevel \in captured.loaded => new \cap Present = {}
      /\ "frame" \in captured.loaded \/ frame = "ahead" => new \cap Framed = {}
      /\ read => Faulty \cap fresh \subseteq captured.seen \cup new
  <2>1. /\ New(operable \cup Reveals[c]) \subseteq Faulty \cap (operable \cup Reveals[c]) \cap Swept
        /\ New(operable \cup Reveals[c]) \cap captured.seen = {} /\ New(operable \cup Reveals[c]) \subseteq Ctl
        /\ TopLevel \in captured.loaded => New(operable \cup Reveals[c]) \cap Present = {}
        /\ "frame" \in captured.loaded \/ frame = "ahead" => New(operable \cup Reveals[c]) \cap Framed = {}
        /\ Faulty \cap (operable \cup Reveals[c]) \cap Swept
             \subseteq captured.seen \cup New(operable \cup Reveals[c])
    BY <1>2, <1>6, NewIs
  <2>2. Faulty \cap fresh \subseteq Faulty \cap (operable \cup Reveals[c]) \cap Swept
    BY <1>6
  <2>. QED  BY <2>1, <2>2
<1> HIDE DEF new
<1> DEFINE deep == TooDeep(Depth + 1, fresh)
           met == LimitsMet(new)
<1>8. /\ deep \subseteq {"depth"} /\ met \subseteq Cosmetic
      /\ Depth + 1 >= MaxDepth /\ fresh # {} => deep = {"depth"}
  BY DEF TooDeep, LimitsMet, Cosmetic
<1> HIDE DEF deep, met
<1>9. /\ budget' \in Budget /\ budget'.discovered = budget.discovered \cup fresh /\ budget'.halted = budget.halted
      /\ budget'.limits = budget.limits \cup deep \cup met /\ budget'.claimed = budget.claimed \cup {c}
      /\ budget'.refused = budget.refused /\ budget'.operated = budget.operated \cup {c}
  <2> DEFINE b == Changes(Clicked(c), c)
  <2>1. /\ b \in Budget /\ b.discovered = budget.discovered /\ b.halted = budget.halted
        /\ b.limits = budget.limits /\ b.claimed = budget.claimed \cup {c}
        /\ b.refused = budget.refused /\ b.operated = budget.operated \cup {c}
    BY <1>2, ClickedIs
  <2>2. budget' = [b EXCEPT !.discovered = @ \cup fresh, !.limits = @ \cup deep \cup met]
    BY <1>4 DEF deep, met
  <2>3. deep \cup met \subseteq Limits /\ fresh \subseteq Ctl
    BY <1>6, <1>8 DEF Limits, Cosmetic
  <2> HIDE DEF b
  <2>. QED  BY <2>1, <2>2, <2>3 DEF Budget
<1> DEFINE e == [from |-> c, all |-> fresh, todo |-> IF Depth + 1 >= MaxDepth THEN {} ELSE fresh,
                 opened |-> IF blind THEN {} ELSE ({c} \cap Modal) \ dialogs]
           low == IF Depth + 1 >= MaxDepth THEN {} ELSE fresh
<1>10. e \in Level /\ e.from = c /\ e.opened \subseteq {c} /\ e.todo = low /\ low \subseteq fresh
  BY <1>3, <1>6, ProbeAssumption DEF Level
<1>11. levels' = Drop(c) \o <<e>>
  BY <1>4
<1> HIDE DEF e
<1>12. low = fresh \/ fresh = {} \/ "depth" \in budget'.limits
  BY <1>8, <1>9
<1> HIDE DEF low
<1>13. /\ levels' \in Seq(Level) /\ DOMAIN levels = 1..Len(levels) /\ Len(levels) \in Nat \ {0}
       /\ DOMAIN levels' = 1..(Len(levels) + 1) /\ levels'[Len(levels) + 1] = e
       /\ \A i \in DOMAIN levels :
            /\ i \in DOMAIN levels' /\ levels'[i].from = levels[i].from
            /\ levels'[i].todo = IF i = Len(levels) THEN levels[i].todo \ {c} ELSE levels[i].todo
            /\ levels'[i].opened = levels[i].opened
  <2>1. /\ DOMAIN levels = 1..Len(levels) /\ Len(levels) \in Nat \ {0}
    BY <1>3, TopIs
  <2> DEFINE d == Drop(c)
  <2>2. \A i \in DOMAIN levels :
          /\ d[i].from = levels[i].from /\ d[i].opened = levels[i].opened
          /\ d[i].todo = IF i = Len(levels) THEN levels[i].todo \ {c} ELSE levels[i].todo
    BY <1>3, DropIs
  <2> DEFINE l == d \o <<e>>
  <2>3. /\ l \in Seq(Level) /\ DOMAIN l = 1..(Len(levels) + 1) /\ l[Len(levels) + 1] = e
        /\ \A i \in DOMAIN levels : i \in 1..(Len(levels) + 1) /\ l[i] = d[i]
    BY <1>3, <1>10, DeeperIs
  <2>4. levels' = l
    BY <1>11
  <2> HIDE DEF d, l
  <2>. QED  BY <2>1, <2>2, <2>3, <2>4
<1>14. hit' \in [dialog : BOOLEAN, blind : BOOLEAN, left : BOOLEAN]
  BY <1>1, HitsType
<1>15. /\ operable' \in SUBSET Ctl /\ dialogs' \in SUBSET Modal
       /\ dialogs' \subseteq budget'.claimed /\ operable \subseteq operable'
  BY <1>1, <1>6, <1>9 DEF ProbeTypeOK, TriedIsFound
<1>16. /\ captured'.loaded = captured.loaded
       /\ captured'.seen = captured.seen \cup new /\ captured'.found = captured.found \cup (new \X {c})
       /\ captured'.shots \subseteq captured.shots \cup new
       /\ captured'.states \subseteq captured.states \cup {c}
       /\ frame = "here" \/ new = {} => captured'.states = captured.states
       /\ ~captured'.missed => ~captured.missed /\ read
       /\ captured' \in Captured
  <2>1. S \subseteq new
    BY DEF Shot
  <2>2. captured \in Captured
    BY DEF ProbeTypeOK, Captured
  <2> DEFINE shots == IF keeps THEN captured.shots \cup S ELSE captured.shots
             saved == IF keeps /\ RoomForState THEN captured.states \cup {c} ELSE captured.states
             missed == captured.missed \/ ~read
             pairs == captured.found \cup (new \X {c})
  <2>3. missed \in BOOLEAN /\ (~missed => ~captured.missed /\ read)
    OBVIOUS
  <2>4. shots \in SUBSET Ctl /\ shots \subseteq captured.shots \cup new
    BY <1>7, <2>1, <2>2 DEF Captured
  <2>5. /\ saved \in SUBSET Ctl /\ saved \subseteq captured.states \cup {c}
        /\ frame = "here" \/ new = {} => saved = captured.states
    BY <1>3, <2>2 DEF Captured
  <2>6. pairs \in SUBSET (Ctl \X Ctl)
    BY <1>3, <1>7, <2>2 DEF Captured
  <2>7. captured' = [loaded |-> captured.loaded, seen |-> captured.seen \cup new, found |-> pairs,
                     shots |-> shots, states |-> saved, missed |-> missed]
    BY <1>5
  <2>8. captured.seen \cup new \in SUBSET Ctl /\ captured.loaded \in SUBSET {TopLevel, "frame"}
    BY <1>7, <2>2 DEF Captured
  <2> HIDE DEF shots, saved, missed
  <2>. QED  BY <2>3, <2>4, <2>5, <2>6, <2>7, <2>8 DEF Captured
<1>17. ProbeTypeOK'
  BY <1>2, <1>9, <1>13, <1>14, <1>15, <1>16 DEF ProbeTypeOK, Level, Captured
<1>18. LevelsFit'
  <2> SUFFICES ASSUME NEW i \in DOMAIN levels'
               PROVE  /\ levels'[i].todo \subseteq budget'.discovered \cap Swept'
                      /\ i > 1 => levels'[i].from \in budget'.claimed
                      /\ levels'[i].opened \subseteq {levels'[i].from}
    BY <1>2, <1>3 DEF LevelsFit
  <2>1. Swept' = Swept
    BY <1>2 DEF Swept
  <2>2. CASE i \in DOMAIN levels
    <3>1. /\ levels'[i].from = levels[i].from /\ levels'[i].opened = levels[i].opened
          /\ levels'[i].todo \subseteq levels[i].todo
      BY <1>13, <2>2
    <3>2. /\ levels[i].todo \subseteq budget.discovered \cap Swept
          /\ i > 1 => levels[i].from \in budget.claimed
          /\ levels[i].opened \subseteq {levels[i].from}
      BY <2>2 DEF LevelsFit
    <3>3. budget.discovered \subseteq budget'.discovered /\ budget.claimed \subseteq budget'.claimed
      BY <1>9
    <3>. QED  BY <2>1, <3>1, <3>2, <3>3
  <2>3. CASE i = Len(levels) + 1
    BY <1>6, <1>9, <1>10, <1>13, <2>1, <2>3
  <2>. QED  BY <1>13, <2>2, <2>3
<1>19. FoundIsExplained'
  <2> SUFFICES ASSUME budget'.limits \ Cosmetic = {}, NEW x \in budget'.discovered
               PROVE  x \in budget'.claimed \cup budget'.refused \/ Ahead(x)'
    BY DEF FoundIsExplained
  <2>1. budget.limits \ Cosmetic = {} /\ "depth" \notin budget'.limits
    BY <1>9 DEF Cosmetic
  <2>2. CASE x \in budget.discovered
    <3>1. x \in budget.claimed \cup budget.refused \/ Ahead(x)
      BY <1>3, <2>1, <2>2 DEF FoundIsExplained
    <3>. QED  BY <1>9, <1>13, <3>1 DEF Ahead
  <2>3. CASE x \in fresh
    <3>1. x \in levels'[Len(levels) + 1].todo
      BY <1>10, <1>12, <1>13, <2>1, <2>3
    <3>2. Len(levels) + 1 \in DOMAIN levels'
      BY <1>13
    <3>. QED  BY <3>1, <3>2 DEF Ahead
  <2>. QED  BY <1>9, <2>2, <2>3
<1>20. TriedIsFound' /\ HaltIsTold' /\ CoverageAddsUp'
  BY <1>2, <1>3, <1>8, <1>9, <1>15 DEF TriedIsFound, HaltIsTold, CoverageAddsUp, Cosmetic
<1>21. LoadIsSeen'
  <2>1. ASSUME NEW x \in captured'.found
        PROVE  x[1] \in captured'.seen /\ (frame' = "ahead" => x[1] \notin Framed)
    <3>1. x \in captured.found \/ x[1] \in new
      BY <1>16
    <3>. QED  BY <1>2, <1>7, <1>16, <3>1 DEF LoadIsSeen
  <2>. QED  BY <1>2, <1>16, <2>1 DEF LoadIsSeen
<1>22. RevealedIsNew'
  <2>1. ASSUME NEW x \in captured'.found
        PROVE  /\ x[1] \in Present => TopLevel \notin captured'.loaded
               /\ x[1] \in Framed => "frame" \notin captured'.loaded
               /\ x[2] \in budget'.operated
               /\ \A y \in captured'.found : x[1] = y[1] => x = y
    <3>1. \A y \in captured.found : y[1] \in captured.seen
      BY DEF LoadIsSeen
    <3>2. \A y \in captured'.found : y \in captured.found \/ (y[1] \in new /\ y = <<y[1], c>> /\ y[2] = c)
      BY <1>16
    <3>3. \A y, z \in captured.found : y[1] = z[1] => y = z
      BY DEF RevealedIsNew
    <3>4. \A y \in captured.found :
            /\ y[1] \in Present => TopLevel \notin captured.loaded
            /\ y[1] \in Framed => "frame" \notin captured.loaded
            /\ y[2] \in budget.operated
      BY DEF RevealedIsNew
    <3>5. \A y \in captured'.found : x[1] = y[1] => x = y
      BY <1>7, <3>1, <3>2, <3>3
    <3>. QED  BY <1>7, <1>9, <1>16, <3>2, <3>4, <3>5
  <2>2. captured'.shots \subseteq {x[1] : x \in captured'.found}
    <3>1. \A x \in new : <<x, c>> \in captured'.found
      BY <1>16
    <3>2. captured.shots \subseteq {x[1] : x \in captured'.found}
      BY <1>16 DEF RevealedIsNew
    <3>3. \A x \in new : \E y \in captured'.found : y[1] = x
      <4> SUFFICES ASSUME NEW x \in new  PROVE \E y \in captured'.found : y[1] = x
        OBVIOUS
      <4>1. <<x, c>>[1] = x
        OBVIOUS
      <4>. QED  BY <3>1, <4>1
    <3>. QED  BY <1>16, <3>2, <3>3
  <2>3. captured'.states \subseteq {x[2] : x \in captured'.found} \ InFrame
    <3>1. captured.states \subseteq {x[2] : x \in captured'.found} \ InFrame
      BY <1>16 DEF RevealedIsNew
    <3>2. CASE frame = "here" \/ new = {}
      BY <1>16, <3>1, <3>2
    <3>3. CASE frame # "here" /\ new # {}
      <4>1. c \notin InFrame
        BY <1>3, <3>3 DEF Swept
      <4>2. PICK y \in new : TRUE
        BY <3>3
      <4>3. <<y, c>> \in captured'.found /\ <<y, c>>[2] = c
        BY <1>16
      <4>. QED  BY <1>16, <3>1, <4>1, <4>3
    <3>. QED  BY <3>2, <3>3
  <2>4. ~captured'.missed => Faulty \cap budget'.discovered \subseteq captured'.seen
    BY <1>7, <1>9, <1>16 DEF RevealedIsNew
  <2>. QED  BY <2>1, <2>2, <2>3, <2>4 DEF RevealedIsNew
<1>. QED  BY <1>17, <1>18, <1>19, <1>20, <1>21, <1>22

-----------------------------------------------------------------------------
\* A level that is done takes nothing away that is still to be seen to.
LEMMA BelowHolds ==
  ASSUME ProbeIInv, levels # <<>>, Top.todo = {} \/ Spent, probing # "over", probing' = "sweep",
         levels' = Below, UNCHANGED <<frame, hit, captured>>,
         budget' \in Budget, budget'.discovered = budget.discovered,
         budget'.halted => "dialog_not_dismissed" \in budget'.limits,
         budget.limits \subseteq budget'.limits, budget'.remaining <= budget.remaining,
         budget'.claimed = budget.claimed, budget'.refused = budget.refused,
         budget'.operated = budget.operated,
         "dialog_not_dismissed" \in budget'.limits => budget.claimed # {},
         operable' \in SUBSET Ctl,
         dialogs' \subseteq dialogs
  PROVE  ProbeIInv'
<1> USE DEF ProbeIInv
<1>1. /\ levels' \in Seq(Level) /\ levels \in Seq(Level)
      /\ \A i \in DOMAIN levels' : i \in DOMAIN levels /\ levels'[i] = levels[i]
      /\ \A i \in DOMAIN levels : i # Len(levels) => i \in DOMAIN levels'
  <2>1. levels \in Seq(Level)
    BY DEF ProbeTypeOK, Level
  <2>. QED  BY <2>1, BelowIs, TopIs
<1>2. ProbeTypeOK'
  BY <1>1 DEF ProbeTypeOK, Level
<1>3. LevelsFit'
  <2>1. frame # "behind"
    BY DEF LevelsFit
  <2>. QED  BY <1>1, <2>1 DEF LevelsFit, Swept
<1>4. FoundIsExplained'
  <2> SUFFICES ASSUME budget'.limits \ Cosmetic = {}, budget'.remaining # 0, NEW x \in budget'.discovered
               PROVE  x \in budget'.claimed \cup budget'.refused \/ Ahead(x)'
    BY DEF FoundIsExplained
  <2>1. budget.limits \ Cosmetic = {} /\ budget.remaining # 0 /\ "dialog_not_dismissed" \notin budget.limits
    BY DEF ProbeTypeOK, Budget, Cosmetic
  <2>2. Top.todo = {}
    BY <2>1 DEF HaltIsTold, Spent
  <2>3. x \in budget.claimed \cup budget.refused \/ Ahead(x)
    BY <2>1 DEF FoundIsExplained
  <2>. QED  BY <1>1, <2>2, <2>3 DEF Ahead, Top
<1>5. TriedIsFound' /\ HaltIsTold' /\ CoverageAddsUp'
  BY DEF TriedIsFound, HaltIsTold, CoverageAddsUp
<1>6. LoadIsSeen' /\ RevealedIsNew'
  BY DEF LoadIsSeen, RevealedIsNew
<1>. QED  BY <1>2, <1>3, <1>4, <1>5, <1>6

LEMMA UnwindHolds == ASSUME ProbeIInv, Unwind  PROVE ProbeIInv'
<1>1. operable' \in SUBSET Ctl /\ dialogs' \subseteq dialogs
  BY DEF Unwind, ProbeIInv, ProbeTypeOK
<1>2. budget \in Budget /\ budget.remaining <= budget.remaining
  BY ProbeAssumption DEF ProbeIInv, ProbeTypeOK, Budget
<1>. QED  BY <1>1, <1>2, BelowHolds DEF Unwind, LevelDone, ProbeIInv, HaltIsTold

LEMMA StartClosingHolds == ASSUME ProbeIInv, StartClosing  PROVE ProbeIInv'
<1> USE DEF ProbeIInv, StartClosing
<1>1. ProbeTypeOK' /\ LevelsFit' /\ CoverageAddsUp'
  BY DEF ProbeTypeOK, LevelsFit, Swept, CoverageAddsUp
<1>2. FoundIsExplained' /\ TriedIsFound' /\ LoadIsSeen' /\ RevealedIsNew'
  BY DEF FoundIsExplained, Ahead, TriedIsFound, LoadIsSeen, RevealedIsNew
<1>3. HaltIsTold'
  BY DEF HaltIsTold, LevelDone, Top, Spent
<1>. QED  BY <1>1, <1>2, <1>3

LEMMA CloseHolds == ASSUME ProbeIInv, Close  PROVE ProbeIInv'
<1>1. PICK gone \in BOOLEAN, clicks \in {0, 1} :
        /\ clicks <= budget.remaining
        /\ budget' = Dismiss([budget EXCEPT !.remaining = @ - clicks], gone)
        /\ IF gone THEN /\ dialogs' = dialogs \ Top.opened
                        /\ operable' \in {operable \ Inside[Top.from],
                                         operable \cap (Present \cup Framed)}
                   ELSE UNCHANGED <<dialogs, operable>>
  BY DEF Close
<1>2. /\ probing = "closing" /\ probing' = "sweep" /\ levels' = Below /\ UNCHANGED <<frame, hit, captured>>
  BY DEF Close
<1>3. /\ levels \in Seq(Level) /\ levels # <<>> /\ (Top.todo = {} \/ Spent) /\ Top.opened \cap dialogs # {}
      /\ budget \in Budget /\ dialogs \subseteq budget.claimed
  BY <1>2 DEF ProbeIInv, ProbeTypeOK, HaltIsTold, Level, TriedIsFound
<1>4. Top.opened \subseteq {Top.from} /\ Top.from \in Modal
  <2>1. Top.opened \subseteq {Top.from} /\ Top.opened \in SUBSET Modal
    BY <1>3, TopIs DEF Level, ProbeIInv, LevelsFit, Top
  <2>. QED  BY <1>3, <2>1
<1>5. budget.remaining - clicks \in 0..MaxClicks /\ budget.remaining - clicks <= budget.remaining
  BY <1>1, <1>3, ProbeAssumption DEF Budget
<1> DEFINE b == [budget EXCEPT !.remaining = @ - clicks]
<1>6. /\ b \in Budget /\ b.discovered = budget.discovered /\ b.halted = budget.halted
      /\ b.remaining = budget.remaining - clicks
      /\ b.limits = budget.limits /\ b.claimed = budget.claimed
      /\ b.refused = budget.refused /\ b.operated = budget.operated
  BY <1>3, <1>5 DEF Budget
<1>7. budget' = IF gone THEN b ELSE [b EXCEPT !.halted = TRUE, !.limits = @ \cup {"dialog_not_dismissed"}]
  BY <1>1 DEF Dismiss
<1> HIDE DEF b
<1>8. /\ budget' \in Budget /\ budget'.discovered = budget.discovered
      /\ budget'.halted => budget.halted \/ "dialog_not_dismissed" \in budget'.limits
      /\ budget'.remaining = budget.remaining - clicks
      /\ budget.limits \subseteq budget'.limits /\ budget'.claimed = budget.claimed
      /\ budget'.refused = budget.refused /\ budget'.operated = budget.operated
  BY <1>6, <1>7 DEF Budget, Limits
<1>9. operable' \in SUBSET Ctl /\ dialogs' \subseteq dialogs
  BY <1>1, <1>4, ProbeAssumption DEF ProbeIInv, ProbeTypeOK
<1>. QED  BY <1>2, <1>3, <1>5, <1>8, <1>9, BelowHolds DEF ProbeIInv, HaltIsTold

LEMMA EnterFrameHolds == ASSUME ProbeIInv, EnterFrame  PROVE ProbeIInv'
<1> USE DEF ProbeIInv
<1>1. /\ levels = <<>> /\ frame = "ahead" /\ probing = "sweep"
      /\ UNCHANGED <<operable, dialogs, probing, hit>>
  BY DEF EnterFrame
<1>2. CASE frame' = "behind" /\ UNCHANGED <<levels, budget, captured>>
  <2>1. ProbeTypeOK' /\ LevelsFit' /\ CoverageAddsUp'
    BY <1>1, <1>2 DEF ProbeTypeOK, LevelsFit, CoverageAddsUp
  <2>2. FoundIsExplained' /\ TriedIsFound' /\ LoadIsSeen' /\ RevealedIsNew'
    BY <1>1, <1>2 DEF FoundIsExplained, Ahead, TriedIsFound, LoadIsSeen, RevealedIsNew
  <2>3. HaltIsTold'
    BY <1>1, <1>2 DEF HaltIsTold
  <2>. QED  BY <2>1, <2>2, <2>3
<1>3. CASE /\ Framed \subseteq operable /\ frame' = "here" /\ levels' = Outset(Framed)
           /\ captured' \in Baselines(captured, "frame", Framed)
           /\ budget' = [budget EXCEPT !.discovered = @ \cup Framed, !.limits = @ \cup TooDeep(0, Framed)]
  <2>1. Framed \in SUBSET Ctl /\ Framed \subseteq InFrame /\ Framed \cap Present = {}
    BY ProbeAssumption
  <2> DEFINE deep == TooDeep(0, Framed)
  <2>2. /\ Outset(Framed) \in Seq(Level) /\ DOMAIN Outset(Framed) = {1}
        /\ Outset(Framed)[1].todo = (IF MaxDepth = 0 THEN {} ELSE Framed) /\ Outset(Framed)[1].opened = {}
        /\ deep \subseteq {"depth"} /\ (MaxDepth = 0 /\ Framed # {} => deep = {"depth"})
    BY <2>1, OutsetIs
  <2>3. levels' = Outset(Framed) /\ budget' = [budget EXCEPT !.discovered = @ \cup Framed, !.limits = @ \cup deep]
    BY <1>3
  <2> HIDE DEF deep
  <2>4. /\ budget' \in Budget /\ budget'.discovered = budget.discovered \cup Framed
        /\ budget'.halted = budget.halted /\ budget'.limits = budget.limits \cup deep
        /\ budget'.claimed = budget.claimed /\ budget'.refused = budget.refused
        /\ budget'.operated = budget.operated
    BY <2>1, <2>2, <2>3 DEF ProbeTypeOK, Budget, Limits
  <2>5. /\ captured' \in Captured /\ captured'.found = captured.found
        /\ captured'.shots = captured.shots /\ captured'.states = captured.states
        /\ captured.seen \subseteq captured'.seen
        /\ TopLevel \in captured'.loaded => TopLevel \in captured.loaded
        /\ "frame" \in captured'.loaded \/ ~captured'.missed =>
             captured'.seen = captured.seen \cup (Faulty \cap Framed)
        /\ ~captured'.missed => ~captured.missed
    <3>1. captured \in Captured /\ "frame" \notin captured.loaded /\ Faulty \cap Framed \in SUBSET Ctl
      BY <1>1, <2>1 DEF ProbeTypeOK, Captured, LoadIsSeen
    <3>2. CASE captured' = [captured EXCEPT !.loaded = @ \cup {"frame"}, !.seen = @ \cup (Faulty \cap Framed)]
      BY <3>1, <3>2 DEF Captured, TopLevel
    <3>3. CASE captured' = [captured EXCEPT !.missed = TRUE]
      BY <3>1, <3>3 DEF Captured
    <3>. QED  BY <1>3, <3>2, <3>3 DEF Baselines
  <2>6. /\ levels' \in Seq(Level) /\ DOMAIN levels' = {1} /\ levels'[1].opened = {}
        /\ levels'[1].todo = (IF MaxDepth = 0 THEN {} ELSE Framed)
    BY <2>2, <2>3
  <2>7. ProbeTypeOK'
    BY <1>1, <1>3, <2>4, <2>5, <2>6 DEF ProbeTypeOK, Level, Captured
  <2>8. LevelsFit'
    <3>1. \A i \in DOMAIN levels' : i = 1
      BY <2>6
    <3>2. levels'[1].todo \subseteq Framed /\ levels'[1].opened = {}
      BY <2>6
    <3>3. Framed \subseteq budget'.discovered \cap Swept' /\ frame' # "behind"
      BY <1>3, <2>1, <2>4 DEF Swept
    <3>. QED  BY <3>1, <3>2, <3>3 DEF LevelsFit
  <2>9. FoundIsExplained'
    <3> SUFFICES ASSUME budget'.limits \ Cosmetic = {}, budget'.remaining # 0, NEW x \in budget'.discovered
                 PROVE  x \in budget'.claimed \cup budget'.refused \/ Ahead(x)'
      BY DEF FoundIsExplained
    <3>1. budget.limits \ Cosmetic = {} /\ "depth" \notin budget'.limits /\ budget.remaining # 0
      BY <2>3, <2>4 DEF Cosmetic, ProbeTypeOK, Budget
    <3>2. CASE x \in Framed
      BY <2>2, <2>4, <2>6, <3>1, <3>2 DEF Ahead
    <3>3. CASE x \in budget.discovered
      BY <1>1, <2>4, <3>1, <3>3 DEF FoundIsExplained, Ahead
    <3>. QED  BY <2>4, <3>2, <3>3
  <2>10. TriedIsFound' /\ HaltIsTold' /\ CoverageAddsUp'
    BY <1>1, <2>2, <2>4 DEF TriedIsFound, HaltIsTold, CoverageAddsUp
  <2>11. LoadIsSeen'
    BY <1>3, <2>5 DEF LoadIsSeen
  <2>12. RevealedIsNew'
    <3>1. \A x \in captured.found : x[1] \notin Framed
      BY <1>1 DEF LoadIsSeen
    <3>2. ~captured'.missed => Faulty \cap budget'.discovered \subseteq captured'.seen
      BY <2>4, <2>5 DEF RevealedIsNew
    <3>. QED  BY <2>4, <2>5, <3>1, <3>2 DEF RevealedIsNew
  <2>. QED  BY <2>7, <2>8, <2>9, <2>10, <2>11, <2>12
<1>. QED  BY <1>2, <1>3 DEF EnterFrame

LEMMA FinishedHolds == ASSUME ProbeIInv, Finished  PROVE ProbeIInv'
<1> USE DEF ProbeIInv
<1>1. PICK time \in BOOLEAN :
        /\ time \/ (probing = "sweep" /\ levels = <<>> /\ (frame # "ahead" \/ Spent))
        /\ budget' = [budget EXCEPT !.limits = @ \cup (IF time THEN {"time"} ELSE {})
                        \cup (IF budget.remaining = 0 THEN {"clicks"} ELSE {})]
  BY DEF Finished
<1>2. /\ probing # "over" /\ probing' = "over" /\ levels' = <<>>
      /\ UNCHANGED <<operable, dialogs, frame, hit, captured>>
  BY DEF Finished
<1>3. /\ budget' \in Budget /\ budget'.discovered = budget.discovered /\ budget'.halted = budget.halted
      /\ budget'.limits = budget.limits \cup (IF time THEN {"time"} ELSE {})
                            \cup (IF budget.remaining = 0 THEN {"clicks"} ELSE {})
      /\ budget'.claimed = budget.claimed /\ budget'.refused = budget.refused
      /\ budget'.operated = budget.operated /\ budget'.remaining = budget.remaining
  BY <1>1 DEF ProbeTypeOK, Budget, Limits
<1>4. levels' \in Seq(Level) /\ DOMAIN levels' = {}
  BY <1>2
<1>5. ProbeTypeOK'
  BY <1>2, <1>3, <1>4 DEF ProbeTypeOK, Level
<1>6. budget'.limits \ Cosmetic # {} \/ budget'.discovered \subseteq budget'.claimed \cup budget'.refused
  <2>1. CASE time
    BY <1>3, <2>1 DEF Cosmetic
  <2>2. CASE budget.remaining = 0
    BY <1>3, <2>2 DEF Cosmetic
  <2>3. CASE ~time /\ budget.remaining # 0
    BY <1>1, <1>3, <2>3 DEF FoundIsExplained, Ahead
  <2>. QED  BY <2>1, <2>2, <2>3
<1>7. LevelsFit' /\ FoundIsExplained'
  BY <1>2, <1>4, <1>6 DEF LevelsFit, FoundIsExplained
<1>8. TriedIsFound' /\ HaltIsTold' /\ CoverageAddsUp'
  BY <1>2, <1>3, <1>6 DEF TriedIsFound, HaltIsTold, CoverageAddsUp
<1>9. LoadIsSeen' /\ RevealedIsNew'
  BY <1>2, <1>3 DEF LoadIsSeen, RevealedIsNew
<1>. QED  BY <1>5, <1>7, <1>8, <1>9

LEMMA ProbeNextHolds == ProbeIInv /\ [ProbeNext]_probeVars => ProbeIInv'
<1> SUFFICES ASSUME ProbeIInv, [ProbeNext]_probeVars  PROVE ProbeIInv'
  OBVIOUS
<1>1. ASSUME ProbeNext  PROVE ProbeIInv'
  BY <1>1, RefuseHolds, SkipHolds, OperateFailsHolds, OperateInertHolds, OperateNavigatesHolds,
     OperateRevealsHolds, OperateBreaksHolds, OperateClosesHolds, ReopenHolds, UnwindHolds,
     StartClosingHolds, CloseHolds, EnterFrameHolds, FinishedHolds DEF ProbeNext
<1>2. CASE UNCHANGED probeVars
  <2> USE <1>2 DEF ProbeIInv, probeVars
  <2>1. ProbeTypeOK' /\ LevelsFit' /\ CoverageAddsUp'
    BY DEF ProbeTypeOK, LevelsFit, Swept, CoverageAddsUp
  <2>2. FoundIsExplained' /\ TriedIsFound' /\ LoadIsSeen' /\ RevealedIsNew'
    BY DEF FoundIsExplained, Ahead, TriedIsFound, LoadIsSeen, RevealedIsNew
  <2>3. HaltIsTold'
    BY DEF HaltIsTold, Top, Spent
  <2>. QED  BY <2>1, <2>2, <2>3
<1>. QED  BY <1>1, <1>2

(* The account of the clicks *)

LEMMA PageAddsUp ==
  ASSUME ProbeIInv
  PROVE  /\ AddsUp(PageRow) /\ PageRow.limits = budget.limits
         /\ PageRow.found = 0 => budget.discovered = {}
         /\ budget.refused # {} => PageRow.blocked > 0
<1>1. /\ budget \in Budget /\ IsFiniteSet(Ctl) /\ budget.operated \subseteq budget.discovered
      /\ budget.refused \subseteq budget.discovered
      /\ "dialog_not_dismissed" \in budget.limits => budget.discovered # {}
  BY ProbeAssumption DEF ProbeIInv, ProbeTypeOK, TriedIsFound, HaltIsTold
<1>2. /\ IsFiniteSet(budget.discovered) /\ IsFiniteSet(budget.operated) /\ IsFiniteSet(budget.refused)
      /\ budget.limits \subseteq Limits
  BY <1>1, FS_Subset DEF Budget
<1>3. /\ Cardinality(budget.operated) <= Cardinality(budget.discovered)
      /\ Cardinality(budget.refused) <= Cardinality(budget.discovered)
  BY <1>1, <1>2, FS_Subset
<1>4. /\ Cardinality(budget.discovered) \in Nat /\ Cardinality(budget.operated) \in Nat
      /\ Cardinality(budget.refused) \in Nat
      /\ Cardinality(budget.discovered) = 0 <=> budget.discovered = {}
      /\ Cardinality(budget.refused) = 0 <=> budget.refused = {}
  BY <1>2, FS_CardinalityType, FS_EmptySet
<1>. QED  BY <1>1, <1>2, <1>3, <1>4 DEF AddsUp, PageRow

LEMMA ClicksHold == ProbeIInv => ClicksAreTold
<1> SUFFICES ASSUME ProbeIInv, probing = "over", NEW other \in OtherRow, NEW on \in BOOLEAN,
                    NEW columns \in BOOLEAN, NEW version \in 0..2
             PROVE  LET told == <<PageRow, other>>
                        recorded == LedgerRecorded(columns, version)
                        line == StatusLine(on, recorded, told)
                        share == Table(on, recorded, told)
                    IN /\ share # <<>> => line = "operated of found" /\ share[1] <= share[2]
                       /\ line = "no controls" => budget.discovered = {} /\ Clauses(told) \ {"limited"} = {}
                       /\ (line = "turned off") = ~on /\ (line = "share unknown") = (on /\ ~recorded)
                       /\ ~ (budget.discovered \subseteq budget.claimed \cup budget.refused) =>
                            /\ 1 \in LimitedPages(told)
                            /\ on => /\ ClicksSheet(on, told)[1] # {"Swept completely"}
                                     /\ "limited" \in Caveats(on, told)
                       /\ on /\ budget.refused # {} => "refused" \in Caveats(on, told)
                       /\ on /\ budget.halted => "stuck" \in Caveats(on, told)
  BY DEF ClicksAreTold
<1> DEFINE page == PageRow
           told == <<page, other>>
           recorded == LedgerRecorded(columns, version)
           line == StatusLine(on, recorded, told)
           share == Table(on, recorded, told)
           total == Total(told)
<1>1. /\ AddsUp(page) /\ page.limits = budget.limits /\ (page.found = 0 => budget.discovered = {})
      /\ budget.refused # {} => page.blocked > 0
  BY PageAddsUp
<1>2. AddsUp(other)
  BY CoverageAssumption
<1> HIDE DEF page
<1>3. told[1] = page /\ told[2] = other /\ DOMAIN told = {1, 2}
  OBVIOUS
<1> HIDE DEF told
<1>4. /\ total.found = page.found + other.found /\ total.operated = page.operated + other.operated
      /\ total.blocked = page.blocked + other.blocked
  BY <1>3 DEF Total
<1>5. /\ total.found \in Nat /\ total.operated \in Nat /\ total.blocked \in Nat
      /\ total.operated <= total.found /\ total.blocked <= total.found
      /\ total.found = 0 => page.found = 0 /\ other.found = 0
      /\ page.blocked > 0 => total.blocked > 0
  BY <1>1, <1>2, <1>4 DEF AddsUp
<1> HIDE DEF total
<1>6. recorded \in BOOLEAN
  BY DEF LedgerRecorded
<1> HIDE DEF recorded
<1>7. line = IF ~on THEN "turned off" ELSE IF ~recorded THEN "share unknown"
             ELSE IF total.found = 0 THEN "no controls" ELSE "operated of found"
  BY <1>6 DEF StatusLine, total
<1>8. share = IF on /\ recorded /\ total.found # 0 THEN <<total.operated, total.found>> ELSE <<>>
  BY <1>6 DEF Table, Share, total
<1> HIDE DEF line, share
<1>9. share # <<>> => line = "operated of found" /\ share[1] <= share[2]
  BY <1>5, <1>7, <1>8
<1>10. /\ "limited" \in Caveats(on, told) <=> on /\ LimitedPages(told) # {}
       /\ "refused" \in Caveats(on, told) <=> on /\ total.blocked > 0
       /\ "stuck" \in Caveats(on, told) <=> on /\ \E k \in DOMAIN told : "dialog_not_dismissed" \in told[k].limits
       /\ Caveats(TRUE, told) \subseteq {"limited", "refused", "stuck"}
       /\ "refused" \in Caveats(TRUE, told) <=> total.blocked > 0
       /\ "stuck" \in Caveats(TRUE, told) <=> \E k \in DOMAIN told : "dialog_not_dismissed" \in told[k].limits
  BY DEF Caveats, total
<1>11. line = "no controls" => budget.discovered = {} /\ Clauses(told) \ {"limited"} = {}
  <2>1. line = "no controls" => total.found = 0
    BY <1>6, <1>7
  <2>2. total.found = 0 => total.blocked = 0 /\ page.found = 0 /\ other.found = 0
    BY <1>5
  <2>3. page.found = 0 /\ other.found = 0 => \A k \in DOMAIN told : "dialog_not_dismissed" \notin told[k].limits
    BY <1>1, <1>2, <1>3 DEF AddsUp
  <2>4. total.found = 0 => "refused" \notin Caveats(TRUE, told) /\ "stuck" \notin Caveats(TRUE, told)
    <3>1. total.found = 0 => ~ (total.blocked > 0)
      BY <2>2
    <3>2. total.found = 0 => ~ \E k \in DOMAIN told : "dialog_not_dismissed" \in told[k].limits
      BY <2>2, <2>3
    <3>. QED  BY <1>10, <3>1, <3>2
  <2>5. total.found = 0 => \A x \in Clauses(told) : x \in Caveats(TRUE, told)
    <3> SUFFICES ASSUME total.found = 0, NEW x \in Clauses(told)  PROVE x \in Caveats(TRUE, told)
      OBVIOUS
    <3>1. Clauses(told) = (IF total.found > 0 THEN {"operated"} ELSE {}) \cup Caveats(TRUE, told)
      BY DEF Clauses, total
    <3>2. ~ (total.found > 0)
      BY <1>5
    <3>. QED  BY <3>1, <3>2
  <2>6. total.found = 0 => \A x \in Clauses(told) : x = "limited"
    <3>1. \A x \in Caveats(TRUE, told) : x = "limited" \/ x = "refused" \/ x = "stuck"
      BY <1>10
    <3> DEFINE caveats == Caveats(TRUE, told)
               clauses == Clauses(told)
    <3> HIDE DEF caveats, clauses
    <3>2. \A x \in caveats : x = "limited" \/ x = "refused" \/ x = "stuck"
      BY <3>1 DEF caveats
    <3>3. total.found = 0 => "refused" \notin caveats /\ "stuck" \notin caveats
      BY <2>4 DEF caveats
    <3>4. total.found = 0 => \A x \in clauses : x \in caveats
      BY <2>5 DEF clauses, caveats
    <3>5. total.found = 0 => \A x \in clauses : x = "limited"
      BY <3>2, <3>3, <3>4
    <3>. QED  BY <3>5 DEF clauses
  <2>. QED  BY <1>1, <2>1, <2>2, <2>6
<1>12. /\ (line = "turned off") = ~on /\ (line = "share unknown") = (on /\ ~recorded)
  BY <1>6, <1>7
<1>13. ~ (budget.discovered \subseteq budget.claimed \cup budget.refused) =>
         /\ 1 \in LimitedPages(told)
         /\ on => ClicksSheet(on, told)[1] # {"Swept completely"} /\ "limited" \in Caveats(on, told)
  <2> SUFFICES ASSUME ~ (budget.discovered \subseteq budget.claimed \cup budget.refused)
               PROVE  /\ 1 \in LimitedPages(told)
                      /\ on => ClicksSheet(on, told)[1] # {"Swept completely"} /\ "limited" \in Caveats(on, told)
    OBVIOUS
  <2>1. budget.limits # {} /\ "Swept completely" \notin budget.limits
    BY DEF ProbeIInv, CoverageAddsUp, ProbeTypeOK, Budget, Limits, Cosmetic
  <2>2. 1 \in LimitedPages(told) /\ WasLimited(told[1])
    BY <1>1, <1>3, <2>1 DEF LimitedPages, WasLimited
  <2>3. on => ClicksSheet(on, told)[1] = budget.limits
    BY <1>1, <1>3, <2>2 DEF ClicksSheet, LimitText
  <2>. QED  BY <1>10, <2>1, <2>2, <2>3
<1>14. on /\ budget.refused # {} => "refused" \in Caveats(on, told)
  BY <1>1, <1>5, <1>10
<1>15. on /\ budget.halted => "stuck" \in Caveats(on, told)
  BY <1>1, <1>3, <1>10 DEF ProbeIInv, HaltIsTold
<1>. QED  BY <1>9, <1>11, <1>12, <1>13, <1>14, <1>15 DEF page, told, recorded, line, share

\* The account of a page's clicks that the probe leaves is honest: a control that
\* was found is tried, refused, or explained by a limit told with it; what a click
\* revealed is reported once, of the click that did; and no sheet, line or caveat
\* of the report says more of the clicks than was done (probe.py _explore,
\* _operate, run; interaction_coverage.py).
THEOREM ClicksCorrect ==
  ProbeSpec => []ClicksAreTrue
<1>1. ProbeIInv => ClicksAreTrue
  BY ClicksHold DEF ProbeIInv, ClicksAreTrue
<1>. QED  BY <1>1, ProbeInitHolds, ProbeNextHolds, PTL DEF ProbeSpec

-----------------------------------------------------------------------------
(* The dialogs *)

\* Every level at or above the one a dialog was opened for is within that dialog.
LevelsAreInside ==
  \A i, j \in DOMAIN levels :
    1 < i /\ i <= j /\ levels[i].from \in Modal => levels[j].todo \subseteq Inside[levels[i].from]

\* The browser did not tell what a click opened, or a click that changed the
\* address left it.
Unseen == hit.blind \/ hit.left

\* A level whose control opens a dialog knows that it has to close it.
OpenersKnow ==
  Unseen \/ \A i \in DOMAIN levels :
                 1 < i /\ levels[i].from \in Modal => levels[i].from \in levels[i].opened

\* A dialog that is open has the level that closes it.
OpenIsHeld ==
  \/ Unseen \/ budget.halted \/ probing = "over"
  \/ \A d \in dialogs : \E i \in DOMAIN levels : 1 < i /\ levels[i].from = d /\ d \in levels[i].opened

DialogsIInv == LevelsAreInside /\ OpenersKnow /\ OpenIsHeld /\ OperatedIsReal

LEMMA DialogsInitHold == ProbeInit => DialogsIInv
<1> SUFFICES ASSUME ProbeInit  PROVE DialogsIInv
  OBVIOUS
<1>1. DOMAIN levels = {1} /\ dialogs = {} /\ hit.dialog = FALSE
  BY ProbeAssumption, OutsetIs DEF ProbeInit
<1>. QED  BY <1>1 DEF DialogsIInv, LevelsAreInside, OpenersKnow, OpenIsHeld, OperatedIsReal, Unseen

\* A click in the sweep is at a control no dialog covers.
LEMMA NoneCovered ==
  ASSUME ProbeIInv, DialogsIInv, Sweeping, NEW c \in Top.todo, ~Unseen
  PROVE  ~Covered(c)
<1> SUFFICES ASSUME NEW d \in dialogs  PROVE c \in Inside[d]
  BY DEF Covered
<1>1. levels \in Seq(Level) /\ levels # <<>> /\ probing = "sweep" /\ ~budget.halted
  BY SweepFields
<1>2. PICK i \in DOMAIN levels : 1 < i /\ levels[i].from = d
  BY <1>1 DEF DialogsIInv, OpenIsHeld
<1>3. /\ Len(levels) \in DOMAIN levels /\ i <= Len(levels) /\ d \in Modal
      /\ Top = levels[Len(levels)]
  BY <1>1, TopIs DEF ProbeIInv, ProbeTypeOK, Top
<1>. QED  BY <1>2, <1>3 DEF DialogsIInv, LevelsAreInside

\* A step that is done with one control at most, and opens nothing but what a level
\* has to close, or opens it unseen.
LEMMA DropKeeps ==
  ASSUME ProbeIInv, DialogsIInv, Sweeping, NEW c \in Top.todo,
         levels' = levels \/ levels' = Drop(c),
         budget'.halted = budget.halted, UNCHANGED probing,
         hit' = hit \/ (\E blind, left \in BOOLEAN : Hits(c, blind, left)),
         Unseen' \/ \A d \in dialogs' :
           d \in dialogs \/ \E i \in DOMAIN levels : 1 < i /\ levels[i].from = d /\ d \in Modal
  PROVE  DialogsIInv'
<1>1. levels \in Seq(Level) /\ levels # <<>> /\ probing = "sweep" /\ ~budget.halted
  BY SweepFields
<1>2. /\ DOMAIN levels' = DOMAIN levels
      /\ \A i \in DOMAIN levels :
           /\ levels'[i].from = levels[i].from /\ levels'[i].opened = levels[i].opened
           /\ levels'[i].todo \subseteq levels[i].todo
  BY <1>1, DroppedIs
<1>3. (Unseen => Unseen') /\ (hit'.dialog => hit.dialog \/ Covered(c))
  <2>1. CASE hit' = hit
    BY <2>1 DEF Unseen
  <2>2. ASSUME NEW blind \in BOOLEAN, NEW left \in BOOLEAN, Hits(c, blind, left)
        PROVE  (Unseen => Unseen') /\ (hit'.dialog => hit.dialog \/ Covered(c))
    <3>1. hit' = [dialog |-> hit.dialog \/ Covered(c), blind |-> hit.blind \/ blind, left |-> hit.left \/ left]
      BY <2>2 DEF Hits
    <3>2. /\ hit'.dialog = (hit.dialog \/ Covered(c)) /\ hit'.blind = (hit.blind \/ blind)
          /\ hit'.left = (hit.left \/ left)
      BY <3>1
    <3>. QED  BY <3>2 DEF Unseen
  <2>. QED  BY <2>1, <2>2
<1>4. LevelsAreInside'
  BY <1>2 DEF DialogsIInv, LevelsAreInside
<1>5. OpenersKnow'
  BY <1>2, <1>3 DEF DialogsIInv, OpenersKnow
<1>6. OpenIsHeld'
  <2> SUFFICES ASSUME ~Unseen', NEW d \in dialogs'
               PROVE  \E i \in DOMAIN levels : 1 < i /\ levels[i].from = d /\ d \in levels[i].opened
    BY <1>2 DEF OpenIsHeld
  <2>1. CASE d \in dialogs
    BY <1>1, <1>3, <2>1 DEF DialogsIInv, OpenIsHeld
  <2>2. CASE \E i \in DOMAIN levels : 1 < i /\ levels[i].from = d /\ d \in Modal
    BY <1>3, <2>2 DEF DialogsIInv, OpenersKnow
  <2>. QED  BY <2>1, <2>2
<1>7. OperatedIsReal'
  BY <1>3, NoneCovered DEF DialogsIInv, OperatedIsReal, Unseen
<1>. QED  BY <1>4, <1>5, <1>6, <1>7 DEF DialogsIInv

\* A level that ends leaves the dialogs of the levels below it.
LEMMA BelowKeeps ==
  ASSUME ProbeIInv, DialogsIInv, levels # <<>>, probing # "over", levels' = Below, hit' = hit,
         budget'.halted \/ /\ budget'.halted = budget.halted /\ dialogs' \subseteq dialogs
                           /\ dialogs' \cap Top.opened = {}
  PROVE  DialogsIInv'
<1>1. /\ levels \in Seq(Level) /\ DOMAIN levels' \subseteq DOMAIN levels
      /\ \A i \in DOMAIN levels' : levels'[i] = levels[i]
      /\ \A i \in DOMAIN levels : i # Len(levels) => i \in DOMAIN levels'
  <2>1. levels \in Seq(Level)
    BY DEF ProbeIInv, ProbeTypeOK, Level
  <2>. QED  BY <2>1, BelowIs, TopIs
<1>2. LevelsAreInside'
  BY <1>1 DEF DialogsIInv, LevelsAreInside
<1>3. OpenersKnow' /\ OperatedIsReal' /\ (Unseen' <=> Unseen)
  BY <1>1 DEF DialogsIInv, OpenersKnow, OperatedIsReal, Unseen
<1>4. OpenIsHeld'
  <2> SUFFICES ASSUME ~Unseen', ~budget'.halted, NEW d \in dialogs'
               PROVE  \E i \in DOMAIN levels' : 1 < i /\ levels'[i].from = d /\ d \in levels'[i].opened
    BY DEF OpenIsHeld
  <2>1. PICK i \in DOMAIN levels : 1 < i /\ levels[i].from = d /\ d \in levels[i].opened
    BY <1>3 DEF DialogsIInv, OpenIsHeld
  <2>2. i # Len(levels)
    BY <2>1 DEF Top
  <2>. QED  BY <1>1, <2>1, <2>2
<1>. QED  BY <1>2, <1>3, <1>4 DEF DialogsIInv

LEMMA RevealsKeeps ==
  ASSUME DialogsHold, ProbeIInv, DialogsIInv, OperateReveals  PROVE DialogsIInv'
<1>1. PICK c \in Top.todo, blind \in BOOLEAN, read \in BOOLEAN, kept \in BOOLEAN :
       /\ Claimable(c) /\ Resolved(c) /\ Hits(c, blind, FALSE)
       /\ operable' = operable \cup Reveals[c] /\ dialogs' = dialogs \cup ({c} \cap Modal)
       /\ LET new == IF read THEN New(operable \cup Reveals[c]) ELSE {}
              keeps == kept /\ frame # "here" /\ new # {}
          IN /\ kept => keeps
             /\ \E fresh \in {Reveals[c] \ operable, Reveals[c] \ budget.discovered} :
                  /\ levels' = Drop(c) \o
                       <<[from |-> c, all |-> fresh, todo |-> IF Depth + 1 >= MaxDepth THEN {} ELSE fresh,
                          opened |-> IF blind THEN {} ELSE ({c} \cap Modal) \ dialogs]>>
                  /\ budget' = [Changes(Clicked(c), c) EXCEPT !.discovered = @ \cup fresh,
                                  !.limits = @ \cup TooDeep(Depth + 1, fresh) \cup LimitsMet(new)]
             /\ \E S \in Shot(new) :
                  captured' = [loaded |-> captured.loaded,
                               seen |-> captured.seen \cup new,
                               found |-> captured.found \cup (new \X {c}),
                               shots |-> IF keeps THEN captured.shots \cup S ELSE captured.shots,
                               states |-> IF keeps /\ RoomForState THEN captured.states \cup {c}
                                          ELSE captured.states,
                               missed |-> captured.missed \/ ~read]
  BY DEF OperateReveals
<1>2. Sweeping /\ UNCHANGED <<frame, probing>>
  BY DEF OperateReveals
<1>3. /\ levels \in Seq(Level) /\ levels # <<>> /\ probing = "sweep" /\ ~budget.halted /\ c \in Ctl
  BY <1>2, SweepFields
<1>4. PICK fresh \in {Reveals[c] \ operable, Reveals[c] \ budget.discovered} :
        levels' = Drop(c) \o
             <<[from |-> c, all |-> fresh, todo |-> IF Depth + 1 >= MaxDepth THEN {} ELSE fresh,
                opened |-> IF blind THEN {} ELSE ({c} \cap Modal) \ dialogs]>>
  BY <1>1
<1>5. c \notin dialogs
  BY <1>1 DEF Claimable, ProbeIInv, TriedIsFound
<1> DEFINE e == [from |-> c, all |-> fresh, todo |-> IF Depth + 1 >= MaxDepth THEN {} ELSE fresh,
                 opened |-> IF blind THEN {} ELSE ({c} \cap Modal) \ dialogs]
<1>6. /\ e \in Level /\ e.from = c /\ e.todo \subseteq Reveals[c]
      /\ ~blind /\ c \in Modal => c \in e.opened
  BY <1>3, <1>4, <1>5, ProbeAssumption DEF Level
<1>7. levels' = Drop(c) \o <<e>>
  BY <1>4
<1> HIDE DEF e
<1>8. /\ DOMAIN levels = 1..Len(levels) /\ Len(levels) \in Nat \ {0}
      /\ DOMAIN levels' = 1..(Len(levels) + 1) /\ levels'[Len(levels) + 1] = e
      /\ \A i \in DOMAIN levels :
           /\ i \in DOMAIN levels' /\ levels'[i].from = levels[i].from
           /\ levels'[i].todo \subseteq levels[i].todo /\ levels'[i].opened = levels[i].opened
  <2>1. /\ DOMAIN levels = 1..Len(levels) /\ Len(levels) \in Nat \ {0}
    BY <1>3, TopIs
  <2> DEFINE d == Drop(c)
  <2>2. \A i \in DOMAIN levels :
          /\ d[i].from = levels[i].from /\ d[i].opened = levels[i].opened
          /\ d[i].todo \subseteq levels[i].todo
    BY <1>3, DropIs
  <2> DEFINE l == d \o <<e>>
  <2>3. /\ DOMAIN l = 1..(Len(levels) + 1) /\ l[Len(levels) + 1] = e
        /\ \A i \in DOMAIN levels : i \in 1..(Len(levels) + 1) /\ l[i] = d[i]
    BY <1>3, <1>6, DeeperIs
  <2>4. levels' = l
    BY <1>7
  <2> HIDE DEF d, l
  <2>. QED  BY <2>1, <2>2, <2>3, <2>4
<1>9. (Unseen => Unseen') /\ (hit'.dialog => hit.dialog \/ Covered(c)) /\ (blind => Unseen')
  BY <1>1 DEF Hits, Unseen
<1>10. \A i \in DOMAIN levels : 1 < i /\ levels[i].from \in Modal => c \in Inside[levels[i].from]
  <2>1. Len(levels) \in DOMAIN levels /\ c \in levels[Len(levels)].todo
    BY <1>3, TopIs DEF Top
  <2>. QED  BY <1>8, <2>1 DEF DialogsIInv, LevelsAreInside
<1>11. LevelsAreInside'
  <2> SUFFICES ASSUME NEW i \in DOMAIN levels', NEW j \in DOMAIN levels', 1 < i, i <= j,
                      levels'[i].from \in Modal
               PROVE  levels'[j].todo \subseteq Inside[levels'[i].from]
    BY DEF LevelsAreInside
  <2>1. CASE j # Len(levels) + 1
    <3>1. i \in DOMAIN levels /\ j \in DOMAIN levels
      BY <1>8, <2>1
    <3>. QED  BY <1>8, <3>1 DEF DialogsIInv, LevelsAreInside
  <2>2. CASE j = Len(levels) + 1 /\ i # j
    <3>1. i \in DOMAIN levels /\ c \in Inside[levels[i].from] /\ levels[i].from \in Modal
      BY <1>8, <1>10, <2>2
    <3>. QED  BY <1>6, <1>8, <2>2, <3>1 DEF DialogsHold
  <2>3. CASE j = Len(levels) + 1 /\ i = j
    BY <1>6, <1>8, <2>3 DEF DialogsHold
  <2>. QED  BY <2>1, <2>2, <2>3
<1>12. OpenersKnow'
  <2> SUFFICES ASSUME ~Unseen', NEW i \in DOMAIN levels', 1 < i, levels'[i].from \in Modal
               PROVE  levels'[i].from \in levels'[i].opened
    BY DEF OpenersKnow
  <2>1. CASE i \in DOMAIN levels
    BY <1>8, <1>9, <2>1 DEF DialogsIInv, OpenersKnow
  <2>2. CASE i = Len(levels) + 1
    BY <1>6, <1>8, <1>9, <2>2
  <2>. QED  BY <1>8, <2>1, <2>2
<1>13. OpenIsHeld'
  <2> SUFFICES ASSUME ~Unseen', NEW d \in dialogs'
               PROVE  \E i \in DOMAIN levels' : 1 < i /\ levels'[i].from = d /\ d \in levels'[i].opened
    BY DEF OpenIsHeld
  <2>1. CASE d \in dialogs
    <3>1. PICK i \in DOMAIN levels : 1 < i /\ levels[i].from = d /\ d \in levels[i].opened
      BY <1>3, <1>9, <2>1 DEF DialogsIInv, OpenIsHeld
    <3>. QED  BY <1>8, <3>1
  <2>2. CASE d = c /\ c \in Modal
    <3>1. Len(levels) + 1 \in DOMAIN levels' /\ 1 < Len(levels) + 1
      BY <1>8
    <3>. QED  BY <1>6, <1>8, <1>9, <2>2, <3>1
  <2>. QED  BY <1>1, <2>1, <2>2
<1>14. OperatedIsReal'
  BY <1>2, <1>9, NoneCovered DEF DialogsIInv, OperatedIsReal, Unseen
<1>. QED  BY <1>11, <1>12, <1>13, <1>14 DEF DialogsIInv

LEMMA DialogsNextHold ==
  ASSUME DialogsHold
  PROVE  ProbeIInv /\ DialogsIInv /\ [ProbeNext]_probeVars => DialogsIInv'
<1> SUFFICES ASSUME ProbeIInv, DialogsIInv, [ProbeNext]_probeVars  PROVE DialogsIInv'
  OBVIOUS
<1>0. ASSUME Sweeping  PROVE budget \in Budget
  BY <1>0, SweepFields
<1>1. CASE Refuse
  <2>1. PICK c \in Top.todo : levels' = Drop(c) /\ budget' = [budget EXCEPT !.refused = @ \cup {c}]
    BY <1>1 DEF Refuse
  <2>2. Sweeping /\ UNCHANGED <<dialogs, probing, hit>>
    BY <1>1 DEF Refuse
  <2>3. budget'.halted = budget.halted
    BY <1>0, <2>1, <2>2 DEF Budget
  <2>. QED  BY <2>1, <2>2, <2>3, DropKeeps
<1>2. CASE Skip
  <2>1. PICK c \in Top.todo :
          /\ levels' = Drop(c)
          /\ \/ UNCHANGED budget
             \/ \E l \in Sampled(c) : budget' = [budget EXCEPT !.limits = @ \cup {l}]
    BY <1>2 DEF Skip
  <2>2. Sweeping /\ UNCHANGED <<dialogs, probing, hit>>
    BY <1>2 DEF Skip
  <2>3. budget'.halted = budget.halted
    BY <1>0, <2>1, <2>2 DEF Budget
  <2>. QED  BY <2>1, <2>2, <2>3, DropKeeps
<1>3. CASE OperateFails
  <2>1. PICK c \in Top.todo, sent \in BOOLEAN :
          /\ levels' = Drop(c)
          /\ budget' = [budget EXCEPT !.claimed = @ \cup {c}, !.remaining = IF sent THEN @ - 1 ELSE @]
    BY <1>3 DEF OperateFails
  <2>2. Sweeping /\ UNCHANGED <<dialogs, probing, hit>>
    BY <1>3 DEF OperateFails
  <2>3. budget'.halted = budget.halted
    BY <1>0, <2>1, <2>2 DEF Budget
  <2>. QED  BY <2>1, <2>2, <2>3, DropKeeps
<1>4. CASE OperateInert
  <2>1. PICK c \in Top.todo :
          levels' = Drop(c) /\ Hits(c, FALSE, FALSE) /\ budget' = [Clicked(c) EXCEPT !.inert = @ \cup {c}]
    BY <1>4 DEF OperateInert
  <2>2. Sweeping /\ UNCHANGED <<dialogs, probing>>
    BY <1>4 DEF OperateInert
  <2>3. budget'.halted = budget.halted
    BY <2>1, <2>2, ClickedIs
  <2>. QED  BY <2>1, <2>2, <2>3, DropKeeps
<1>5. CASE OperateNavigates
  <2>1. PICK c \in Top.todo :
          levels' = Drop(c) /\ Hits(c, FALSE, ~ (dialogs' \subseteq dialogs)) /\ budget' = Clicked(c)
    BY <1>5 DEF OperateNavigates
  <2>2. Sweeping /\ UNCHANGED probing
    BY <1>5 DEF OperateNavigates
  <2>3. budget'.halted = budget.halted
    BY <2>1, <2>2, ClickedIs
  <2>4. Unseen' \/ dialogs' \subseteq dialogs
    BY <2>1 DEF Hits, Unseen
  <2>5. (~ (dialogs' \subseteq dialogs)) \in BOOLEAN
    OBVIOUS
  <2>. QED  BY <2>1, <2>2, <2>3, <2>4, <2>5, DropKeeps
<1>6. CASE OperateReveals
  BY <1>6, RevealsKeeps
<1>7. CASE OperateBreaks
  <2>1. PICK c \in Top.todo :
          levels' = Drop(c) /\ Hits(c, TRUE, FALSE) /\ budget' \in {Clicked(c), Changes(Clicked(c), c)}
    BY <1>7 DEF OperateBreaks
  <2>2. Sweeping /\ UNCHANGED probing
    BY <1>7 DEF OperateBreaks
  <2>3. budget'.halted = budget.halted
    <3>1. CASE budget' = Clicked(c)
      BY <2>2, <3>1, ClickedIs
    <3>2. CASE budget' = Changes(Clicked(c), c)
      BY <2>2, <3>2, ClickedIs
    <3>. QED  BY <2>1, <3>1, <3>2
  <2>4. Unseen'
    BY <2>1 DEF Hits, Unseen
  <2>. QED  BY <2>1, <2>2, <2>3, <2>4, DropKeeps
<1>8. CASE OperateCloses
  <2>1. PICK c \in Top.todo, d \in dialogs :
          levels' = Drop(c) /\ Hits(c, FALSE, FALSE) /\ budget' = Changes(Clicked(c), c) /\ dialogs' = dialogs \ {d}
    BY <1>8 DEF OperateCloses
  <2>2. Sweeping /\ UNCHANGED probing
    BY <1>8 DEF OperateCloses
  <2>3. budget'.halted = budget.halted
    BY <2>1, <2>2, ClickedIs
  <2>. QED  BY <2>1, <2>2, <2>3, DropKeeps
<1>9. CASE Reopen
  <2>1. PICK c \in Top.todo \ operable, i \in 2..Len(levels) :
          /\ levels' = levels \/ levels' = Drop(c)
          /\ dialogs' \subseteq dialogs \cup ({levels[i].from} \cap Modal)
          /\ \/ budget' = [budget EXCEPT !.remaining = @ - 1]
             \/ budget' = [budget EXCEPT !.remaining = @ - 1, !.claimed = @ \cup {c}]
    BY <1>9 DEF Reopen, Lands
  <2>2. Sweeping /\ UNCHANGED <<probing, hit>>
    BY <1>9 DEF Reopen
  <2>3. budget'.halted = budget.halted
    BY <1>0, <2>1, <2>2 DEF Budget
  <2>4. i \in DOMAIN levels /\ 1 < i
    <3>1. levels \in Seq(Level) /\ levels # <<>>
      BY <2>2, SweepFields
    <3>. QED  BY <3>1, TopIs
  <2>5. \A d \in dialogs' : d \in dialogs \/ \E k \in DOMAIN levels : 1 < k /\ levels[k].from = d /\ d \in Modal
    BY <2>1, <2>4
  <2>. QED  BY <2>1, <2>2, <2>3, <2>5, DropKeeps
<1>10. CASE Unwind
  <2>1. /\ levels # <<>> /\ probing # "over" /\ levels' = Below /\ UNCHANGED <<hit, budget>>
        /\ dialogs' \subseteq dialogs /\ Top.opened \cap dialogs = {}
    BY <1>10 DEF Unwind, LevelDone
  <2>. QED  BY <2>1, BelowKeeps
<1>11. CASE StartClosing
  BY <1>11 DEF StartClosing, LevelDone, DialogsIInv, LevelsAreInside, OpenersKnow, OpenIsHeld, OperatedIsReal, Unseen
<1>12. CASE Close
  <2>1. PICK gone \in BOOLEAN, clicks \in {0, 1} :
          /\ budget' = Dismiss([budget EXCEPT !.remaining = @ - clicks], gone)
          /\ gone => dialogs' = dialogs \ Top.opened
    BY <1>12 DEF Close
  <2>2. levels # <<>> /\ probing # "over" /\ levels' = Below /\ hit' = hit /\ budget \in Budget
    BY <1>12 DEF Close, ProbeIInv, HaltIsTold, ProbeTypeOK
  <2>3. IF gone THEN budget'.halted = budget.halted ELSE budget'.halted
    BY <2>1, <2>2 DEF Dismiss, Budget
  <2>. QED  BY <2>1, <2>2, <2>3, BelowKeeps
<1>13. CASE EnterFrame
  <2>1. levels = <<>> /\ DOMAIN levels = {} /\ probing = "sweep" /\ ~budget.halted /\ UNCHANGED <<dialogs, hit, probing>>
    BY <1>13 DEF EnterFrame, Spent
  <2>2. Unseen \/ dialogs = {}
    BY <2>1 DEF DialogsIInv, OpenIsHeld
  <2>3. DOMAIN levels' \subseteq {1}
    <3>1. levels' = levels \/ levels' = Outset(Framed)
      BY <1>13 DEF EnterFrame
    <3>2. DOMAIN Outset(Framed) = {1}
      BY ProbeAssumption, OutsetIs
    <3>. QED  BY <2>1, <3>1, <3>2
  <2>4. \A i \in DOMAIN levels' : ~ (1 < i)
    BY <2>3
  <2>. QED  BY <2>1, <2>2, <2>4 DEF DialogsIInv, LevelsAreInside, OpenersKnow, OpenIsHeld, OperatedIsReal, Unseen
<1>14. CASE Finished
  <2>1. DOMAIN levels' = {} /\ probing' = "over" /\ hit' = hit
    BY <1>14 DEF Finished
  <2>. QED  BY <2>1 DEF DialogsIInv, LevelsAreInside, OpenersKnow, OpenIsHeld, OperatedIsReal, Unseen
<1>15. CASE UNCHANGED probeVars
  BY <1>15 DEF probeVars, DialogsIInv, LevelsAreInside, OpenersKnow, OpenIsHeld, OperatedIsReal, Unseen
<1>. QED  BY <1>1, <1>2, <1>3, <1>4, <1>5, <1>6, <1>7, <1>8, <1>9, <1>10, <1>11, <1>12, <1>13, <1>14, <1>15
          DEF ProbeNext

\* On a page whose dialogs hold what they show, every click the probe counts as a
\* control operated reached that control, as long as the browser says what is open
\* (probe.py _operate, _dismiss_dialog).
THEOREM OperatedCorrect ==
  ASSUME DialogsHold
  PROVE  ProbeSpec => []OperatedIsReal
<1>1. ProbeInit => ProbeIInv /\ DialogsIInv
  BY ProbeInitHolds, DialogsInitHold
<1>2. ProbeIInv /\ DialogsIInv /\ [ProbeNext]_probeVars => (ProbeIInv /\ DialogsIInv)'
  BY ProbeNextHolds, DialogsNextHold
<1>3. ProbeIInv /\ DialogsIInv => OperatedIsReal
  BY DEF DialogsIInv
<1>. QED  BY <1>1, <1>2, <1>3, PTL DEF ProbeSpec

-----------------------------------------------------------------------------
(* Addresses and scopes *)

LEMMA PrefixSelf == ASSUME NEW S, NEW p \in Seq(S) PROVE IsPrefix(p, p)
BY LenProperties DEF IsPrefix

LEMMA PrefixEmpty == ASSUME NEW S, NEW p \in Seq(S) PROVE IsPrefix(<<>>, p)
<1>1. Len(<<>>) = 0 /\ Len(p) \in Nat  BY LenProperties, EmptySeq
<1>2. SubSeq(p, 1, 0) = <<>> /\ SubSeq(<<>>, 1, 0) = <<>>  BY SubSeqEmpty
<1> QED  BY <1>1, <1>2 DEF IsPrefix

LEMMA PrefixSame ==
  ASSUME NEW S, NEW p \in Seq(S), NEW q \in Seq(S), IsPrefix(p, q), Len(q) <= Len(p)
  PROVE  p = q
<1>1. Len(p) = Len(q)  BY LenProperties DEF IsPrefix
<1>2. SubSeq(p, 1, Len(p)) = SubSeq(q, 1, Len(q))  BY <1>1 DEF IsPrefix
<1>3. SubSeq(p, 1, Len(p)) = p /\ SubSeq(q, 1, Len(q)) = q  BY SubSeqFull
<1> QED  BY <1>2, <1>3

LEMMA PrefixFront ==
  ASSUME NEW S, NEW p \in Seq(S), p # <<>>
  PROVE  /\ Front(p) \in Seq(S) /\ IsPrefix(Front(p), p) /\ Len(Front(p)) < Len(p)
<1> DEFINE n == Len(p) - 1  f == SubSeq(p, 1, n)
<1>1. Len(p) \in Nat \ {0} /\ \A i \in 1..Len(p) : p[i] \in S
  BY LenProperties, ElementOfSeq, EmptySeq
<1>2. n \in Nat /\ \A i \in 1..n : p[i] \in S  BY <1>1
<1> HIDE DEF n
<1>3. f \in Seq(S) /\ Len(f) = IF 1 <= n THEN n - 1 + 1 ELSE 0  BY <1>2, SubSeqProperties
<1>4. Len(f) = n  BY <1>2, <1>3
<1>5. Front(p) = f  BY DEF Front, n
<1>6. SubSeq(f, 1, Len(f)) = f  BY <1>3, SubSeqFull
<1> HIDE DEF f
<1>7. SubSeq(f, 1, Len(f)) = SubSeq(p, 1, Len(f))  BY <1>4, <1>6 DEF f
<1>8. Len(f) <= Len(p) /\ Len(f) < Len(p)  BY <1>1, <1>4 DEF n
<1> QED  BY <1>3, <1>5, <1>7, <1>8 DEF IsPrefix

\* What an address is.
IsAddress(a) ==
  /\ a \in [host : Host, plainCase : BOOLEAN, port : {"none", "default", "other"},
            path : Seq(Segment), slash : BOOLEAN, query : Seq(Nat), fragment : {"none", "anchor", "route"}]
  /\ Len(a.query) <= 2

LEMMA PathIsSeq == Path \subseteq Seq(Segment)
<1>1. <<>> \in Seq(Segment)  BY EmptySeq
<1>2. ASSUME NEW s \in Segment PROVE <<s>> \in Seq(Segment)  OBVIOUS
<1>3. ASSUME NEW s \in Segment, NEW t \in Segment PROVE <<s, t>> \in Seq(Segment)  OBVIOUS
<1>4. ASSUME NEW p \in Path PROVE p \in Seq(Segment)
  <2>1. \/ p = <<>> \/ \E s \in Segment : p = <<s>>
        \/ \E s \in Segment : \E t \in Segment : p = <<s, t>>
    BY DEF Path
  <2> QED  BY <1>1, <1>2, <1>3, <2>1
<1> QED  BY <1>4

LEMMA SiteUrlIs == ASSUME NEW a \in SiteUrl PROVE IsAddress(a)
<1>1. a.path \in Seq(Segment)  BY PathIsSeq DEF SiteUrl
<1>2. a.query \in Seq(Nat) /\ Len(a.query) <= 2
  <2>1. a.query \in {<<>>} \cup {<<p>> : p \in Param} \cup {<<p, r>> : p, r \in Param}
    BY DEF SiteUrl
  <2>2. CASE a.query = <<>>  BY <2>2, EmptySeq
  <2>3. ASSUME NEW p \in Param, a.query = <<p>> PROVE a.query \in Seq(Nat) /\ Len(a.query) <= 2
    BY <2>3, ScopeAssumption
  <2>4. ASSUME NEW p \in Param, NEW r \in Param, a.query = <<p, r>>
        PROVE  a.query \in Seq(Nat) /\ Len(a.query) <= 2
    BY <2>4, ScopeAssumption
  <2> QED  BY <2>1, <2>2, <2>3, <2>4
<1>3. /\ a \in [host : Host, plainCase : BOOLEAN, port : {"none", "default", "other"},
            path : Path, slash : BOOLEAN,
            query : {q \in {<<>>} \cup {<<p>> : p \in Param} \cup {<<p, r>> : p, r \in Param} : IsInjective(q)},
            fragment : {"none", "anchor", "route"}]
  BY DEF SiteUrl
<1> QED  BY <1>1, <1>2, <1>3 DEF IsAddress

LEMMA SortedIs ==
  ASSUME NEW q \in Seq(Nat), Len(q) <= 2
  PROVE  Sorted(q) \in Seq(Nat) /\ Len(Sorted(q)) <= 2 /\ Sorted(Sorted(q)) = Sorted(q)
<1>1. CASE Len(q) = 2 /\ q[1] > q[2]
  <2>1. q[1] \in Nat /\ q[2] \in Nat  BY <1>1, ElementOfSeq
  <2> DEFINE r == <<q[2], q[1]>>
  <2>2. Sorted(q) = r  BY <1>1 DEF Sorted
  <2>3. r \in Seq(Nat) /\ Len(r) = 2 /\ r[1] = q[2] /\ r[2] = q[1]  BY <2>1
  <2> HIDE DEF r
  <2>4. ~(r[1] > r[2])  BY <1>1, <2>1, <2>3
  <2>5. Sorted(r) = r  BY <2>4 DEF Sorted
  <2> QED  BY <2>2, <2>3, <2>5
<1>2. CASE ~(Len(q) = 2 /\ q[1] > q[2])
  <2>1. Sorted(q) = q  BY <1>2 DEF Sorted
  <2> QED  BY <2>1
<1> QED  BY <1>1, <1>2

\* The fields of an address that was normalized.
LEMMA NormalizeFields ==
  ASSUME NEW a, DOMAIN a = {"host", "plainCase", "port", "path", "slash", "query", "fragment"}
  PROVE  normalize(a) =
           [host |-> a.host, plainCase |-> TRUE, port |-> IF a.port = "default" THEN "none" ELSE a.port,
            path |-> a.path, slash |-> a.slash \/ a.path = <<>>, query |-> Sorted(a.query),
            fragment |-> SpaRoute(a.fragment)]
<1> DEFINE n == normalize(a)
<1>1. DOMAIN n = {"host", "plainCase", "port", "path", "slash", "query", "fragment"}
  BY DEF normalize
<1>2. n.host = a.host /\ n.plainCase = TRUE /\ n.path = a.path  BY DEF normalize
<1>3. n.port = IF a.port = "default" THEN "none" ELSE a.port  BY DEF normalize
<1>4. n.slash = (a.slash \/ a.path = <<>>)  BY DEF normalize
<1>5. n.query = Sorted(a.query) /\ n.fragment = SpaRoute(a.fragment)  BY DEF normalize
<1>6. n = [x \in DOMAIN n |-> n[x]]  BY DEF normalize
<1> HIDE DEF n
<1> DEFINE m == [host |-> a.host, plainCase |-> TRUE, port |-> IF a.port = "default" THEN "none" ELSE a.port,
            path |-> a.path, slash |-> a.slash \/ a.path = <<>>, query |-> Sorted(a.query),
            fragment |-> SpaRoute(a.fragment)]
<1>7. /\ DOMAIN m = {"host", "plainCase", "port", "path", "slash", "query", "fragment"}
      /\ m.host = a.host /\ m.plainCase = TRUE /\ m.path = a.path
      /\ m.port = IF a.port = "default" THEN "none" ELSE a.port
      /\ m.slash = (a.slash \/ a.path = <<>>)
      /\ m.query = Sorted(a.query) /\ m.fragment = SpaRoute(a.fragment)
  OBVIOUS
<1>10. m = [x \in DOMAIN m |-> m[x]]  OBVIOUS
<1> HIDE DEF m
<1>8. DOMAIN m = DOMAIN n /\ \A x \in DOMAIN m : m[x] = n[x]
  BY <1>1, <1>2, <1>3, <1>4, <1>5, <1>7
<1>9. n = m  BY <1>6, <1>8, <1>10
<1> QED  BY <1>9 DEF n, m

LEMMA NormalizeIs ==
  ASSUME NEW a, IsAddress(a)
  PROVE  /\ IsAddress(normalize(a)) /\ normalize(normalize(a)) = normalize(a)
         /\ normalize(a).host = a.host /\ normalize(a).path = a.path
         /\ normalize(a).slash = (a.slash \/ a.path = <<>>)
<1> DEFINE q == Sorted(a.query)  port == IF a.port = "default" THEN "none" ELSE a.port
           f == SpaRoute(a.fragment)  slash == a.slash \/ a.path = <<>>
           n == [host |-> a.host, plainCase |-> TRUE, port |-> port, path |-> a.path,
                 slash |-> slash, query |-> q, fragment |-> f]
<1>0. DOMAIN a = {"host", "plainCase", "port", "path", "slash", "query", "fragment"}
  BY DEF IsAddress
<1>1. normalize(a) = n  BY <1>0, NormalizeFields
<1>2. q \in Seq(Nat) /\ Len(q) <= 2 /\ Sorted(q) = q  BY SortedIs DEF IsAddress
<1>3. f \in {"none", "route"} /\ SpaRoute(f) = f  BY DEF SpaRoute
<1>4. port \in {"none", "other"}  BY DEF IsAddress
<1>5. slash \in BOOLEAN /\ (slash \/ a.path = <<>>) = slash  BY DEF IsAddress
<1> HIDE DEF q, f, port, slash
<1>6. IsAddress(n)  BY <1>2, <1>3, <1>4, <1>5 DEF IsAddress
<1>7. normalize(n) = n
  <2>1. normalize(n) = [host |-> a.host, plainCase |-> TRUE, port |-> IF port = "default" THEN "none" ELSE port,
          path |-> a.path, slash |-> slash \/ a.path = <<>>, query |-> Sorted(q), fragment |-> SpaRoute(f)]
    <3>1. DOMAIN n = {"host", "plainCase", "port", "path", "slash", "query", "fragment"}  OBVIOUS
    <3>2. /\ n.host = a.host /\ n.port = port /\ n.path = a.path /\ n.slash = slash
          /\ n.query = q /\ n.fragment = f
      OBVIOUS
    <3> HIDE DEF n
    <3>3. normalize(n) =
           [host |-> n.host, plainCase |-> TRUE, port |-> IF n.port = "default" THEN "none" ELSE n.port,
            path |-> n.path, slash |-> n.slash \/ n.path = <<>>, query |-> Sorted(n.query),
            fragment |-> SpaRoute(n.fragment)]
      BY <3>1, NormalizeFields
    <3> QED  BY <3>2, <3>3
  <2>2. (IF port = "default" THEN "none" ELSE port) = port  BY <1>4
  <2> QED  BY <1>2, <1>3, <1>5, <2>1, <2>2
<1> QED  BY <1>1, <1>6, <1>7 DEF slash

LEMMA CompareFields ==
  ASSUME NEW a, DOMAIN a = {"host", "plainCase", "port", "path", "slash", "query", "fragment"},
         a.host \in Loopback
  PROVE  compareKey(a) =
           [host |-> Local, plainCase |-> TRUE, port |-> "none",
            path |-> a.path, slash |-> a.slash \/ a.path = <<>>, query |-> Sorted(a.query),
            fragment |-> SpaRoute(a.fragment)]
<1> DEFINE n == compareKey(a)
           m == [host |-> Local, plainCase |-> TRUE, port |-> "none",
            path |-> a.path, slash |-> a.slash \/ a.path = <<>>, query |-> Sorted(a.query),
            fragment |-> SpaRoute(a.fragment)]
<1>1. DOMAIN n = {"host", "plainCase", "port", "path", "slash", "query", "fragment"}
  BY DEF compareKey
<1>2. n.host = Local /\ n.plainCase = TRUE /\ n.path = a.path /\ n.port = "none"
  BY DEF compareKey
<1>3. n.slash = (a.slash \/ a.path = <<>>)  BY DEF compareKey
<1>4. n.query = Sorted(a.query) /\ n.fragment = SpaRoute(a.fragment)  BY DEF compareKey
<1>5. n = [x \in DOMAIN n |-> n[x]]  BY DEF compareKey
<1> HIDE DEF n
<1>6. /\ DOMAIN m = {"host", "plainCase", "port", "path", "slash", "query", "fragment"}
      /\ m.host = Local /\ m.plainCase = TRUE /\ m.path = a.path /\ m.port = "none"
      /\ m.slash = (a.slash \/ a.path = <<>>)
      /\ m.query = Sorted(a.query) /\ m.fragment = SpaRoute(a.fragment)
  OBVIOUS
<1>7. m = [x \in DOMAIN m |-> m[x]]  OBVIOUS
<1> HIDE DEF m
<1>8. DOMAIN m = DOMAIN n /\ \A x \in DOMAIN m : m[x] = n[x]
  BY <1>1, <1>2, <1>3, <1>4, <1>6
<1>9. n = m  BY <1>5, <1>7, <1>8
<1> QED  BY <1>9 DEF n, m

LEMMA CompareOnce ==
  ASSUME NEW a, IsAddress(a) PROVE compareKey(compareKey(a)) = compareKey(a)
<1>1. CASE a.host \notin Loopback
  <2>1. compareKey(a) = a  BY <1>1 DEF compareKey
  <2> QED  BY <2>1
<1>2. CASE a.host \in Loopback
  <2> DEFINE q == Sorted(a.query)  f == SpaRoute(a.fragment)  slash == a.slash \/ a.path = <<>>
             n == [host |-> Local, plainCase |-> TRUE, port |-> "none", path |-> a.path,
                   slash |-> slash, query |-> q, fragment |-> f]
  <2>0. DOMAIN a = {"host", "plainCase", "port", "path", "slash", "query", "fragment"}
    BY DEF IsAddress
  <2>1. compareKey(a) = n  BY <1>2, <2>0, CompareFields
  <2>2. Sorted(q) = q  BY SortedIs DEF IsAddress
  <2>3. SpaRoute(f) = f  BY DEF SpaRoute
  <2>4. (slash \/ a.path = <<>>) = slash  BY DEF IsAddress
  <2>5. Local \in Loopback  BY <1>2 DEF Local
  <2> HIDE DEF q, f, slash
  <2>6. DOMAIN n = {"host", "plainCase", "port", "path", "slash", "query", "fragment"}  OBVIOUS
  <2>7. /\ n.host = Local /\ n.path = a.path /\ n.slash = slash /\ n.query = q /\ n.fragment = f
    OBVIOUS
  <2>8. n = [host |-> Local, plainCase |-> TRUE, port |-> "none", path |-> a.path,
             slash |-> slash, query |-> q, fragment |-> f]
    OBVIOUS
  <2> HIDE DEF n
  <2>9. compareKey(n) =
           [host |-> Local, plainCase |-> TRUE, port |-> "none",
            path |-> n.path, slash |-> n.slash \/ n.path = <<>>, query |-> Sorted(n.query),
            fragment |-> SpaRoute(n.fragment)]
    BY <2>5, <2>6, <2>7, CompareFields
  <2>10. compareKey(n) = n  BY <2>2, <2>3, <2>4, <2>7, <2>8, <2>9
  <2> QED  BY <2>1, <2>10
<1> QED  BY <1>1, <1>2

\* The seed as it is stored: a directory ends in a slash, and a file in none.
LEMMA CanonicalIs ==
  ASSUME NEW a, IsAddress(a)
  PROVE  LET c == Canonical(a)
         IN /\ IsAddress(c) /\ Canonical(c) = c /\ c.host = a.host /\ c.path = a.path
            /\ c.slash = (a.slash \/ a.path = <<>> \/ Last(a.path) \notin File)
<1> DEFINE s == normalizeSeed(a)  c == normalize(s)
<1>1. /\ IsAddress(s) /\ s.host = a.host /\ s.path = a.path
      /\ (s.slash \/ s.path = <<>>) = (a.slash \/ a.path = <<>> \/ Last(a.path) \notin File)
  <2>1. CASE a.path = <<>> \/ a.slash
    <3>1. s = a  BY <2>1 DEF normalizeSeed
    <3> QED  BY <2>1, <3>1 DEF IsAddress
  <2>2. CASE ~(a.path = <<>> \/ a.slash)
    <3>1. s = [a EXCEPT !.slash = (Last(a.path) \notin File)]
      BY <2>2 DEF normalizeSeed, LooksLikeFilename
    <3> HIDE DEF s
    <3>2. s.slash = (Last(a.path) \notin File) /\ s.path = a.path /\ s.host = a.host
          /\ s.query = a.query
      BY <3>1 DEF IsAddress
    <3>3. IsAddress(s)  BY <3>1, <3>2 DEF IsAddress
    <3> QED  BY <2>2, <3>2, <3>3
  <2> QED  BY <2>1, <2>2
<1> HIDE DEF s
<1>2. IsAddress(c) /\ normalize(c) = c /\ c.host = a.host /\ c.path = a.path
      /\ c.slash = (a.slash \/ a.path = <<>> \/ Last(a.path) \notin File)
  BY <1>1, NormalizeIs
<1>3. Canonical(a) = c  BY DEF Canonical, s
<1> HIDE DEF c
<1>4. Canonical(c) = c
  <2>1. CASE c.path = <<>> \/ c.slash
    BY <1>2, <2>1 DEF Canonical, normalizeSeed
  <2>2. CASE ~(c.path = <<>> \/ c.slash)
    <3>1. ~c.slash /\ Last(c.path) \in File /\ c.slash = FALSE  BY <1>2, <2>2 DEF IsAddress
    <3>2. normalizeSeed(c) = [c EXCEPT !.slash = FALSE]
      BY <2>2, <3>1 DEF normalizeSeed, LooksLikeFilename
    <3>3. [c EXCEPT !.slash = FALSE] = c  BY <1>2, <3>1 DEF IsAddress
    <3> QED  BY <1>2, <3>2, <3>3 DEF Canonical
  <2> QED  BY <2>1, <2>2
<1> QED  BY <1>2, <1>3, <1>4

\* What a scope is: all of one site under a directory, whose entry it holds with
\* or without its slash.
LEMMA ScopeIs ==
  ASSUME NEW a, IsAddress(a), NEW wide \in BOOLEAN
  PROVE  LET scope == buildScope(Canonical(a), wide)
             inner == a.path # <<>> /\ ~a.slash /\ Last(a.path) \in File
         IN /\ scope = [domain |-> Domain[a.host], host |-> a.host, prefix |-> scope.prefix]
            /\ scope.prefix \in Seq(Segment)
            /\ scope.prefix = IF wide THEN <<>> ELSE IF inner THEN Front(a.path) ELSE a.path
            /\ IsPrefix(scope.prefix, a.path)
            /\ inner /\ ~wide => Len(scope.prefix) < Len(a.path)
<1> DEFINE c == Canonical(a)  inner == a.path # <<>> /\ ~a.slash /\ Last(a.path) \in File
           prefix == IF wide THEN <<>> ELSE IF inner THEN Front(a.path) ELSE a.path
<1>1. /\ c.host = a.host /\ c.path = a.path
      /\ c.slash = (a.slash \/ a.path = <<>> \/ Last(a.path) \notin File)
  BY CanonicalIs
<1> HIDE DEF c
<1>2. PathPrefix(c) = IF inner THEN Front(a.path) ELSE a.path
  BY <1>1 DEF PathPrefix, LooksLikeFilename
<1>3. buildScope(c, wide) = [domain |-> Domain[a.host], host |-> a.host, prefix |-> prefix]
  BY <1>1, <1>2 DEF buildScope
<1>4. a.path \in Seq(Segment)  BY DEF IsAddress
<1>5. /\ prefix \in Seq(Segment) /\ IsPrefix(prefix, a.path)
      /\ inner /\ ~wide => Len(prefix) < Len(a.path)
  <2>1. <<>> \in Seq(Segment) /\ IsPrefix(<<>>, a.path)  BY <1>4, EmptySeq, PrefixEmpty
  <2>2. IsPrefix(a.path, a.path)  BY <1>4, PrefixSelf
  <2>3. inner => /\ Front(a.path) \in Seq(Segment) /\ IsPrefix(Front(a.path), a.path)
                 /\ Len(Front(a.path)) < Len(a.path)
    BY <1>4, PrefixFront
  <2>4. CASE wide  BY <2>1, <2>4
  <2>5. CASE ~wide /\ inner  BY <2>3, <2>5
  <2>6. CASE ~wide /\ ~inner  BY <1>4, <2>2, <2>6
  <2> QED  BY <2>4, <2>5, <2>6
<1> HIDE DEF prefix
<1> QED  BY <1>3, <1>5 DEF c, prefix

LEMMA InScopeIs ==
  ASSUME NEW a, IsAddress(a), NEW wide \in BOOLEAN, NEW b, IsAddress(b), NEW subdomains \in BOOLEAN
  PROVE  LET scope == buildScope(Canonical(a), wide)
         IN isInScope(b, scope, subdomains) <=>
              /\ IF subdomains THEN Domain[b.host] = Domain[a.host] ELSE Apex[b.host] = Apex[a.host]
              /\ IsPrefix(scope.prefix, b.path)
<1> DEFINE scope == buildScope(Canonical(a), wide)  p == scope.prefix
<1>1. scope.domain = Domain[a.host] /\ scope.host = a.host /\ p \in Seq(Segment)  BY ScopeIs
<1>2. b.path \in Seq(Segment)  BY DEF IsAddress
<1> HIDE DEF scope
<1>3. (p = <<>> \/ (b.path = p /\ ~b.slash) \/ StartsWith(b, p)) <=> IsPrefix(p, b.path)
  <2>1. p = <<>> => IsPrefix(p, b.path)  BY <1>2, PrefixEmpty
  <2>2. b.path = p => IsPrefix(p, b.path)  BY <1>2, PrefixSelf
  <2>3. StartsWith(b, p) => IsPrefix(p, b.path)  BY DEF StartsWith
  <2>4. ASSUME IsPrefix(p, b.path) PROVE (b.path = p /\ ~b.slash) \/ StartsWith(b, p)
    <3>0. Len(p) \in Nat /\ Len(b.path) \in Nat  BY <1>1, <1>2, LenProperties
    <3>1. CASE Len(b.path) > Len(p) \/ b.slash  BY <2>4, <3>1 DEF StartsWith
    <3>2. CASE ~(Len(b.path) > Len(p) \/ b.slash)
      <4>1. Len(b.path) <= Len(p) /\ ~b.slash  BY <3>0, <3>2
      <4>2. p = b.path  BY <1>1, <1>2, <2>4, <4>1, PrefixSame
      <4> QED  BY <4>1, <4>2
    <3> QED  BY <3>1, <3>2
  <2> QED  BY <2>1, <2>2, <2>3, <2>4
<1>4. isInScope(b, scope, subdomains) <=>
        /\ IF subdomains THEN Domain[b.host] = scope.domain ELSE Apex[b.host] = Apex[scope.host]
        /\ p = <<>> \/ (b.path = p /\ ~b.slash) \/ StartsWith(b, p)
  BY DEF isInScope
<1>5. isInScope(b, scope, subdomains) <=>
              /\ IF subdomains THEN Domain[b.host] = Domain[a.host] ELSE Apex[b.host] = Apex[a.host]
              /\ IsPrefix(p, b.path)
  BY <1>1, <1>3, <1>4
<1> QED  BY <1>5 DEF scope

LEMMA EntryUrlIs ==
  ASSUME NEW a, IsAddress(a)
  PROVE  IsAddress(EntryUrl(a)) /\ EntryUrl(a).host = a.host /\ EntryUrl(a).path = a.path
<1> DEFINE n == normalize(a)
<1>1. IsAddress(n) /\ n.host = a.host /\ n.path = a.path  BY NormalizeIs
<1>2. EntryUrl(a) = [n EXCEPT !.fragment = a.fragment]  BY DEF EntryUrl
<1> HIDE DEF n
<1>3. a.fragment \in {"none", "anchor", "route"}  BY DEF IsAddress
<1> DEFINE e == [n EXCEPT !.fragment = a.fragment]
<1>4. e.host = n.host /\ e.path = n.path /\ e.query = n.query  BY <1>1 DEF IsAddress
<1>5. IsAddress(e)  BY <1>1, <1>3, <1>4 DEF IsAddress
<1> QED  BY <1>1, <1>2, <1>4, <1>5

\* A seed is in its scope however it is spelled.
LEMMA SeedInScope ==
  ASSUME NEW a, IsAddress(a), NEW wide \in BOOLEAN, NEW subdomains \in BOOLEAN,
         NEW b, IsAddress(b), b.host = a.host, b.path = a.path
  PROVE  isInScope(b, buildScope(Canonical(a), wide), subdomains)
<1>1. IsPrefix(buildScope(Canonical(a), wide).prefix, b.path)  BY ScopeIs
<1> QED  BY <1>1, InScopeIs

LEMMA OneDirectory ==
  ASSUME NEW a, IsAddress(a), NEW wide \in BOOLEAN, a.path = <<>> \/ a.slash \/ Last(a.path) \notin File
  PROVE  buildScope([a EXCEPT !.slash = TRUE], wide) = buildScope(Canonical(a), wide)
<1> DEFINE b == [a EXCEPT !.slash = TRUE]  scope == buildScope(Canonical(a), wide)
<1>1. b.host = a.host /\ b.path = a.path /\ b.slash = TRUE  BY DEF IsAddress
<1> HIDE DEF b
<1>2. PathPrefix(b) = a.path  BY <1>1 DEF PathPrefix
<1>3. buildScope(b, wide) =
        [domain |-> Domain[a.host], host |-> a.host, prefix |-> IF wide THEN <<>> ELSE a.path]
  BY <1>1, <1>2 DEF buildScope
<1>4. /\ scope = [domain |-> Domain[a.host], host |-> a.host, prefix |-> scope.prefix]
      /\ scope.prefix = IF wide THEN <<>> ELSE a.path
  BY ScopeIs
<1> HIDE DEF scope
<1>5. buildScope(b, wide) = scope  BY <1>3, <1>4
<1> QED  BY <1>5 DEF b, scope

LEMMA ScopeSound == ScopeIsSound
<1>1. ASSUME NEW a \in SiteUrl
      PROVE  /\ normalize(normalize(a)) = normalize(a) /\ compareKey(compareKey(a)) = compareKey(a)
             /\ Canonical(Canonical(a)) = Canonical(a)
  BY SiteUrlIs, NormalizeIs, CompareOnce, CanonicalIs
<1>2. ASSUME NEW a \in SiteUrl, NEW wide \in BOOLEAN, NEW subdomains \in BOOLEAN
      PROVE  LET scope == buildScope(Canonical(a), wide)
             IN /\ isInScope(Canonical(a), scope, subdomains)
                /\ isInScope(EntryUrl(a), scope, subdomains)
                /\ (a.path = <<>> \/ a.slash \/ Last(a.path) \notin File) =>
                    buildScope([a EXCEPT !.slash = TRUE], wide) = scope
  <2>1. IsAddress(a)  BY SiteUrlIs
  <2>2. isInScope(Canonical(a), buildScope(Canonical(a), wide), subdomains)
    BY <2>1, CanonicalIs, SeedInScope
  <2>3. isInScope(EntryUrl(a), buildScope(Canonical(a), wide), subdomains)
    BY <2>1, EntryUrlIs, SeedInScope
  <2> QED  BY <2>1, <2>2, <2>3, OneDirectory
<1> DEFINE Plain == [host : Host, plainCase : {TRUE}, port : {"none"}, path : Path, slash : BOOLEAN,
                     query : {<<>>}, fragment : {"none", "anchor"}]
<1>3. ASSUME NEW a \in Plain PROVE IsAddress(a)
  <2>1. a.path \in Seq(Segment)  BY PathIsSeq
  <2>2. a.query = <<>> /\ <<>> \in Seq(Nat) /\ Len(<<>>) = 0  BY EmptySeq
  <2>3. a \in [host : Host, plainCase : {TRUE}, port : {"none"}, path : Path, slash : BOOLEAN,
                     query : {<<>>}, fragment : {"none", "anchor"}]
    OBVIOUS
  <2>4. /\ a = [host |-> a.host, plainCase |-> a.plainCase, port |-> a.port, path |-> a.path,
               slash |-> a.slash, query |-> a.query, fragment |-> a.fragment]
        /\ a.host \in Host /\ a.plainCase \in BOOLEAN /\ a.port \in {"none", "default", "other"}
        /\ a.slash \in BOOLEAN /\ a.fragment \in {"none", "anchor", "route"}
    BY <2>3
  <2>5. a.query \in Seq(Nat) /\ Len(a.query) <= 2  BY <2>2
  <2>6. a \in [host : Host, plainCase : BOOLEAN, port : {"none", "default", "other"},
            path : Seq(Segment), slash : BOOLEAN, query : Seq(Nat), fragment : {"none", "anchor", "route"}]
    BY <2>1, <2>4, <2>5
  <2> QED  BY <2>5, <2>6 DEF IsAddress
<1>4. ASSUME NEW a \in Plain, NEW b \in Plain
      PROVE  LET narrow == buildScope(Canonical(a), FALSE)
                 whole == buildScope(Canonical(a), TRUE)
             IN /\ isInScope(b, narrow, FALSE) <=> isInScope(normalize(b), narrow, FALSE)
                /\ isInScope(b, narrow, FALSE) <=> Apex[a.host] = Apex[b.host] /\ IsPrefix(narrow.prefix, b.path)
                /\ isInScope(b, narrow, FALSE) => isInScope(b, whole, FALSE) /\ isInScope(b, narrow, TRUE)
  <2> DEFINE narrow == buildScope(Canonical(a), FALSE)  whole == buildScope(Canonical(a), TRUE)
             n == normalize(b)
  <2>1. IsAddress(a) /\ IsAddress(b)  BY <1>3
  <2>2. IsAddress(n) /\ n.host = b.host /\ n.path = b.path  BY <2>1, NormalizeIs
  <2>3. isInScope(b, narrow, FALSE) <=> Apex[b.host] = Apex[a.host] /\ IsPrefix(narrow.prefix, b.path)
    BY <2>1, InScopeIs
  <2>4. isInScope(n, narrow, FALSE) <=> Apex[b.host] = Apex[a.host] /\ IsPrefix(narrow.prefix, b.path)
    BY <2>1, <2>2, InScopeIs
  <2>5. isInScope(b, narrow, TRUE) <=> Domain[b.host] = Domain[a.host] /\ IsPrefix(narrow.prefix, b.path)
    BY <2>1, InScopeIs
  <2>6. isInScope(b, whole, FALSE) <=> Apex[b.host] = Apex[a.host] /\ IsPrefix(whole.prefix, b.path)
    BY <2>1, InScopeIs
  <2>7. IsPrefix(whole.prefix, b.path)
    <3>1. whole.prefix = <<>>  BY <2>1, ScopeIs
    <3>2. b.path \in Seq(Segment)  BY <2>1 DEF IsAddress
    <3> QED  BY <3>1, <3>2, PrefixEmpty
  <2>8. Apex[b.host] = Apex[a.host] => Domain[b.host] = Domain[a.host]
    <3>1. a.host \in Host /\ b.host \in Host  BY <2>1 DEF IsAddress
    <3>2. Domain[Apex[a.host]] = Domain[a.host] /\ Domain[Apex[b.host]] = Domain[b.host]
      BY <3>1, ScopeAssumption
    <3> QED  BY <3>2
  <2> HIDE DEF narrow, whole, n
  <2>9. /\ isInScope(b, narrow, FALSE) <=> isInScope(n, narrow, FALSE)
        /\ isInScope(b, narrow, FALSE) <=> Apex[a.host] = Apex[b.host] /\ IsPrefix(narrow.prefix, b.path)
        /\ isInScope(b, narrow, FALSE) => isInScope(b, whole, FALSE) /\ isInScope(b, narrow, TRUE)
    BY <2>3, <2>4, <2>5, <2>6, <2>7, <2>8
  <2> QED  BY <2>9 DEF narrow, whole, n
<1> QED  BY <1>1, <1>2, <1>4, Zenon DEF ScopeIsSound

LEMMA HomeStays == ASSUME NEW c \in Config PROVE InScope(c, Home)
<1>1. IsAddress(Home)  BY SettingsAssumption, SiteUrlIs
<1>2. c.wide \in BOOLEAN  BY DEF Config
<1>3. isInScope(Home, buildScope(Canonical(Home), c.wide), FALSE)  BY <1>1, <1>2, SeedInScope
<1> QED  BY <1>3 DEF InScope

LEMMA ScopesHold == ASSUME SettingsTypeOK PROVE ScopeHolds
<1>1. ASSUME NEW r \in DOMAIN rows PROVE rows[r].stored \in Config
  <2>1. rows \in Seq(ScanRow)  BY DEF SettingsTypeOK
  <2>2. rows[r] \in ScanRow  BY <2>1, LenProperties, ElementOfSeq
  <2> QED  BY <2>2 DEF ScanRow
<1> QED  BY <1>1, HomeStays, ScopeSound DEF ScopeHolds

-----------------------------------------------------------------------------
(* The settings of a scan *)

Crawling == [at : {"asked", "crawling"}, shown : Nat, row : Nat, id : Nat, config : Config]

\* What a row holds was got by crawls that there were, under the row's version and
\* within the settings of the crawl.
GotFits ==
  \A r \in DOMAIN rows : \A g \in rows[r].got :
    /\ g[1] \in DOMAIN used
    /\ used[g[1]].version = StoredVersion(rows[r].stored)
    /\ InScope(used[g[1]], g[2]) /\ ~BlocksPage(used[g[1]], g[2]) /\ RobotsAllow(used[g[1]], g[2])

\* The row of a signed-in scan is not taken over, and what it holds is of one crawl.
SignedInFits ==
  \A r \in DOMAIN rows : rows[r].signedIn =>
    /\ rows[r].stored.resumable = FALSE /\ rows[r].stored.browserOnly
    /\ \A g, h \in rows[r].got : g[1] = h[1]
    /\ \A g \in rows[r].got : g[3] # "plain" /\ used[g[1]].browserOnly

\* A crawl runs with the settings it is remembered with, under the version of its
\* row; only the server crawls the row of a signed-in scan, by the browser, and no
\* other crawl has got anything for it.
CrawlFits(p) ==
  crawls[p] # NotRunning =>
    /\ crawls[p].config.version \in Version /\ (p = "server" => crawls[p].shown \in DOMAIN rows)
    /\ crawls[p].at = "crawling" =>
         /\ crawls[p].row \in DOMAIN rows /\ crawls[p].id \in DOMAIN used
         /\ used[crawls[p].id] = crawls[p].config
         /\ crawls[p].config.version = StoredVersion(rows[crawls[p].row].stored)
         /\ rows[crawls[p].row].signedIn =>
              /\ p = "server" /\ crawls[p].config.browserOnly
              /\ \A g \in rows[crawls[p].row].got : g[1] = crawls[p].id
    /\ crawls[p].at = "asked" /\ crawls[p].row # 0 =>
         /\ crawls[p].row \in DOMAIN rows /\ rows[crawls[p].row].signedIn /\ p = "server"
         /\ rows[crawls[p].row].got = {}
         /\ crawls[p].config.resumable = FALSE /\ crawls[p].config.browserOnly

CrawlsFit == \A p \in Runner : CrawlFits(p)

SettingsIInv == SettingsTypeOK /\ GotFits /\ SignedInFits /\ CrawlsFit

-----------------------------------------------------------------------------
(* Lemmas *)

\* The greatest of some positions is one of them.
LEMMA MaxIs ==
  ASSUME NEW n \in Nat, NEW S \in SUBSET (1 .. n), S # {}
  PROVE  Max(S) \in S
<1> DEFINE T == {n - x : x \in S}
           R == {ss \in Nat \X Nat : ss[1] < ss[2]}
<1>1. T \subseteq Nat
  <2> SUFFICES ASSUME NEW x \in S PROVE n - x \in Nat
    OBVIOUS
  <2>. QED OBVIOUS
<1>0. T # {}
  <2>1. PICK x \in S : TRUE
    OBVIOUS
  <2>. QED BY <2>1
<1>9. IsWellFoundedOn(R, Nat)
  BY NatLessThanWellFounded DEF OpToRel
<1> HIDE DEF R
<1>2. PICK t \in T : \A y \in T : ~ (<<y, t>> \in R)
  BY <1>0, <1>1, <1>9, WFMin
<1>3. \A y \in T : t <= y
  <2> SUFFICES ASSUME NEW y \in T PROVE t <= y
    OBVIOUS
  <2>1. y \in Nat /\ t \in Nat
    BY <1>1
  <2>2. ~ (<<y, t>> \in R)
    BY <1>2
  <2>3. ~ (y < t)
    BY <2>1, <2>2 DEF R
  <2>. QED  BY <2>1, <2>3
<1>4. PICK x \in S : t = n - x
  OBVIOUS
<1>5. \A y \in S : n - y \in T
  OBVIOUS
<1>6. \A y \in S : x >= y
  <2> SUFFICES ASSUME NEW y \in S PROVE x >= y
    OBVIOUS
  <2>1. t <= n - y
    BY <1>3, <1>5
  <2>2. y \in 1..n /\ x \in 1..n
    OBVIOUS
  <2>. QED BY <1>4, <2>1, <2>2
<1>. QED  BY <1>6 DEF Max

\* An adopted row is one that may be taken over.
LEMMA LatestIs ==
  ASSUME rows \in Seq(ScanRow), NEW S \in SUBSET DOMAIN rows
  PROVE  LatestOf(S) = 0 \/ LatestOf(S) \in S
<1>1. CASE S = {}
  BY <1>1 DEF LatestOf
<1>2. CASE S # {}
  <2>1. Len(rows) \in Nat /\ S \in SUBSET (1 .. Len(rows))
    BY LenProperties
  <2>2. Max(S) \in S
    BY <1>2, <2>1, MaxIs
  <2>. QED  BY <1>2, <2>2 DEF LatestOf
<1>. QED  BY <1>1, <1>2

LEMMA AdoptableRows ==
  ASSUME SettingsIInv
  PROVE  /\ ForServer = 0 \/ (ForServer \in DOMAIN rows /\ ~rows[ForServer].signedIn)
         /\ ForCrawl = 0 \/ (ForCrawl \in DOMAIN rows /\ ~rows[ForCrawl].signedIn)
<1> DEFINE A == {r \in DOMAIN rows : rows[r].status \in {"running", "interrupted"} /\ Adoptable(r)}
           B == {r \in DOMAIN rows :
                  /\ Adoptable(r)
                  /\ rows[r].status = "running" \/ (rows[r].status = "interrupted" /\ rows[r].pending # {})}
<1>1. rows \in Seq(ScanRow)
  BY DEF SettingsIInv, SettingsTypeOK
<1>2. ForServer = 0 \/ ForServer \in A
  BY <1>1, LatestIs DEF ForServer
<1>3. ForCrawl = 0 \/ ForCrawl \in B
  BY <1>1, LatestIs DEF ForCrawl
<1>4. \A r \in DOMAIN rows : Adoptable(r) => ~rows[r].signedIn
  BY DEF SettingsIInv, SignedInFits, Adoptable
<1>. QED  BY <1>2, <1>3, <1>4

LEMMA RowExcept ==
  ASSUME NEW q \in Seq(ScanRow), NEW r \in DOMAIN q, NEW e \in ScanRow
  PROVE  /\ [q EXCEPT ![r] = e] \in Seq(ScanRow)
         /\ DOMAIN [q EXCEPT ![r] = e] = DOMAIN q
         /\ Len([q EXCEPT ![r] = e]) = Len(q)
         /\ \A k \in DOMAIN q : [q EXCEPT ![r] = e][k] = IF k = r THEN e ELSE q[k]
<1>1. DOMAIN q = 1 .. Len(q) /\ Len(q) \in Nat
  BY LenProperties
<1>2. /\ [q EXCEPT ![r] = e] \in Seq(ScanRow) /\ Len([q EXCEPT ![r] = e]) = Len(q)
      /\ \A k \in 1 .. Len(q) : [q EXCEPT ![r] = e][k] = IF k = r THEN e ELSE q[k]
  BY <1>1, ExceptSeq
<1>3. DOMAIN [q EXCEPT ![r] = e] = DOMAIN q
  OBVIOUS
<1>. QED  BY <1>1, <1>2, <1>3

LEMMA RowAppend ==
  ASSUME NEW q \in Seq(ScanRow), NEW e \in ScanRow
  PROVE  /\ Append(q, e) \in Seq(ScanRow) /\ Len(q) \in Nat
         /\ DOMAIN q = 1 .. Len(q) /\ DOMAIN Append(q, e) = 1 .. (Len(q) + 1)
         /\ \A k \in DOMAIN q : Append(q, e)[k] = q[k]
         /\ Append(q, e)[Len(q) + 1] = e
<1>1. Len(q) \in Nat /\ DOMAIN q = 1 .. Len(q)
  BY LenProperties
<1>2. /\ Append(q, e) \in Seq(ScanRow) /\ Len(Append(q, e)) = Len(q) + 1
      /\ \A k \in 1 .. Len(q) : Append(q, e)[k] = q[k]
      /\ Append(q, e)[Len(q) + 1] = e
  BY AppendProperties
<1>3. DOMAIN Append(q, e) = 1 .. (Len(q) + 1)
  BY <1>2, LenProperties
<1>. QED  BY <1>1, <1>2, <1>3

LEMMA FormsFit ==
  ASSUME NEW f \in Form
  PROVE  /\ Build(f) \in Config /\ Build(f).version \in Version /\ Build(f).resumable = TRUE
         /\ ~Build(f).browserOnly
         /\ BuildSignedIn(f) \in Config /\ BuildSignedIn(f).version \in Version
         /\ BuildSignedIn(f).resumable = FALSE /\ BuildSignedIn(f).browserOnly
<1>1. ASSUME NEW g \in Form
      PROVE  /\ Build(g) \in Config /\ Build(g).version \in Version /\ Build(g).resumable = TRUE
             /\ ~Build(g).browserOnly
  <2>1. /\ g.engine \cup (IF g.static \/ "axe" \notin g.engine THEN {} ELSE {"interaction"} \ g.skip)
             \cup ({"keyboard"} \ g.skip) \in SUBSET Check
        /\ (~g.static) \in BOOLEAN /\ g.version \in Version /\ g.wide \in BOOLEAN /\ g.ignoreRobots \in BOOLEAN
    BY <1>1 DEF Form, Check
  <2>2. (IF g.all THEN Boundless ELSE IF g.limit = Missing THEN DefaultLimit ELSE g.limit)
          \in Nat \cup {Boundless, Missing}
    BY <1>1, SettingsAssumption DEF Form
  <2>. QED  BY <2>1, <2>2 DEF Build, Config
<1>2. [f EXCEPT !.static = FALSE] \in Form
  BY DEF Form
<1> DEFINE b == Build([f EXCEPT !.static = FALSE])
<1>3. b \in Config /\ b.version \in Version
  BY <1>1, <1>2
<1>4. BuildSignedIn(f) = [b EXCEPT !.ignoreRobots = TRUE, !.resumable = FALSE, !.browserOnly = TRUE]
  BY DEF BuildSignedIn
<1> HIDE DEF b
<1>5. /\ BuildSignedIn(f) \in Config /\ BuildSignedIn(f).version \in Version
      /\ BuildSignedIn(f).resumable = FALSE /\ BuildSignedIn(f).browserOnly
  BY <1>3, <1>4 DEF Config
<1>. QED  BY <1>1, <1>5

\* A row that is taken over keeps its version, and all it holds.
LEMMA TakenOverIs ==
  ASSUME SettingsIInv, NEW r \in DOMAIN rows, NEW c \in Config
  PROVE  /\ KeepVersion(r, c) \in Config /\ KeepVersion(r, c).version = StoredVersion(rows[r].stored)
         /\ KeepVersion(r, c).version \in Version
         /\ KeepVersion(r, c).resumable = c.resumable /\ KeepVersion(r, c).browserOnly = c.browserOnly
         /\ TakenOver(r, c) \in Seq(ScanRow) /\ DOMAIN TakenOver(r, c) = DOMAIN rows
         /\ Len(TakenOver(r, c)) = Len(rows)
         /\ \A k \in DOMAIN rows :
              /\ TakenOver(r, c)[k].got = rows[k].got /\ TakenOver(r, c)[k].signedIn = rows[k].signedIn
              /\ TakenOver(r, c)[k].done = rows[k].done
              /\ TakenOver(r, c)[k].stored = (IF k = r THEN KeepVersion(r, c) ELSE rows[k].stored)
              /\ StoredVersion(TakenOver(r, c)[k].stored) = StoredVersion(rows[k].stored)
<1>1. rows \in Seq(ScanRow) /\ rows[r] \in ScanRow
  BY LenProperties DEF SettingsIInv, SettingsTypeOK
<1> DEFINE v == StoredVersion(rows[r].stored)
           keep == KeepVersion(r, c)
           e == [rows[r] EXCEPT !.status = "running", !.stored = keep]
<1>2. v \in Version /\ v # Missing
  BY <1>1, SettingsAssumption DEF StoredVersion, ScanRow, Config
<1>3. keep = [c EXCEPT !.version = v]
  BY DEF KeepVersion
<1> HIDE DEF v
<1>4. keep \in Config /\ keep.version = v /\ keep.resumable = c.resumable /\ keep.browserOnly = c.browserOnly
  BY <1>2, <1>3 DEF Config
<1>5. StoredVersion(keep) = v
  BY <1>2, <1>4 DEF StoredVersion
<1> HIDE DEF keep
<1>6. /\ e \in ScanRow /\ e.got = rows[r].got /\ e.signedIn = rows[r].signedIn /\ e.done = rows[r].done
      /\ e.stored = keep
  BY <1>1, <1>4 DEF ScanRow
<1>7. TakenOver(r, c) = [rows EXCEPT ![r] = e]
  BY <1>1 DEF TakenOver, keep
<1> HIDE DEF e
<1> DEFINE t == [rows EXCEPT ![r] = e]
<1>8. /\ t \in Seq(ScanRow) /\ DOMAIN t = DOMAIN rows /\ Len(t) = Len(rows)
      /\ \A k \in DOMAIN rows : t[k] = IF k = r THEN e ELSE rows[k]
  BY <1>1, <1>6, RowExcept
<1>9. TakenOver(r, c) = t
  BY <1>7
<1> HIDE DEF t
<1>10. /\ t \in Seq(ScanRow) /\ DOMAIN t = DOMAIN rows /\ Len(t) = Len(rows)
       /\ \A k \in DOMAIN rows :
            /\ t[k].got = rows[k].got /\ t[k].signedIn = rows[k].signedIn /\ t[k].done = rows[k].done
            /\ t[k].stored = (IF k = r THEN keep ELSE rows[k].stored)
            /\ StoredVersion(t[k].stored) = StoredVersion(rows[k].stored)
  BY <1>5, <1>6, <1>8 DEF v
<1>. QED  BY <1>2, <1>4, <1>9, <1>10 DEF keep, v

\* What a step that gets nothing has to see to.
RowsKept ==
  /\ DOMAIN rows \subseteq DOMAIN rows' /\ DOMAIN used \subseteq DOMAIN used'
  /\ \A i \in DOMAIN used : used'[i] = used[i]
  /\ \A r \in DOMAIN rows :
       /\ rows'[r].got = rows[r].got /\ rows'[r].signedIn = rows[r].signedIn
       /\ StoredVersion(rows'[r].stored) = StoredVersion(rows[r].stored)
  /\ \A r \in DOMAIN rows' \ DOMAIN rows : rows'[r].got = {}
  /\ \A r \in DOMAIN rows' :
       rows'[r].signedIn => rows'[r].stored.resumable = FALSE /\ rows'[r].stored.browserOnly
  /\ UNCHANGED robots

LEMMA KeptHolds ==
  ASSUME SettingsIInv, RowsKept
  PROVE  GotFits' /\ SignedInFits' /\ \A p \in Runner : crawls'[p] = crawls[p] => CrawlFits(p)'
<1>1. GotFits'
  <2> SUFFICES ASSUME NEW r \in DOMAIN rows', NEW g \in rows'[r].got
               PROVE  /\ g[1] \in DOMAIN used'
                      /\ used'[g[1]].version = StoredVersion(rows'[r].stored)
                      /\ InScope(used'[g[1]], g[2]) /\ ~BlocksPage(used'[g[1]], g[2])
                      /\ RobotsAllow(used[g[1]], g[2])'
    BY DEF GotFits
  <2>1. r \in DOMAIN rows /\ g \in rows[r].got
    BY DEF RowsKept
  <2>2. /\ g[1] \in DOMAIN used /\ used[g[1]].version = StoredVersion(rows[r].stored)
        /\ InScope(used[g[1]], g[2]) /\ ~BlocksPage(used[g[1]], g[2]) /\ RobotsAllow(used[g[1]], g[2])
    BY <2>1 DEF SettingsIInv, GotFits
  <2>3. used'[g[1]] = used[g[1]] /\ robots' = robots
    BY <2>2 DEF RowsKept
  <2>4. RobotsAllow(used[g[1]], g[2])'
    BY <2>2, <2>3 DEF RobotsAllow
  <2>. QED  BY <2>1, <2>2, <2>3, <2>4 DEF RowsKept
<1>2. SignedInFits'
  <2> SUFFICES ASSUME NEW r \in DOMAIN rows', rows'[r].signedIn
               PROVE  /\ rows'[r].stored.resumable = FALSE /\ rows'[r].stored.browserOnly
                      /\ \A g, h \in rows'[r].got : g[1] = h[1]
                      /\ \A g \in rows'[r].got : g[3] # "plain" /\ used'[g[1]].browserOnly
    BY DEF SignedInFits
  <2>1. CASE r \in DOMAIN rows
    BY <2>1 DEF RowsKept, SettingsIInv, SignedInFits, GotFits
  <2>2. CASE r \notin DOMAIN rows
    BY <2>2 DEF RowsKept
  <2>. QED  BY <2>1, <2>2
<1>3. ASSUME NEW p \in Runner, crawls'[p] = crawls[p]  PROVE CrawlFits(p)'
  <2>1. CrawlFits(p)
    BY DEF SettingsIInv, CrawlsFit
  <2>. QED  BY <1>3, <2>1 DEF CrawlFits, RowsKept
<1>. QED  BY <1>1, <1>2, <1>3

\* The rows hold what they held, under the same settings.
AsBefore(t, q) ==
  /\ t \in Seq(ScanRow) /\ DOMAIN t = DOMAIN q
  /\ \A k \in DOMAIN q : t[k].got = q[k].got /\ t[k].signedIn = q[k].signedIn /\ t[k].stored = q[k].stored

\* A step that ends a crawl, and tells of nothing new.
LEMMA EndsHolds ==
  ASSUME SettingsIInv, AsBefore(rows', rows),
         UNCHANGED <<used, robots>>,
         crawls' = crawls \/ \E p \in Runner : crawls' = [crawls EXCEPT ![p] = NotRunning]
  PROVE  SettingsIInv'
<1>1. RowsKept
  BY DEF AsBefore, RowsKept, SettingsIInv, SignedInFits
<1>2. /\ SettingsTypeOK'
      /\ \A q \in Runner : crawls'[q] = crawls[q] \/ crawls'[q] = NotRunning
  BY DEF AsBefore, SettingsIInv, SettingsTypeOK
<1>3. CrawlsFit'
  <2> SUFFICES ASSUME NEW q \in Runner  PROVE CrawlFits(q)'
    BY DEF CrawlsFit
  <2>1. CASE crawls'[q] = crawls[q]
    BY <1>1, <2>1, KeptHolds
  <2>2. CASE crawls'[q] = NotRunning
    BY <2>2 DEF CrawlFits
  <2>. QED  BY <1>2, <2>1, <2>2
<1>. QED  BY <1>1, <1>2, <1>3, KeptHolds DEF SettingsIInv

-----------------------------------------------------------------------------
LEMMA SettingsInitHolds == SettingsInit => SettingsIInv
<1> SUFFICES ASSUME SettingsInit  PROVE SettingsIInv
  OBVIOUS
<1>1. /\ robots \in Answer /\ \A p \in Runner : crawls[p] = NotRunning
      /\ crawls \in [Runner -> {NotRunning} \cup Crawling]
  BY DEF SettingsInit
<1>2. CrawlsFit
  BY <1>1 DEF CrawlsFit, CrawlFits
<1>3. CASE rows = <<>> /\ used = <<>>
  <2>1. rows \in Seq(ScanRow) /\ used \in Seq(Config) /\ DOMAIN rows = {}
    BY <1>3
  <2>. QED  BY <1>1, <1>2, <2>1 DEF SettingsIInv, SettingsTypeOK, GotFits, SignedInFits, Crawling
<1>4. CASE ~ (rows = <<>> /\ used = <<>>)
  <2>1. PICK c \in AskedCli :
          /\ InScope(c, Home) /\ ~BlocksPage(c, Home)
          /\ LET old == [c EXCEPT !.version = Missing, !.resumable = Missing, !.limit = Missing,
                                !.ignoreRobots = TRUE]
             IN /\ used = <<[old EXCEPT !.version = Legacy]>>
                /\ rows = <<[Started(old, FALSE) EXCEPT !.status = "interrupted", !.done = {Home},
                               !.pending = Link[Home], !.got = {<<1, Home, "browser">>}]>>
    BY <1>4 DEF SettingsInit
  <2>2. c \in Config /\ c.version \in Version
    BY AskedAssumption
  <2> DEFINE old == [c EXCEPT !.version = Missing, !.resumable = Missing, !.limit = Missing,
                              !.ignoreRobots = TRUE]
             dated == [old EXCEPT !.version = Legacy]
             older == [Started(old, FALSE) EXCEPT !.status = "interrupted", !.done = {Home},
                       !.pending = Link[Home], !.got = {<<1, Home, "browser">>}]
  <2>3. /\ old \in Config /\ old.version = Missing /\ old.wide = c.wide /\ old.blocks = c.blocks
        /\ old.ignoreRobots = TRUE
    BY <2>2 DEF Config
  <2> HIDE DEF old
  <2>4. /\ dated \in Config /\ dated.version = Legacy /\ dated.wide = c.wide /\ dated.blocks = c.blocks
        /\ dated.ignoreRobots = TRUE
    BY <2>3, SettingsAssumption DEF Config
  <2>5. /\ older \in ScanRow /\ older.got = {<<1, Home, "browser">>} /\ older.signedIn = FALSE /\ older.stored = old
    <3>1. {Home} \in SUBSET Page /\ Link[Home] \in SUBSET Page
          /\ {<<1, Home, "browser">>} \in SUBSET (Nat \X Page \X {"plain", "browser", "none"})
      BY SettingsAssumption
    <3> DEFINE start == Started(old, FALSE)
    <3>2. start \in ScanRow /\ start.signedIn = FALSE /\ start.stored = old
      BY <2>3 DEF ScanRow, Started
    <3>3. older = [start EXCEPT !.status = "interrupted", !.done = {Home},
                   !.pending = Link[Home], !.got = {<<1, Home, "browser">>}]
      OBVIOUS
    <3> HIDE DEF older, start
    <3>. QED  BY <3>1, <3>2, <3>3 DEF ScanRow
  <2>6. used = <<dated>> /\ rows = <<older>>
    BY <2>1 DEF old
  <2> HIDE DEF dated, older
  <2>7. /\ rows \in Seq(ScanRow) /\ used \in Seq(Config) /\ DOMAIN rows = {1} /\ DOMAIN used = {1}
        /\ rows[1] = older /\ used[1] = dated
    BY <2>4, <2>5, <2>6
  <2>8. InScope(dated, Home) /\ ~BlocksPage(dated, Home) /\ RobotsAllow(dated, Home)
    BY <2>1, <2>4 DEF InScope, BlocksPage, RobotsAllow
  <2>9. GotFits
    <3> SUFFICES ASSUME NEW r \in DOMAIN rows, NEW g \in rows[r].got
                 PROVE  /\ g[1] \in DOMAIN used
                        /\ used[g[1]].version = StoredVersion(rows[r].stored)
                        /\ InScope(used[g[1]], g[2]) /\ ~BlocksPage(used[g[1]], g[2])
                        /\ RobotsAllow(used[g[1]], g[2])
      BY DEF GotFits
    <3>1. r = 1 /\ g[1] = 1 /\ g[2] = Home
      BY <2>5, <2>7
    <3>2. StoredVersion(rows[r].stored) = Legacy
      BY <2>3, <2>5, <2>7, <3>1 DEF StoredVersion
    <3>. QED  BY <2>4, <2>7, <2>8, <3>1, <3>2
  <2>10. SignedInFits
    BY <2>5, <2>7 DEF SignedInFits
  <2>. QED  BY <1>1, <1>2, <2>7, <2>9, <2>10 DEF SettingsIInv, SettingsTypeOK, Crawling
<1>. QED  BY <1>3, <1>4

\* A row that is appended, for a crawl of what was asked for.
LEMMA StartedIs ==
  ASSUME SettingsIInv, NEW c \in Config, NEW signedIn \in BOOLEAN
  PROVE  /\ Append(rows, Started(c, signedIn)) \in Seq(ScanRow) /\ Len(rows) \in Nat
         /\ DOMAIN rows = 1 .. Len(rows)
         /\ DOMAIN Append(rows, Started(c, signedIn)) = 1 .. (Len(rows) + 1)
         /\ \A k \in DOMAIN rows : Append(rows, Started(c, signedIn))[k] = rows[k]
         /\ Append(rows, Started(c, signedIn))[Len(rows) + 1].got = {}
         /\ Append(rows, Started(c, signedIn))[Len(rows) + 1].signedIn = signedIn
         /\ Append(rows, Started(c, signedIn))[Len(rows) + 1].stored = c
         /\ Append(rows, Started(c, signedIn))[Len(rows) + 1].done = {}
<1> DEFINE e == Started(c, signedIn)
<1>1. e \in ScanRow /\ e.got = {} /\ e.signedIn = signedIn /\ e.stored = c /\ e.done = {}
  BY DEF Started, ScanRow
<1>2. rows \in Seq(ScanRow)
  BY DEF SettingsIInv, SettingsTypeOK
<1> HIDE DEF e
<1>3. /\ Append(rows, e) \in Seq(ScanRow) /\ Len(rows) \in Nat
      /\ DOMAIN rows = 1 .. Len(rows) /\ DOMAIN Append(rows, e) = 1 .. (Len(rows) + 1)
      /\ \A k \in DOMAIN rows : Append(rows, e)[k] = rows[k]
      /\ Append(rows, e)[Len(rows) + 1] = e
  BY <1>1, <1>2, RowAppend
<1>. QED  BY <1>1, <1>3 DEF e

\* What is asked for is noted on a row that nothing was got for, or taken over.
LEMMA AskHolds == ASSUME SettingsIInv, Ask  PROVE SettingsIInv'
<1>1. PICK f \in Asked :
        LET r == ForServer
            n == IF r = 0 THEN Len(rows) + 1 ELSE r
        IN /\ rows' = IF r = 0 THEN Append(rows, Started(Build(f), FALSE)) ELSE TakenOver(r, Build(f))
           /\ crawls' = [crawls EXCEPT !["server"] =
                [at |-> "asked", shown |-> n, row |-> 0, id |-> 0, config |-> Build(f)]]
  BY DEF Ask
<1>2. UNCHANGED <<used, robots>>
  BY DEF Ask
<1> DEFINE c == Build(f)
           r == ForServer
           n == IF r = 0 THEN Len(rows) + 1 ELSE r
           x == [at |-> "asked", shown |-> n, row |-> 0, id |-> 0, config |-> c]
<1>3. c \in Config /\ c.version \in Version /\ ~c.browserOnly
  BY AskedAssumption, FormsFit
<1>4. /\ rows' = IF r = 0 THEN Append(rows, Started(c, FALSE)) ELSE TakenOver(r, c)
      /\ crawls' = [crawls EXCEPT !["server"] = x]
  BY <1>1
<1> HIDE DEF c
<1>5. r = 0 \/ (r \in DOMAIN rows /\ ~rows[r].signedIn)
  BY AdoptableRows
<1>6. rows \in Seq(ScanRow) /\ Len(rows) \in Nat /\ DOMAIN rows = 1 .. Len(rows)
  BY LenProperties DEF SettingsIInv, SettingsTypeOK
<1>7. rows' \in Seq(ScanRow) /\ RowsKept /\ n \in DOMAIN rows'
  <2>1. CASE r = 0
    <3> DEFINE a == Append(rows, Started(c, FALSE))
    <3>1. rows' = a
      BY <1>4, <2>1
    <3>2. /\ a \in Seq(ScanRow) /\ DOMAIN a = 1 .. (Len(rows) + 1)
          /\ \A k \in DOMAIN rows : a[k] = rows[k]
          /\ a[Len(rows) + 1].got = {} /\ a[Len(rows) + 1].signedIn = FALSE
      BY <1>3, StartedIs
    <3> HIDE DEF a
    <3>3. \A k \in DOMAIN a \ DOMAIN rows : k = Len(rows) + 1
      BY <1>6, <3>2
    <3>4. n = Len(rows) + 1
      BY <2>1
    <3> HIDE DEF r, n
    <3>5. n \in DOMAIN rows'
      BY <1>6, <3>1, <3>2, <3>4
    <3>. QED  BY <1>2, <1>6, <3>1, <3>2, <3>3, <3>5 DEF RowsKept, SettingsIInv, SignedInFits
  <2>2. CASE r # 0
    <3>1. rows' = TakenOver(r, c) /\ r \in DOMAIN rows /\ ~rows[r].signedIn /\ n = r
      BY <1>4, <1>5, <2>2
    <3> HIDE DEF r, n
    <3>2. /\ rows' \in Seq(ScanRow) /\ DOMAIN rows' = DOMAIN rows
          /\ \A k \in DOMAIN rows :
              /\ rows'[k].got = rows[k].got /\ rows'[k].signedIn = rows[k].signedIn
              /\ rows'[k].stored = (IF k = r THEN KeepVersion(r, c) ELSE rows[k].stored)
              /\ StoredVersion(rows'[k].stored) = StoredVersion(rows[k].stored)
      BY <1>3, <3>1, TakenOverIs
    <3>. QED  BY <1>2, <3>1, <3>2 DEF RowsKept, SettingsIInv, SignedInFits
  <2>. QED  BY <2>1, <2>2
<1>8. x \in Crawling /\ x # NotRunning /\ x.at = "asked" /\ x.row = 0 /\ x.config = c /\ x.shown = n
  BY <1>3, <1>5, <1>6 DEF Crawling, NotRunning
<1> HIDE DEF x
<1>9. SettingsTypeOK'
  BY <1>2, <1>4, <1>7, <1>8 DEF SettingsIInv, SettingsTypeOK, Crawling
<1>10. /\ crawls'["server"] = x /\ "server" \in Runner
       /\ \A q \in Runner : q # "server" => crawls'[q] = crawls[q]
  BY <1>4 DEF SettingsIInv, SettingsTypeOK, Runner
<1>11. CrawlsFit'
  <2>1. CrawlFits("server")'
    BY <1>3, <1>7, <1>8, <1>10 DEF CrawlFits
  <2>. QED  BY <1>7, <1>10, <2>1, KeptHolds DEF CrawlsFit
<1>. QED  BY <1>7, <1>9, <1>11, KeptHolds DEF SettingsIInv

LEMMA AskAsSignedInHolds == ASSUME SettingsIInv, AskAsSignedIn  PROVE SettingsIInv'
<1>1. PICK f \in AskedSignedIn :
        /\ rows' = Append(rows, Started(BuildSignedIn(f), TRUE))
        /\ crawls' = [crawls EXCEPT !["server"] = [at |-> "asked", shown |-> Len(rows) + 1, row |-> Len(rows) + 1,
                                             id |-> 0, config |-> BuildSignedIn(f)]]
  BY DEF AskAsSignedIn
<1>2. UNCHANGED <<used, robots>>
  BY DEF AskAsSignedIn
<1> DEFINE c == BuildSignedIn(f)
           x == [at |-> "asked", shown |-> Len(rows) + 1, row |-> Len(rows) + 1, id |-> 0, config |-> c]
<1>3. c \in Config /\ c.version \in Version /\ c.resumable = FALSE /\ c.browserOnly
  BY AskedAssumption, FormsFit
<1>4. rows' = Append(rows, Started(c, TRUE)) /\ crawls' = [crawls EXCEPT !["server"] = x]
  BY <1>1
<1> HIDE DEF c
<1>5. /\ rows' \in Seq(ScanRow) /\ Len(rows) \in Nat /\ DOMAIN rows = 1 .. Len(rows)
      /\ DOMAIN rows' = 1 .. (Len(rows) + 1)
      /\ \A k \in DOMAIN rows : rows'[k] = rows[k]
      /\ rows'[Len(rows) + 1].got = {} /\ rows'[Len(rows) + 1].signedIn = TRUE
      /\ rows'[Len(rows) + 1].stored = c
  BY <1>3, <1>4, StartedIs
<1>6. RowsKept
  <2>1. \A r \in DOMAIN rows' \ DOMAIN rows : r = Len(rows) + 1
    BY <1>5
  <2>. QED  BY <1>2, <1>3, <1>5, <2>1 DEF RowsKept, SettingsIInv, SignedInFits
<1>7. /\ x \in Crawling /\ x # NotRunning /\ x.at = "asked" /\ x.row = Len(rows) + 1 /\ x.config = c
      /\ x.shown = Len(rows) + 1
  BY <1>3, <1>5 DEF Crawling, NotRunning
<1> HIDE DEF x
<1>8. SettingsTypeOK'
  BY <1>2, <1>4, <1>5, <1>7 DEF SettingsIInv, SettingsTypeOK, Crawling
<1>9. /\ crawls'["server"] = x /\ "server" \in Runner
      /\ \A q \in Runner : q # "server" => crawls'[q] = crawls[q]
  BY <1>4 DEF SettingsIInv, SettingsTypeOK, Runner
<1>10. CrawlsFit'
  <2>1. CrawlFits("server")'
    BY <1>3, <1>5, <1>7, <1>9 DEF CrawlFits
  <2>. QED  BY <1>6, <1>9, <2>1, KeptHolds DEF CrawlsFit
<1>. QED  BY <1>6, <1>8, <1>10, KeptHolds DEF SettingsIInv

LEMMA AskOnCommandLineHolds == ASSUME SettingsIInv, AskOnCommandLine  PROVE SettingsIInv'
<1>1. PICK c \in AskedCli :
        crawls' = [crawls EXCEPT !["cli"] = [at |-> "asked", shown |-> 0, row |-> 0, id |-> 0, config |-> c]]
  BY DEF AskOnCommandLine
<1>2. UNCHANGED <<rows, used, robots>>
  BY DEF AskOnCommandLine
<1> DEFINE x == [at |-> "asked", shown |-> 0, row |-> 0, id |-> 0, config |-> c]
<1>3. x \in Crawling /\ x # NotRunning /\ x.at = "asked" /\ x.row = 0 /\ x.config = c
      /\ c.version \in Version /\ "cli" # "server"
  BY AskedAssumption DEF Crawling, NotRunning
<1>4. crawls' = [crawls EXCEPT !["cli"] = x]
  BY <1>1
<1> HIDE DEF x
<1>5. SettingsTypeOK'
  BY <1>2, <1>3, <1>4 DEF SettingsIInv, SettingsTypeOK, Crawling
<1>6. RowsKept
  BY <1>2 DEF RowsKept, SettingsIInv, SignedInFits
<1>7. crawls'["cli"] = x /\ "cli" \in Runner /\ \A q \in Runner : q # "cli" => crawls'[q] = crawls[q]
  BY <1>4 DEF SettingsIInv, SettingsTypeOK, Runner
<1>8. CrawlsFit'
  <2>1. CrawlFits("cli")'
    BY <1>3, <1>7 DEF CrawlFits
  <2>. QED  BY <1>6, <1>7, <2>1, KeptHolds DEF CrawlsFit
<1>. QED  BY <1>5, <1>6, <1>8, KeptHolds DEF SettingsIInv

\* A crawl begins on the row it was given, on one it takes over, or on its own.
LEMMA BeginCrawlHolds == ASSUME SettingsIInv, BeginCrawl  PROVE SettingsIInv'
<1>1. PICK p \in Runner :
        /\ crawls[p].at = "asked"
        /\ LET x == crawls[p]
               r == IF x.row # 0 THEN x.row ELSE ForCrawl
               n == IF r = 0 THEN Len(rows) + 1 ELSE r
               c == IF r = 0 THEN x.config ELSE KeepVersion(r, x.config)
               held == IF r = 0 THEN Append(rows, Started(c, FALSE)) ELSE TakenOver(r, x.config)
           IN /\ n <= MaxRows /\ used' = Append(used, c)
              /\ rows' = [held EXCEPT ![n].pending =
                   {q \in @ : InScope(c, q)} \cup ({Home} \ held[n].done)]
              /\ crawls' = [crawls EXCEPT ![p] =
                   [x EXCEPT !.at = "crawling", !.row = n, !.id = Len(used) + 1, !.config = c]]
  BY DEF BeginCrawl
<1>2. robots' = robots
  BY DEF BeginCrawl
<1> DEFINE x == crawls[p]
           r == IF x.row # 0 THEN x.row ELSE ForCrawl
           n == IF r = 0 THEN Len(rows) + 1 ELSE r
           c == IF r = 0 THEN x.config ELSE KeepVersion(r, x.config)
           held == IF r = 0 THEN Append(rows, Started(c, FALSE)) ELSE TakenOver(r, x.config)
           e == [held[n] EXCEPT !.pending = {q \in @ : InScope(c, q)} \cup ({Home} \ held[n].done)]
           y == [x EXCEPT !.at = "crawling", !.row = n, !.id = Len(used) + 1, !.config = c]
<1>3. /\ used' = Append(used, c) /\ crawls' = [crawls EXCEPT ![p] = y]
      /\ rows' = [held EXCEPT ![n].pending = {q \in @ : InScope(c, q)} \cup ({Home} \ held[n].done)]
  BY <1>1
<1>4. x \in Crawling /\ x # NotRunning /\ x.at = "asked" /\ CrawlFits(p)
  BY <1>1 DEF SettingsIInv, SettingsTypeOK, CrawlsFit, Crawling, NotRunning
<1>5. /\ x.config \in Config /\ x.config.version \in Version /\ x.row \in Nat
      /\ p = "server" => x.shown \in DOMAIN rows
      /\ x.row # 0 => /\ x.row \in DOMAIN rows /\ rows[x.row].signedIn /\ p = "server" /\ rows[x.row].got = {}
                      /\ x.config.resumable = FALSE /\ x.config.browserOnly
  BY <1>4 DEF CrawlFits, Crawling
<1> HIDE DEF x
<1>6. /\ r = 0 \/ r \in DOMAIN rows
      /\ r \in DOMAIN rows /\ rows[r].signedIn /\ r # 0 =>
           /\ p = "server" /\ rows[r].got = {} /\ x.config.resumable = FALSE /\ x.config.browserOnly
  BY <1>5, AdoptableRows
<1>7. rows \in Seq(ScanRow) /\ Len(rows) \in Nat /\ DOMAIN rows = 1 .. Len(rows)
  BY LenProperties DEF SettingsIInv, SettingsTypeOK
<1> HIDE DEF r
<1>8. /\ held \in Seq(ScanRow) /\ n \in DOMAIN held /\ DOMAIN rows \subseteq DOMAIN held
      /\ c \in Config /\ c.version \in Version
      /\ \A k \in DOMAIN rows :
           /\ held[k].got = rows[k].got /\ held[k].signedIn = rows[k].signedIn
           /\ StoredVersion(held[k].stored) = StoredVersion(rows[k].stored)
      /\ \A k \in DOMAIN held \ DOMAIN rows : held[k].got = {} /\ k = n
      /\ \A k \in DOMAIN held :
           held[k].signedIn => held[k].stored.resumable = FALSE /\ held[k].stored.browserOnly
      /\ c.version = StoredVersion(held[n].stored)
      /\ held[n].signedIn => p = "server" /\ c.browserOnly /\ held[n].got = {}
  <2>1. CASE r = 0
    <3>1. n = Len(rows) + 1 /\ c = x.config /\ held = Append(rows, Started(x.config, FALSE))
      BY <2>1
    <3> DEFINE a == Append(rows, Started(x.config, FALSE))
    <3>2. /\ a \in Seq(ScanRow) /\ DOMAIN a = 1 .. (Len(rows) + 1)
          /\ \A k \in DOMAIN rows : a[k] = rows[k]
          /\ a[Len(rows) + 1].got = {} /\ a[Len(rows) + 1].signedIn = FALSE
          /\ a[Len(rows) + 1].stored = x.config
      BY <1>5, StartedIs
    <3> HIDE DEF a
    <3>3. held = a
      BY <3>1 DEF a
    <3> HIDE DEF held, n, c
    <3>4. n \in DOMAIN held /\ DOMAIN rows \subseteq DOMAIN held /\ \A k \in DOMAIN held \ DOMAIN rows : k = n
      BY <1>7, <3>1, <3>2, <3>3
    <3>5. StoredVersion(x.config) = x.config.version
      BY <1>5, SettingsAssumption DEF StoredVersion
    <3>6. \A k \in DOMAIN rows : rows[k].signedIn => rows[k].stored.resumable = FALSE /\ rows[k].stored.browserOnly
      BY DEF SettingsIInv, SignedInFits
    <3>. QED  BY <1>5, <1>7, <3>1, <3>2, <3>3, <3>4, <3>5, <3>6
  <2>2. CASE r # 0
    <3>1. n = r /\ c = KeepVersion(r, x.config) /\ held = TakenOver(r, x.config) /\ r \in DOMAIN rows
      BY <1>6, <2>2
    <3> DEFINE t == TakenOver(r, x.config)
               k0 == KeepVersion(r, x.config)
    <3>2. /\ k0 \in Config /\ k0.version = StoredVersion(rows[r].stored) /\ k0.version \in Version
          /\ k0.resumable = x.config.resumable /\ k0.browserOnly = x.config.browserOnly
          /\ t \in Seq(ScanRow) /\ DOMAIN t = DOMAIN rows
          /\ \A k \in DOMAIN rows :
               /\ t[k].got = rows[k].got /\ t[k].signedIn = rows[k].signedIn
               /\ t[k].stored = (IF k = r THEN k0 ELSE rows[k].stored)
               /\ StoredVersion(t[k].stored) = StoredVersion(rows[k].stored)
      BY <1>5, <3>1, TakenOverIs
    <3> HIDE DEF t, k0
    <3>3. held = t /\ c = k0
      BY <3>1 DEF t, k0
    <3> HIDE DEF held, n, c
    <3>4. \A k \in DOMAIN rows : rows[k].signedIn => rows[k].stored.resumable = FALSE /\ rows[k].stored.browserOnly
      BY DEF SettingsIInv, SignedInFits
    <3>5. \A k \in DOMAIN t : t[k].signedIn => t[k].stored.resumable = FALSE /\ t[k].stored.browserOnly
      BY <1>6, <2>2, <3>2, <3>4
    <3>. QED  BY <1>6, <2>2, <3>1, <3>2, <3>3, <3>5
  <2>. QED  BY <2>1, <2>2
<1> HIDE DEF n, c, held
<1>9. /\ e \in ScanRow /\ e.got = held[n].got /\ e.signedIn = held[n].signedIn /\ e.stored = held[n].stored
  <2> DEFINE h == held[n]
             P == {q \in h.pending : InScope(c, q)} \cup ({Home} \ h.done)
  <2>1. h \in ScanRow
    BY <1>8, LenProperties
  <2>2. P \in SUBSET Page
    BY <2>1, SettingsAssumption DEF ScanRow
  <2>3. e = [h EXCEPT !.pending = P]
    OBVIOUS
  <2> HIDE DEF h, P, e
  <2>4. e \in ScanRow /\ e.got = h.got /\ e.signedIn = h.signedIn /\ e.stored = h.stored
    BY <2>1, <2>2, <2>3 DEF ScanRow
  <2>. QED  BY <2>4 DEF h
<1>10. rows' = [held EXCEPT ![n] = e]
  BY <1>3, <1>8
<1> HIDE DEF e
<1>11. /\ rows' \in Seq(ScanRow) /\ DOMAIN rows' = DOMAIN held
       /\ \A k \in DOMAIN held :
            /\ rows'[k].got = held[k].got /\ rows'[k].signedIn = held[k].signedIn
            /\ rows'[k].stored = held[k].stored
  <2> DEFINE h == [held EXCEPT ![n] = e]
  <2>1. /\ h \in Seq(ScanRow) /\ DOMAIN h = DOMAIN held
        /\ \A k \in DOMAIN held : h[k] = IF k = n THEN e ELSE held[k]
    BY <1>8, <1>9, RowExcept
  <2>2. rows' = h
    BY <1>10
  <2> HIDE DEF h
  <2>. QED  BY <1>9, <2>1, <2>2
<1>12. /\ used' \in Seq(Config) /\ DOMAIN used \subseteq DOMAIN used' /\ \A i \in DOMAIN used : used'[i] = used[i]
       /\ Len(used) + 1 \in DOMAIN used' /\ used'[Len(used) + 1] = c /\ Len(used) \in Nat
  <2>1. used \in Seq(Config) /\ Len(used) \in Nat /\ DOMAIN used = 1 .. Len(used)
    BY LenProperties DEF SettingsIInv, SettingsTypeOK
  <2>2. /\ used' \in Seq(Config) /\ Len(used') = Len(used) + 1
        /\ \A i \in 1 .. Len(used) : used'[i] = used[i]
        /\ used'[Len(used) + 1] = c
    BY <1>3, <1>8, <2>1, AppendProperties
  <2>3. DOMAIN used' = 1 .. (Len(used) + 1)
    BY <2>2, LenProperties
  <2>. QED  BY <2>1, <2>2, <2>3
<1>13. RowsKept
  BY <1>2, <1>8, <1>11, <1>12 DEF RowsKept
<1>14. n \in Nat
  BY <1>8, LenProperties
<1>15. /\ y \in Crawling /\ y # NotRunning /\ y.at = "crawling" /\ y.row = n /\ y.id = Len(used) + 1 /\ y.config = c
       /\ y.shown = x.shown
  <2>1. y \in Crawling /\ y.at = "crawling" /\ y.row = n /\ y.id = Len(used) + 1 /\ y.config = c /\ y.shown = x.shown
    <3>1. c \in Config /\ n \in Nat /\ Len(used) + 1 \in Nat /\ x \in Crawling
      BY <1>4, <1>8, <1>12, <1>14
    <3>. QED  BY <3>1 DEF Crawling
  <2> HIDE DEF y
  <2>. QED  BY <2>1 DEF NotRunning
<1> HIDE DEF y
<1>16. SettingsTypeOK'
  BY <1>2, <1>3, <1>11, <1>12, <1>15 DEF SettingsIInv, SettingsTypeOK, Crawling
<1>17. crawls'[p] = y /\ \A q \in Runner : q # p => crawls'[q] = crawls[q]
  BY <1>3 DEF SettingsIInv, SettingsTypeOK
<1>18. CrawlsFit'
  <2>1. CrawlFits(p)'
    BY <1>5, <1>8, <1>11, <1>12, <1>15, <1>17 DEF CrawlFits
  <2>. QED  BY <1>13, <1>17, <2>1, KeptHolds DEF CrawlsFit
<1>. QED  BY <1>13, <1>16, <1>18, KeptHolds DEF SettingsIInv

LEMMA VisitPageHolds == ASSUME SettingsIInv, VisitPage  PROVE SettingsIInv'
<1>1. PICK p \in Runner :
        /\ crawls[p].at = "crawling"
        /\ LET x == crawls[p]
               c == x.config
               r == x.row
           IN \E page \in rows[r].pending :
                IF InScope(c, page) /\ ~BlocksPage(c, page) /\ RobotsAllow(c, page)
                THEN \E way \in Fetch(c, page) :
                       rows' = [rows EXCEPT ![r].done = @ \cup {page}, ![r].got = @ \cup {<<x.id, page, way>>},
                                  ![r].pending = (@ \ {page}) \cup
                                     (IF way = "none" THEN {} ELSE Children(c, page, r))]
                ELSE rows' = [rows EXCEPT ![r].done = @ \cup {page}, ![r].pending = @ \ {page}]
  BY DEF VisitPage
<1>2. UNCHANGED <<crawls, used, robots>>
  BY DEF VisitPage
<1> DEFINE x == crawls[p]
           c == x.config
           r == x.row
<1>3. PICK page \in rows[r].pending :
        IF InScope(c, page) /\ ~BlocksPage(c, page) /\ RobotsAllow(c, page)
        THEN \E way \in Fetch(c, page) :
               rows' = [rows EXCEPT ![r].done = @ \cup {page}, ![r].got = @ \cup {<<x.id, page, way>>},
                          ![r].pending = (@ \ {page}) \cup
                             (IF way = "none" THEN {} ELSE Children(c, page, r))]
        ELSE rows' = [rows EXCEPT ![r].done = @ \cup {page}, ![r].pending = @ \ {page}]
  BY <1>1
<1>4. x # NotRunning /\ x.at = "crawling" /\ CrawlFits(p)
  <2>1. x.at = "crawling"
    BY <1>1, Zenon
  <2>. QED  BY <2>1 DEF SettingsIInv, CrawlsFit, NotRunning
<1>5. /\ r \in DOMAIN rows /\ x.id \in DOMAIN used /\ used[x.id] = c
      /\ c.version = StoredVersion(rows[r].stored)
      /\ rows[r].signedIn => p = "server" /\ c.browserOnly /\ \A g \in rows[r].got : g[1] = x.id
  BY <1>4 DEF CrawlFits
<1>6. /\ rows \in Seq(ScanRow) /\ rows[r] \in ScanRow /\ x.id \in Nat /\ page \in Page
      /\ rows[r].got \subseteq Nat \X Page \X {"plain", "browser", "none"}
  <2>1. /\ rows \in Seq(ScanRow) /\ rows[r] \in ScanRow
    BY <1>5, LenProperties DEF SettingsIInv, SettingsTypeOK
  <2>2. x.id \in Nat
    BY <1>5, LenProperties DEF SettingsIInv, SettingsTypeOK
  <2>. QED  BY <2>1, <2>2 DEF ScanRow
<1> HIDE DEF x, r, c
<1>7. PICK e \in ScanRow :
        /\ rows' = [rows EXCEPT ![r] = e] /\ e.stored = rows[r].stored /\ e.signedIn = rows[r].signedIn
        /\ \/ e.got = rows[r].got
           \/ /\ InScope(c, page) /\ ~BlocksPage(c, page) /\ RobotsAllow(c, page)
              /\ \E way \in Fetch(c, page) : e.got = rows[r].got \cup {<<x.id, page, way>>}
  <2>1. CASE InScope(c, page) /\ ~BlocksPage(c, page) /\ RobotsAllow(c, page)
    <3>1. PICK way \in Fetch(c, page) :
            rows' = [rows EXCEPT ![r].done = @ \cup {page}, ![r].got = @ \cup {<<x.id, page, way>>},
                       ![r].pending = (@ \ {page}) \cup
                          (IF way = "none" THEN {} ELSE Children(c, page, r))]
      BY <1>3, <2>1
    <3> DEFINE P == (rows[r].pending \ {page}) \cup (IF way = "none" THEN {} ELSE Children(c, page, r))
               G == rows[r].got \cup {<<x.id, page, way>>}
               e == [rows[r] EXCEPT !.done = @ \cup {page}, !.got = G, !.pending = P]
    <3>2. way \in {"plain", "browser", "none"}
      BY DEF Fetch, PlainFetch
    <3>3. P \in SUBSET Page /\ G \in SUBSET (Nat \X Page \X {"plain", "browser", "none"})
      BY <1>6, <3>2, SettingsAssumption DEF Children, ScanRow
    <3>4. rows' = [rows EXCEPT ![r] = e]
      BY <1>5, <3>1
    <3> HIDE DEF P, G
    <3>5. e \in ScanRow /\ e.stored = rows[r].stored /\ e.signedIn = rows[r].signedIn /\ e.got = G
      BY <1>6, <3>3 DEF ScanRow
    <3> HIDE DEF e
    <3>. QED  BY <2>1, <3>4, <3>5 DEF G
  <2>2. CASE ~ (InScope(c, page) /\ ~BlocksPage(c, page) /\ RobotsAllow(c, page))
    <3> DEFINE e == [rows[r] EXCEPT !.done = @ \cup {page}, !.pending = @ \ {page}]
    <3>1. rows' = [rows EXCEPT ![r] = e]
      BY <1>3, <1>5, <2>2
    <3>2. e \in ScanRow /\ e.stored = rows[r].stored /\ e.signedIn = rows[r].signedIn /\ e.got = rows[r].got
      BY <1>6 DEF ScanRow
    <3> HIDE DEF e
    <3>. QED  BY <3>1, <3>2
  <2>. QED  BY <2>1, <2>2
<1>8. /\ rows' \in Seq(ScanRow) /\ DOMAIN rows' = DOMAIN rows
      /\ \A k \in DOMAIN rows : rows'[k] = IF k = r THEN e ELSE rows[k]
  <2> DEFINE h == [rows EXCEPT ![r] = e]
  <2>1. /\ h \in Seq(ScanRow) /\ DOMAIN h = DOMAIN rows
        /\ \A k \in DOMAIN rows : h[k] = IF k = r THEN e ELSE rows[k]
    BY <1>5, <1>6, RowExcept
  <2>2. rows' = h
    BY <1>7
  <2> HIDE DEF h
  <2>. QED  BY <2>1, <2>2
<1>9. SettingsTypeOK'
  BY <1>2, <1>8 DEF SettingsIInv, SettingsTypeOK
<1>10. \A k \in DOMAIN rows : \A g \in rows'[k].got :
         \/ g \in rows[k].got
         \/ /\ k = r /\ InScope(c, page) /\ ~BlocksPage(c, page) /\ RobotsAllow(c, page)
            /\ g[1] = x.id /\ g[2] = page /\ g[3] \in Fetch(c, page)
  <2> SUFFICES ASSUME NEW k \in DOMAIN rows, NEW g \in rows'[k].got, g \notin rows[k].got
               PROVE  /\ k = r /\ InScope(c, page) /\ ~BlocksPage(c, page) /\ RobotsAllow(c, page)
                      /\ g[1] = x.id /\ g[2] = page /\ g[3] \in Fetch(c, page)
    OBVIOUS
  <2>1. k = r
    BY <1>8
  <2>2. g \in e.got /\ e.got # rows[r].got
    BY <1>8, <2>1
  <2>3. PICK way \in Fetch(c, page) : e.got = rows[r].got \cup {<<x.id, page, way>>}
    BY <1>7, <2>2
  <2>4. g = <<x.id, page, way>>
    BY <2>1, <2>2, <2>3
  <2>. QED  BY <1>7, <2>1, <2>2, <2>4
<1>11. \A k \in DOMAIN rows : rows'[k].stored = rows[k].stored /\ rows'[k].signedIn = rows[k].signedIn
  BY <1>7, <1>8
<1>12. GotFits'
  <2> SUFFICES ASSUME NEW k \in DOMAIN rows, NEW g \in rows'[k].got
               PROVE  /\ g[1] \in DOMAIN used
                      /\ used[g[1]].version = StoredVersion(rows'[k].stored)
                      /\ InScope(used[g[1]], g[2]) /\ ~BlocksPage(used[g[1]], g[2])
                      /\ RobotsAllow(used[g[1]], g[2])
    BY <1>2, <1>8 DEF GotFits, RobotsAllow
  <2>1. CASE g \in rows[k].got
    BY <1>11, <2>1 DEF SettingsIInv, GotFits
  <2>2. CASE g \notin rows[k].got
    BY <1>5, <1>10, <1>11, <2>2
  <2>. QED  BY <2>1, <2>2
<1>13. SignedInFits'
  <2> SUFFICES ASSUME NEW k \in DOMAIN rows, rows[k].signedIn
               PROVE  /\ rows[k].stored.resumable = FALSE /\ rows[k].stored.browserOnly
                      /\ \A g, h \in rows'[k].got : g[1] = h[1]
                      /\ \A g \in rows'[k].got : g[3] # "plain" /\ used[g[1]].browserOnly
    BY <1>2, <1>8, <1>11 DEF SignedInFits
  <2>1. /\ rows[k].stored.resumable = FALSE /\ rows[k].stored.browserOnly
        /\ \A g, h \in rows[k].got : g[1] = h[1]
        /\ \A g \in rows[k].got : g[3] # "plain" /\ used[g[1]].browserOnly
    BY DEF SettingsIInv, SignedInFits
  <2>2. CASE k = r
    <3>1. c.browserOnly /\ "plain" \notin Fetch(c, page)
      BY <1>5, <2>2 DEF Fetch
    <3>2. \A g \in rows'[k].got : g[1] = x.id
      BY <1>5, <1>10, <2>2
    <3>3. \A g \in rows'[k].got : g[3] # "plain" /\ used[g[1]].browserOnly
      BY <1>5, <1>10, <2>1, <3>1
    <3>. QED  BY <2>1, <3>2, <3>3
  <2>3. CASE k # r
    BY <1>10, <2>1, <2>3
  <2>. QED  BY <2>2, <2>3
<1>14. CrawlsFit'
  <2> SUFFICES ASSUME NEW q \in Runner  PROVE CrawlFits(q)'
    BY DEF CrawlsFit
  <2>1. CrawlFits(q)
    BY DEF SettingsIInv, CrawlsFit
  <2>2. CASE q = p
    BY <1>2, <1>4, <1>8, <1>10, <1>11, <2>1, <2>2 DEF CrawlFits, x, r
  <2>3. CASE q # p
    <3>1. ASSUME crawls[q] # NotRunning, crawls[q].row \in DOMAIN rows, rows[crawls[q].row].signedIn,
                 crawls[q].at \in {"asked", "crawling"}, crawls[q].row # 0
          PROVE  crawls[q].row # r
      BY <1>5, <2>1, <2>3, <3>1 DEF CrawlFits
    <3>2. \A k \in DOMAIN rows : k # r => rows'[k] = rows[k]
      BY <1>8
    <3>3. 0 \notin DOMAIN rows
      BY <1>6, LenProperties
    <3>. QED  BY <1>2, <1>8, <1>11, <2>1, <3>1, <3>2, <3>3 DEF CrawlFits
  <2>. QED  BY <2>2, <2>3
<1>. QED  BY <1>9, <1>12, <1>13, <1>14 DEF SettingsIInv

\* A row whose status changes, or that loses its work.
LEMMA StatusIs ==
  ASSUME NEW q \in Seq(ScanRow), NEW r \in DOMAIN q,
         NEW st \in {"running", "interrupted", "completed", "failed"}
  PROVE  /\ AsBefore([q EXCEPT ![r].status = st], q)
         /\ AsBefore([q EXCEPT ![r].status = st, ![r].pending = {}], q)
<1>1. q[r] \in ScanRow
  BY LenProperties
<1>2. ASSUME NEW e \in ScanRow, e.got = q[r].got, e.signedIn = q[r].signedIn, e.stored = q[r].stored
      PROVE  AsBefore([q EXCEPT ![r] = e], q)
  <2> DEFINE h == [q EXCEPT ![r] = e]
  <2>1. /\ h \in Seq(ScanRow) /\ DOMAIN h = DOMAIN q
        /\ \A k \in DOMAIN q : h[k] = IF k = r THEN e ELSE q[k]
    BY RowExcept
  <2> HIDE DEF h
  <2>2. \A k \in DOMAIN q : h[k].got = q[k].got /\ h[k].signedIn = q[k].signedIn /\ h[k].stored = q[k].stored
    BY <1>2, <2>1
  <2>3. AsBefore(h, q)
    BY <2>1, <2>2 DEF AsBefore
  <2>. QED  BY <2>3 DEF h
<1> DEFINE e == [q[r] EXCEPT !.status = st]
           f == [q[r] EXCEPT !.status = st, !.pending = {}]
<1>3. /\ e \in ScanRow /\ e.got = q[r].got /\ e.signedIn = q[r].signedIn /\ e.stored = q[r].stored
      /\ f \in ScanRow /\ f.got = q[r].got /\ f.signedIn = q[r].signedIn /\ f.stored = q[r].stored
  BY <1>1 DEF ScanRow
<1>4. /\ [q EXCEPT ![r].status = st] = [q EXCEPT ![r] = e]
      /\ [q EXCEPT ![r].status = st, ![r].pending = {}] = [q EXCEPT ![r] = f]
  OBVIOUS
<1> HIDE DEF e, f
<1>5. AsBefore([q EXCEPT ![r] = e], q)
  BY <1>2, <1>3
<1>6. AsBefore([q EXCEPT ![r] = f], q)
  BY <1>2, <1>3
<1>. QED  BY <1>4, <1>5, <1>6, Zenon

LEMMA EngineGoneHolds == ASSUME SettingsIInv, EngineGone  PROVE SettingsIInv'
<1> DEFINE x == crawls["server"]
           S == {k \in DOMAIN rows : rows[k].status = "running"}
           r == IF x.config.browserOnly THEN x.row ELSE LatestOf(S)
<1>1. /\ x.at = "crawling" /\ UNCHANGED <<used, robots>>
      /\ rows' = IF r = 0 THEN rows ELSE [rows EXCEPT ![r].status = "failed"]
      /\ crawls' = [crawls EXCEPT !["server"] = NotRunning] /\ "server" \in Runner
  BY DEF EngineGone, Runner
<1>2. x.row \in DOMAIN rows /\ rows \in Seq(ScanRow)
  <2>1. x # NotRunning
    BY <1>1 DEF NotRunning
  <2>. QED  BY <1>1, <2>1 DEF SettingsIInv, SettingsTypeOK, CrawlsFit, CrawlFits
<1>3. r = 0 \/ r \in DOMAIN rows
  BY <1>2, LatestIs
<1> HIDE DEF r
<1>4. AsBefore(rows', rows)
  <2>1. CASE r = 0
    BY <1>1, <1>2, <2>1 DEF AsBefore
  <2>2. CASE r # 0
    <3>1. r \in DOMAIN rows /\ rows' = [rows EXCEPT ![r].status = "failed"]
      BY <1>1, <1>3, <2>2
    <3>. QED  BY <1>2, <3>1, StatusIs, Zenon
  <2>. QED  BY <2>1, <2>2
<1>. QED  BY <1>1, <1>4, EndsHolds

LEMMA EndHolds == ASSUME SettingsIInv, End  PROVE SettingsIInv'
<1>1. PICK p \in Runner :
        /\ crawls[p].at = "crawling" /\ (rows[crawls[p].row].pending = {} \/ LimitReached(crawls[p]))
        /\ rows' = [rows EXCEPT ![crawls[p].row].status = "completed"]
        /\ crawls' = [crawls EXCEPT ![p] = NotRunning]
  BY DEF End
<1>2. crawls[p].row \in DOMAIN rows /\ rows \in Seq(ScanRow)
  <2>1. crawls[p] # NotRunning
    BY <1>1 DEF NotRunning
  <2>. QED  BY <1>1, <2>1 DEF SettingsIInv, SettingsTypeOK, CrawlsFit, CrawlFits
<1>3. AsBefore(rows', rows)
  BY <1>1, <1>2, StatusIs, Zenon
<1>4. UNCHANGED <<used, robots>>
  BY DEF End
<1>. QED  BY <1>1, <1>3, <1>4, EndsHolds

LEMMA InterruptCrawlHolds == ASSUME SettingsIInv, InterruptCrawl  PROVE SettingsIInv'
<1>1. PICK p \in Runner :
       /\ crawls[p] # NotRunning
       /\ LET x == crawls[p]
              ended == IF x.at = "crawling" THEN [rows EXCEPT ![x.row].status = "interrupted"] ELSE rows
          IN rows' = IF p = "server" /\ rows[x.shown].status = "running"
                     THEN [ended EXCEPT ![x.shown].status = "interrupted", ![x.shown].pending = {}]
                     ELSE ended
       /\ crawls' = [crawls EXCEPT ![p] = NotRunning]
  BY DEF InterruptCrawl
<1> DEFINE x == crawls[p]
           ended == IF x.at = "crawling" THEN [rows EXCEPT ![x.row].status = "interrupted"] ELSE rows
<1>2. /\ rows \in Seq(ScanRow) /\ (p = "server" => x.shown \in DOMAIN rows)
      /\ (x.at = "crawling" => x.row \in DOMAIN rows)
  BY <1>1 DEF SettingsIInv, SettingsTypeOK, CrawlsFit, CrawlFits
<1>3. rows' = IF p = "server" /\ rows[x.shown].status = "running"
              THEN [ended EXCEPT ![x.shown].status = "interrupted", ![x.shown].pending = {}]
              ELSE ended
  BY <1>1
<1>4. AsBefore(ended, rows)
  <2>1. CASE x.at = "crawling"
    <3>1. ended = [rows EXCEPT ![x.row].status = "interrupted"] /\ x.row \in DOMAIN rows
      BY <1>2, <2>1
    <3> HIDE DEF ended, x
    <3>. QED  BY <1>2, <3>1, StatusIs, Zenon
  <2>2. CASE x.at # "crawling"
    BY <1>2, <2>2 DEF AsBefore
  <2>. QED  BY <2>1, <2>2
<1> HIDE DEF ended, x
<1>5. AsBefore(rows', ended)
  <2>1. CASE p = "server" /\ rows[x.shown].status = "running"
    <3>1. x.shown \in DOMAIN ended /\ rows' = [ended EXCEPT ![x.shown].status = "interrupted", ![x.shown].pending = {}]
      BY <1>2, <1>3, <1>4, <2>1 DEF AsBefore
    <3>2. ended \in Seq(ScanRow)
      BY <1>4 DEF AsBefore
    <3>. QED  BY <3>1, <3>2, StatusIs, Zenon
  <2>2. CASE ~ (p = "server" /\ rows[x.shown].status = "running")
    BY <1>3, <1>4, <2>2 DEF AsBefore
  <2>. QED  BY <2>1, <2>2
<1>6. UNCHANGED <<used, robots>>
  BY DEF InterruptCrawl
<1>7. AsBefore(rows', rows)
  BY <1>4, <1>5 DEF AsBefore
<1>. QED  BY <1>1, <1>5, <1>6, <1>7, EndsHolds

LEMMA DiesHolds == ASSUME SettingsIInv, Dies  PROVE SettingsIInv'
<1>1. AsBefore(rows', rows)
  BY DEF AsBefore, Dies, SettingsIInv, SettingsTypeOK
<1>. QED  BY <1>1, EndsHolds DEF Dies

LEMMA SettingsNextHolds == SettingsIInv /\ [SettingsNext]_settingsVars => SettingsIInv'
<1> SUFFICES ASSUME SettingsIInv, [SettingsNext]_settingsVars  PROVE SettingsIInv'
  OBVIOUS
<1>1. CASE UNCHANGED settingsVars
  <2>1. AsBefore(rows', rows)
    BY <1>1 DEF AsBefore, settingsVars, SettingsIInv, SettingsTypeOK
  <2>. QED  BY <1>1, <2>1, EndsHolds DEF settingsVars
<1>2. CASE SettingsNext
  BY <1>2, AskHolds, AskAsSignedInHolds, AskOnCommandLineHolds, BeginCrawlHolds, EngineGoneHolds,
     VisitPageHolds, EndHolds, InterruptCrawlHolds, DiesHolds DEF SettingsNext
<1>. QED  BY <1>1, <1>2

-----------------------------------------------------------------------------
(* What is read back of the settings *)

LEMMA LimitsFit ==
  ASSUME NEW f \in Form, ~LimitRefused(f)
  PROVE  \/ f.all /\ Build(f).limit = Boundless
         \/ ~f.all /\ Build(f).limit \in 1 .. MaxLimit
<1>1. MaxLimit \in Nat /\ DefaultLimit \in 1 .. MaxLimit
  BY SettingsAssumption
<1>2. CASE f.all
  BY <1>2 DEF Build
<1>3. CASE ~f.all
  <2>1. Build(f).limit = IF f.limit = Missing THEN DefaultLimit ELSE f.limit
    BY <1>3 DEF Build
  <2>. QED  BY <1>1, <1>3, <2>1 DEF LimitRefused
<1>. QED  BY <1>2, <1>3

\* The form that the settings of a public scan are read back as has the same engines
\* and, where they may be asked for, skips the same probes.
LEMMA ReadBackIs ==
  ASSUME NEW f \in Form, ~LimitRefused(f), NEW c \in Config,
         c.methods \subseteq Check, c.methods \cap {"axe", "alfa"} = f.engine,
         "interaction" \in c.methods => "interaction" \notin f.skip,
         "keyboard" \in c.methods <=> "keyboard" \notin f.skip,
         c.version = f.version, c.wide = f.wide, c.limit = Build(f).limit
  PROVE  /\ ReadBack(c) \in Form /\ ReadBack(c).engine = f.engine /\ ReadBack(c).static = ~c.eager
         /\ ReadBack(c).version = f.version /\ ReadBack(c).wide = f.wide /\ ReadBack(c).all = f.all
         /\ ReadBack(c).ignoreRobots = c.ignoreRobots
         /\ ~LimitRefused(ReadBack(c)) /\ Build(ReadBack(c)).limit = c.limit
         /\ ReadBack(c).skip = {"interaction", "keyboard"} \ c.methods
<1>1. /\ f.version \in Version /\ f.all \in BOOLEAN /\ f.wide \in BOOLEAN /\ f.engine # {} /\ c.eager \in BOOLEAN
      /\ c.ignoreRobots \in BOOLEAN
  BY DEF Form, Config
<1>2. /\ MaxLimit \in Nat /\ DefaultLimit \in 1 .. MaxLimit /\ Boundless \notin Nat
      /\ Missing \notin Version /\ Missing \notin Nat
  BY SettingsAssumption
<1> DEFINE b == ReadBack(c)
<1>3. /\ b.engine = (IF "alfa" \in c.methods THEN c.methods \cap {"axe", "alfa"} ELSE {"axe"})
      /\ b.static = (~c.eager) /\ b.skip = {"interaction", "keyboard"} \ c.methods
      /\ b.version = StoredVersion(c) /\ b.wide = c.wide /\ b.ignoreRobots = c.ignoreRobots
      /\ b.all = (c.limit = Boundless) /\ b.limit = (IF c.limit \in Nat THEN c.limit ELSE DefaultLimit)
      /\ DOMAIN b = {"engine", "static", "skip", "version", "wide", "ignoreRobots", "all", "limit"}
  BY DEF ReadBack
<1>4. b.engine = f.engine
  <2>1. CASE "alfa" \in c.methods
    BY <1>3, <2>1
  <2>2. CASE "alfa" \notin c.methods
    <3>1. \A e \in f.engine : e = "axe"
      BY <2>2
    <3>2. f.engine = {"axe"}
      BY <1>1, <3>1
    <3>. QED  BY <1>3, <2>2, <3>2
  <2>. QED  BY <2>1, <2>2
<1>5. b.version = f.version
  BY <1>1, <1>2, <1>3 DEF StoredVersion
<1>6. b.all = f.all /\ b.limit \in 1 .. MaxLimit /\ (~f.all => b.limit = c.limit)
  <2>1. CASE f.all /\ c.limit = Boundless
    BY <1>2, <1>3, <2>1
  <2>2. CASE ~f.all /\ c.limit \in 1 .. MaxLimit
    BY <1>1, <1>2, <1>3, <2>2
  <2>. QED  BY <2>1, <2>2, LimitsFit
<1>7. b \in Form
  <2>1. f.engine \in (SUBSET {"axe", "alfa"}) \ {{}}
    BY DEF Form
  <2>2. b.limit \in (0 .. MaxLimit + 1) \cup {Missing}
    BY <1>2, <1>6
  <2>3. b.all \in BOOLEAN /\ b.wide \in BOOLEAN /\ b.static \in BOOLEAN /\ b.ignoreRobots \in BOOLEAN
    BY <1>1, <1>3, <1>6
  <2>4. b.skip \in SUBSET {"interaction", "keyboard"} /\ b.version \in Version /\ b.engine \in (SUBSET {"axe", "alfa"}) \ {{}}
    BY <1>1, <1>3, <1>4, <1>5, <2>1
  <2>. QED  BY <2>2, <2>3, <2>4 DEF Form, ReadBack
<1>8. ~LimitRefused(b)
  BY <1>6 DEF LimitRefused
<1>9. Build(b).limit = c.limit
  <2>1. Build(b).limit = IF b.all THEN Boundless ELSE IF b.limit = Missing THEN DefaultLimit ELSE b.limit
    BY DEF Build
  <2>2. CASE f.all
    <3>1. c.limit = Boundless
      BY <2>2, LimitsFit
    <3>. QED  BY <1>6, <2>1, <2>2, <3>1
  <2>3. CASE ~f.all
    <3>1. b.limit # Missing
      BY <1>2, <1>6
    <3>. QED  BY <1>6, <2>1, <2>3, <3>1
  <2>. QED  BY <1>1, <2>2, <2>3
<1>. QED  BY <1>3, <1>4, <1>5, <1>6, <1>7, <1>8, <1>9

\* The settings are those of the form.
LEMMA BuildIs ==
  ASSUME NEW f \in Form
  PROVE  /\ Build(f).methods = f.engine \cup (IF f.static \/ "axe" \notin f.engine THEN {} ELSE {"interaction"} \ f.skip)
                                 \cup ({"keyboard"} \ f.skip)
         /\ Build(f).methods \subseteq Check /\ Build(f).methods \cap {"axe", "alfa"} = f.engine
         /\ "interaction" \in Build(f).methods <=> ~f.static /\ "axe" \in f.engine /\ "interaction" \notin f.skip
         /\ "keyboard" \in Build(f).methods <=> "keyboard" \notin f.skip
         /\ Build(f).eager = ~f.static /\ Build(f).version = f.version /\ Build(f).wide = f.wide
         /\ Build(f).ignoreRobots = f.ignoreRobots /\ Build(f).blocks = TRUE /\ Build(f).resumable = TRUE
         /\ Build(f).browserOnly = FALSE
<1> DEFINE m == f.engine \cup (IF f.static \/ "axe" \notin f.engine THEN {} ELSE {"interaction"} \ f.skip)
                 \cup ({"keyboard"} \ f.skip)
<1>1. f.engine \subseteq {"axe", "alfa"} /\ f.skip \subseteq {"interaction", "keyboard"}
  BY DEF Form
<1>2. \A k : k \in m <=> \/ k \in f.engine
                         \/ k = "interaction" /\ ~f.static /\ "axe" \in f.engine /\ "interaction" \notin f.skip
                         \/ k = "keyboard" /\ "keyboard" \notin f.skip
  BY <1>1
<1> HIDE DEF m
<1>3. \A k : k \in m \cap {"axe", "alfa"} <=> k \in f.engine
  BY <1>1, <1>2
<1>4. m \cap {"axe", "alfa"} = f.engine
  BY <1>3, Zenon
<1>5. m \subseteq Check
  BY <1>1, <1>2 DEF Check
<1>6. /\ "interaction" \in m <=> ~f.static /\ "axe" \in f.engine /\ "interaction" \notin f.skip
      /\ "keyboard" \in m <=> "keyboard" \notin f.skip
  BY <1>1, <1>2
<1>7. Build(f).methods = m
  BY DEF Build, m
<1>. QED  BY <1>4, <1>5, <1>6, <1>7 DEF Build, m
LEMMA ConfigsEqual ==
  ASSUME NEW c \in Config, NEW d \in Config, \A k : k \in c.methods <=> k \in d.methods,
         c.eager <=> d.eager, c.version = d.version, c.wide = d.wide, c.ignoreRobots = d.ignoreRobots,
         c.blocks = d.blocks, c.limit = d.limit, c.resumable = d.resumable, c.browserOnly = d.browserOnly
  PROVE  c = d
<1>1. c.methods = d.methods
  BY Zenon
<1>2. c.eager = d.eager
  BY DEF Config
<1>. QED  BY <1>1, <1>2 DEF Config

\* Settings with the checks and the limit of a form, as the sign-in form gives them.
LEMMA BuildSignedInIs ==
  ASSUME NEW f \in Form
  PROVE  /\ [f EXCEPT !.static = FALSE] \in Form
         /\ BuildSignedIn(f).methods = Build([f EXCEPT !.static = FALSE]).methods
         /\ BuildSignedIn(f).methods \subseteq Check
         /\ BuildSignedIn(f).methods \cap {"axe", "alfa"} = f.engine
         /\ "interaction" \in BuildSignedIn(f).methods <=> "axe" \in f.engine /\ "interaction" \notin f.skip
         /\ "keyboard" \in BuildSignedIn(f).methods <=> "keyboard" \notin f.skip
         /\ BuildSignedIn(f).limit = Build(f).limit /\ BuildSignedIn(f).version = f.version
         /\ BuildSignedIn(f).wide = f.wide /\ BuildSignedIn(f).eager = TRUE
         /\ BuildSignedIn(f).ignoreRobots = TRUE /\ BuildSignedIn(f).blocks = TRUE
         /\ BuildSignedIn(f).resumable = FALSE /\ BuildSignedIn(f).browserOnly = TRUE
<1> DEFINE e == [f EXCEPT !.static = FALSE]
           b == Build(e)
<1>1. /\ e \in Form /\ e.static = FALSE /\ e.engine = f.engine /\ e.skip = f.skip /\ e.version = f.version
      /\ e.wide = f.wide /\ e.all = f.all /\ e.limit = f.limit
  BY DEF Form
<1>2. b.limit = Build(f).limit
  BY <1>1 DEF Build
<1>3. BuildSignedIn(f) = [b EXCEPT !.ignoreRobots = TRUE, !.resumable = FALSE, !.browserOnly = TRUE]
  BY DEF BuildSignedIn
<1>4. b \in Config
  BY <1>1, FormsFit
<1> HIDE DEF e
<1>5. /\ b.methods \subseteq Check /\ b.methods \cap {"axe", "alfa"} = f.engine
      /\ "interaction" \in b.methods <=> "axe" \in f.engine /\ "interaction" \notin f.skip
      /\ "keyboard" \in b.methods <=> "keyboard" \notin f.skip
      /\ b.eager = TRUE /\ b.version = f.version /\ b.wide = f.wide /\ b.blocks = TRUE
  BY <1>1, BuildIs
<1> HIDE DEF b
<1>6. /\ BuildSignedIn(f).methods = b.methods /\ BuildSignedIn(f).limit = b.limit
      /\ BuildSignedIn(f).version = b.version /\ BuildSignedIn(f).wide = b.wide
      /\ BuildSignedIn(f).eager = b.eager /\ BuildSignedIn(f).blocks = b.blocks
      /\ BuildSignedIn(f).ignoreRobots = TRUE /\ BuildSignedIn(f).resumable = FALSE
      /\ BuildSignedIn(f).browserOnly = TRUE
  BY <1>3, <1>4 DEF Config
<1>. QED  BY <1>1, <1>2, <1>5, <1>6 DEF b, e

\* The engines a scan is given are those that its settings name, as long as
\* click-through is named with axe only.
LEMMA EnginesAre ==
  ASSUME NEW c, c.methods \subseteq Check, "interaction" \in c.methods => "axe" \in c.methods
  PROVE  Engines(c, TRUE) = c.methods /\ EnginesSignedIn(c) = c.methods
<1>1. \A k : k \in Engines(c, TRUE) <=> k \in c.methods
  BY DEF Engines, Check
<1>2. \A k : k \in EnginesSignedIn(c) <=> k \in c.methods
  BY DEF EnginesSignedIn, Check
<1>. QED  BY <1>1, <1>2, Zenon

LEMMA RetryHolds == RetryIsTheSame
<1> SUFFICES ASSUME NEW f \in Form, ~FormRefused(f, TRUE)
    PROVE  /\ ~FormRefused(ReadBack(Build(f)), TRUE) /\ Build(ReadBack(Build(f))) = Build(f)
           /\ BuildSignedIn(ReadBack(BuildSignedIn(f))) = BuildSignedIn(f)
           /\ Mode(Build(f)) = "public"
           /\ Engines(Build(f), TRUE) = Build(f).methods
           /\ ~SignInRefused(f) => EnginesSignedIn(BuildSignedIn(f)) = Engines(Build([f EXCEPT !.static = FALSE]), TRUE)
  BY DEF RetryIsTheSame
<1>1. ~LimitRefused(f) /\ ~(f.static /\ "axe" \in f.engine)
  BY DEF FormRefused
<1> DEFINE c == Build(f)
           b == ReadBack(c)
           d == BuildSignedIn(f)
           g == ReadBack(d)
           e == [f EXCEPT !.static = FALSE]
<1>2. /\ c \in Config /\ c.methods \subseteq Check /\ c.methods \cap {"axe", "alfa"} = f.engine
      /\ "interaction" \in c.methods <=> ~f.static /\ "axe" \in f.engine /\ "interaction" \notin f.skip
      /\ "keyboard" \in c.methods <=> "keyboard" \notin f.skip
      /\ c.eager = ~f.static /\ c.version = f.version /\ c.wide = f.wide /\ c.ignoreRobots = f.ignoreRobots
      /\ c.blocks = TRUE /\ c.resumable = TRUE /\ c.browserOnly = FALSE
  BY BuildIs, FormsFit
<1>3. /\ d \in Config /\ d.methods \subseteq Check /\ d.methods \cap {"axe", "alfa"} = f.engine
      /\ "interaction" \in d.methods <=> "axe" \in f.engine /\ "interaction" \notin f.skip
      /\ "keyboard" \in d.methods <=> "keyboard" \notin f.skip
      /\ d.limit = c.limit /\ d.version = f.version /\ d.wide = f.wide /\ d.eager = TRUE
      /\ d.ignoreRobots = TRUE /\ d.blocks = TRUE /\ d.resumable = FALSE /\ d.browserOnly = TRUE
      /\ e \in Form /\ d.methods = Build(e).methods
  BY BuildSignedInIs, FormsFit
<1>4. /\ b \in Form /\ b.engine = f.engine /\ b.static = ~c.eager /\ b.version = f.version /\ b.wide = f.wide
      /\ b.ignoreRobots = c.ignoreRobots /\ ~LimitRefused(b) /\ Build(b).limit = c.limit
      /\ b.skip = {"interaction", "keyboard"} \ c.methods
  BY <1>1, <1>2, ReadBackIs
<1>5. /\ g \in Form /\ g.engine = f.engine /\ g.version = f.version /\ g.wide = f.wide
      /\ Build(g).limit = d.limit /\ g.skip = {"interaction", "keyboard"} \ d.methods
  BY <1>1, <1>3, ReadBackIs
<1>6. f.static \in BOOLEAN /\ f.engine \subseteq {"axe", "alfa"} /\ b.static \in BOOLEAN
  BY <1>4 DEF Form
<1> HIDE DEF b, c, d, e, g
<1>7. ~FormRefused(b, TRUE)
  BY <1>1, <1>2, <1>4, <1>6 DEF FormRefused
<1>8. Build(b) = c
  <2> DEFINE a == Build(b)
  <2>1. /\ a \in Config /\ a.methods \subseteq Check /\ a.methods \cap {"axe", "alfa"} = b.engine
        /\ "interaction" \in a.methods <=> ~b.static /\ "axe" \in b.engine /\ "interaction" \notin b.skip
        /\ "keyboard" \in a.methods <=> "keyboard" \notin b.skip
        /\ a.eager = ~b.static /\ a.version = b.version /\ a.wide = b.wide /\ a.ignoreRobots = b.ignoreRobots
        /\ a.blocks = TRUE /\ a.resumable = TRUE /\ a.browserOnly = FALSE /\ a.limit = c.limit
    BY <1>4, BuildIs, FormsFit
  <2> HIDE DEF a
  <2>2. "interaction" \in a.methods <=> "interaction" \in c.methods
    BY <1>2, <1>4, <1>6, <2>1
  <2>3. "keyboard" \in a.methods <=> "keyboard" \in c.methods
    BY <1>4, <2>1
  <2>4. \A k \in {"axe", "alfa"} : k \in a.methods <=> k \in c.methods
    BY <1>2, <1>4, <2>1
  <2>5. \A k : k \in a.methods <=> k \in c.methods
    BY <1>2, <2>1, <2>2, <2>3, <2>4 DEF Check
  <2>6. a.eager <=> c.eager
    BY <1>2, <1>4, <1>6, <2>1
  <2>7. a = c
    BY <1>2, <1>4, <2>1, <2>5, <2>6, ConfigsEqual
  <2>. QED  BY <2>7 DEF a
<1>9. BuildSignedIn(g) = d
  <2> DEFINE a == BuildSignedIn(g)
  <2>1. /\ a \in Config /\ a.methods \subseteq Check /\ a.methods \cap {"axe", "alfa"} = g.engine
        /\ "interaction" \in a.methods <=> "axe" \in g.engine /\ "interaction" \notin g.skip
        /\ "keyboard" \in a.methods <=> "keyboard" \notin g.skip
        /\ a.eager = TRUE /\ a.version = g.version /\ a.wide = g.wide /\ a.ignoreRobots = TRUE
        /\ a.blocks = TRUE /\ a.resumable = FALSE /\ a.browserOnly = TRUE /\ a.limit = Build(g).limit
    BY <1>5, BuildSignedInIs, FormsFit
  <2> HIDE DEF a
  <2>2. "interaction" \in a.methods <=> "interaction" \in d.methods
    BY <1>3, <1>5, <2>1
  <2>3. "keyboard" \in a.methods <=> "keyboard" \in d.methods
    BY <1>5, <2>1
  <2>4. \A k \in {"axe", "alfa"} : k \in a.methods <=> k \in d.methods
    BY <1>3, <1>5, <2>1
  <2>5. \A k : k \in a.methods <=> k \in d.methods
    BY <1>3, <2>1, <2>2, <2>3, <2>4 DEF Check
  <2>6. a = d
    BY <1>3, <1>5, <2>1, <2>5, ConfigsEqual
  <2>. QED  BY <2>6 DEF a
<1>10. Mode(c) = "public"
  BY <1>2 DEF Mode
<1>11. Engines(c, TRUE) = c.methods
  <2>1. "interaction" \in c.methods => "axe" \in c.methods
    BY <1>2
  <2>. QED  BY <1>2, <2>1, EnginesAre
<1>12. EnginesSignedIn(d) = Engines(Build(e), TRUE)
  <2>1. "interaction" \in d.methods => "axe" \in d.methods
    BY <1>3
  <2>2. EnginesSignedIn(d) = d.methods
    BY <1>3, <2>1, EnginesAre
  <2>3. Engines(Build(e), TRUE) = Build(e).methods
    BY <1>3, <2>1, EnginesAre
  <2>. QED  BY <1>3, <2>2, <2>3
<1>. QED  BY <1>7, <1>8, <1>9, <1>10, <1>11, <1>12 DEF b, c, d, e, g

-----------------------------------------------------------------------------
LEMMA SettingsIsSafe == SettingsIInv => OneVersion /\ SignedInIsAlone /\ OnlyAsAsked
<1> SUFFICES ASSUME SettingsIInv  PROVE OneVersion /\ SignedInIsAlone /\ OnlyAsAsked
  OBVIOUS
<1>1. OneVersion /\ OnlyAsAsked
  BY DEF SettingsIInv, GotFits, OneVersion, OnlyAsAsked
<1>2. SignedInIsAlone
  <2> SUFFICES ASSUME NEW r \in DOMAIN rows, rows[r].signedIn
               PROVE  /\ Cardinality({g[1] : g \in rows[r].got}) <= 1
                      /\ \A g \in rows[r].got : g[3] # "plain" /\ used[g[1]].browserOnly
                      /\ Mode(rows[r].stored) = "login"
    BY DEF SignedInIsAlone
  <2>1. /\ rows[r].stored.resumable = FALSE /\ rows[r].stored.browserOnly
        /\ \A g, h \in rows[r].got : g[1] = h[1]
        /\ \A g \in rows[r].got : g[3] # "plain" /\ used[g[1]].browserOnly
    BY DEF SettingsIInv, SignedInFits
  <2> DEFINE S == {g[1] : g \in rows[r].got}
  <2>2. Cardinality(S) <= 1
    <3>1. CASE S = {}
      <4>1. Cardinality({}) = 0
        BY FS_EmptySet
      <4>2. Cardinality(S) = 0
        BY <3>1, <4>1, Zenon
      <4>. QED  BY <4>2
    <3>2. CASE S # {}
      <4>1. PICK a \in S : TRUE
        BY <3>2
      <4>2. S = {a}
        BY <2>1, <4>1
      <4>3. Cardinality({a}) = 1
        BY FS_Singleton
      <4>4. Cardinality(S) = 1
        BY <4>2, <4>3, Zenon
      <4>. QED  BY <4>4
    <3>. QED  BY <3>1, <3>2
  <2>3. Mode(rows[r].stored) = "login"
    BY <2>1 DEF Mode
  <2>. QED  BY <2>1, <2>2, <2>3
<1>. QED  BY <1>1, <1>2

\* What is asked of a scan is what it does, whatever is asked for, by whom and in
\* whatever order the crawls of a scan come and go (api_create_scan, _ensure_scan,
\* _process_job, scan_settings.py).
THEOREM SettingsCorrect ==
  SettingsSpec => []SettingsHold
<1>1. SettingsIInv => SettingsHold
  BY SettingsIsSafe, RetryHolds, ScopesHold DEF SettingsIInv, SettingsHold
<1>. QED  BY <1>1, SettingsInitHolds, SettingsNextHolds, PTL DEF SettingsSpec
=============================================================================
