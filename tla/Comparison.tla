----------------------------- MODULE Comparison -----------------------------
(***************************************************************************)
(* Two scans of a site, one after the other, and what the comparison of    *)
(* their reports says of one group of findings, those of one method        *)
(* (src/audit/web/comparison.py).  It may call the group new or no longer  *)
(* detected only when the coverage both scans recorded supports it; that   *)
(* coverage is a few totals the crawl (src/audit/crawler/orchestrator.py)  *)
(* adds up page by page.                                                   *)
(*                                                                         *)
(* A page is tried again after an exception, which the scan's error count  *)
(* remembers, and after the end of the process, which it forgets: the      *)
(* count is kept in memory and written when the scan finishes.             *)
(*                                                                         *)
(* ShortfallIgnored is wrong on purpose: a slip of the definition it       *)
(* precedes, kept to show that the property notices it.                    *)
(***************************************************************************)
EXTENDS Naturals, FiniteSets

CONSTANTS
  SitePage,   \* the pages of the site
  Extent,      \* the sets of them that a scan may come to
  Counted,    \* the methods whose pages the scan counts: axe, Alfa and the
              \* language checks
  Silent,     \* those of them that count a page they failed on, as clean: axe
              \* and the language checks, and not Alfa
  Uncounted,  \* those without a usable count: keyboard, responsive, focus,
              \* visual, image
  Result,     \* the outcomes and statuses a finding can have
  MaxDeaths   \* bound on the process ends

ASSUME ComparisonAssumption ==
  /\ IsFiniteSet(SitePage) /\ Extent \subseteq (SUBSET SitePage) \ {{}} /\ Counted \cap Uncounted = {}
  /\ Silent \subseteq Counted
  /\ MaxDeaths \in Nat

Method == Counted \cup Uncounted
Compared == {1, 2}  \* the earlier one and the later one

VARIABLES
  method,    \* the method whose group is compared
  enabled,   \* the scans whose settings enable it
  now,       \* the scan under way; 3 when both have completed
  todo,      \* the pages it has not done with
  cut,       \* how often the process has ended during each scan
  row,       \* the page rows of each scan: "none", "ok", or "flawed" when the
             \* page did not load well or was redirected
  counter,   \* the pages the method counted, as far as the pages go round
  errors,    \* error_count # 0
  found,     \* the findings stored: page and result
  tried,     \* the pages the method was run on and counted
  checked    \* those of them it really evaluated

settings == <<method, enabled>>
comparisonVars == <<settings, now, todo, cut, row, counter, errors, found, tried, checked>>

ComparisonTypeOK ==
  /\ method \in Method /\ enabled \in SUBSET Compared
  /\ now \in 1..3 /\ todo \in SUBSET SitePage /\ cut \in [Compared -> 0..MaxDeaths]
  /\ row \in [Compared -> [SitePage -> {"none", "ok", "flawed"}]]
  /\ counter \in [Compared -> 0..Cardinality(SitePage)]
  /\ errors \in [Compared -> BOOLEAN]
  /\ found \in [Compared -> SUBSET (SitePage \X Result)]
  /\ tried \in [Compared -> SUBSET SitePage] /\ checked \in [Compared -> SUBSET SitePage]

ComparisonInit ==
  /\ method \in Method /\ enabled \in SUBSET Compared
  /\ now = 1 /\ todo \in Extent /\ cut = [s \in Compared |-> 0]
  /\ row = [s \in Compared |-> [p \in SitePage |-> "none"]]
  /\ counter = [s \in Compared |-> 0]
  /\ errors = [s \in Compared |-> FALSE]
  /\ found = [s \in Compared |-> {}]
  /\ tried = [s \in Compared |-> {}] /\ checked = [s \in Compared |-> {}]

-----------------------------------------------------------------------------
(* A scan *)

\* Only whether the count reaches the number of pages matters.
Plus1(n) == IF n < Cardinality(SitePage) THEN n + 1 ELSE n

\* The method was run on page p: it counts the page, and updates the findings made
\* there before; one that is not made again stays.  A silent method that failed
\* does as if it had found nothing.
Evaluate(s, p, F) ==
  /\ counter' = [counter EXCEPT ![s] = Plus1(@)]
  /\ tried' = [tried EXCEPT ![s] = @ \cup {p}]
  /\ \/ checked' = [checked EXCEPT ![s] = @ \cup {p}]
     \/ method \in Silent /\ F = {} /\ UNCHANGED checked
  /\ found' = [found EXCEPT ![s] = IF F = {} THEN @ ELSE {f \in @ : f[1] # p} \cup F]

\* How the attempt ends: the page is done; an exception, after which it is
\* tried again or given up; the end of the process.
Ends(s, p) ==
  \/ todo' = todo \ {p} /\ UNCHANGED <<errors, cut>>
  \/ /\ todo' \in {todo, todo \ {p}} /\ errors' = [errors EXCEPT ![s] = TRUE]
     /\ UNCHANGED cut
  \/ /\ cut[1] + cut[2] < MaxDeaths /\ cut' = [cut EXCEPT ![s] = @ + 1]
     /\ errors' = [errors EXCEPT ![s] = FALSE] /\ UNCHANGED todo

\* _process_job.  Without a browser, or when the method fails and says so, the
\* page is stored and not counted.
CheckPage ==
  \E s \in Compared, p \in todo :
    /\ s = now
    /\ \E state \in {"ok", "flawed"} : row' = [row EXCEPT ![s][p] = state]
    /\ \/ /\ s \in enabled
          /\ \E F \in {{}} \cup {{<<p, r>>} : r \in Result} : Evaluate(s, p, F)
       \/ UNCHANGED <<counter, tried, checked, found>>
    /\ Ends(s, p) /\ UNCHANGED <<settings, now>>

\* The fetch failed, which counts as an error, or the server answered with one,
\* which does not.
CheckPageFails ==
  \E s \in Compared, p \in todo :
    /\ s = now /\ row' = [row EXCEPT ![s][p] = "flawed"]
    /\ todo' = todo \ {p} /\ errors' \in {errors, [errors EXCEPT ![s] = TRUE]}
    /\ UNCHANGED <<settings, now, cut, counter, found, tried, checked>>

\* _finalize_scan; the next scan finds its own pages.
Finish ==
  /\ now \in Compared /\ todo = {} /\ now' = now + 1
  /\ IF now = 1 THEN todo' \in Extent ELSE todo' = {}
  /\ UNCHANGED <<settings, cut, row, counter, errors, found, tried, checked>>

ComparisonNext == CheckPage \/ CheckPageFails \/ Finish

ComparisonSpec == ComparisonInit /\ [][ComparisonNext]_comparisonVars

-----------------------------------------------------------------------------
(* compare_reports *)

PageRows(s) == {p \in SitePage : row[s][p] # "none"}

\* _coverage: the notes that concern every method ...
CommonNotes(s) ==
  \/ PageRows(s) = {} \/ \E p \in PageRows(s) : row[s][p] = "flawed"
  \/ errors[s]

ShortfallIgnored(s) == method \in Uncounted \/ s \notin enabled

\* ... and those about this one: it was off, has no count, or counted fewer
\* pages than there are.  (The notes about controls not operated, capped Alfa
\* results and the site search are left out: a note only ever makes the comparison
\* claim less.  The stored page count is the number of rows.)
MethodNotes(s) ==
  \/ method \in Uncounted \/ s \notin enabled
  \/ counter[s] < Cardinality(PageRows(s))

\* The two scans differ in their pages or settings.
PairNotes ==
  \/ PageRows(1) # PageRows(2)
  \/ (1 \in enabled) # (2 \in enabled)

Limited == PairNotes \/ \E s \in Compared : CommonNotes(s) \/ MethodNotes(s)

Places(s) == {f[1] : f \in found[s]}

Category ==
  CASE found[1] = {} /\ found[2] = {} -> "none"
    [] found[1] = {} /\ found[2] # {} -> IF Limited THEN "cannot_compare" ELSE "new"
    [] found[1] # {} /\ found[2] = {} -> IF Limited THEN "cannot_compare" ELSE "no_longer_detected"
    [] found[1] # {} /\ found[1] = found[2] -> "still_detected"
    [] OTHER -> IF Places(1) # Places(2) /\ Limited THEN "cannot_compare" ELSE "changed"

-----------------------------------------------------------------------------
(* Properties *)

\* The pages a method is known to have evaluated.  A silent one is known only to
\* have been run on a page: whether it failed there is stored nowhere.
Reached(s) == IF method \in Silent THEN tried[s] ELSE checked[s]

\* A group reported as new or as no longer detected is absent from the other
\* report although that scan's method covered every page it was found on: Alfa
\* evaluated it, axe or a language check was at least run on it
\* (comparison.compare_reports).  It is not so for a scan whose process ended
\* on the way: the page under way is counted again, and errors are forgotten.
AbsenceIsCovered ==
  now = 3 =>
    /\ Category = "no_longer_detected" /\ cut[2] = 0 => Places(1) \subseteq Reached(2)
    /\ Category = "new" /\ cut[1] = 0 => Places(2) \subseteq Reached(1)
=============================================================================
