----------------------------- MODULE Searching -----------------------------
(***************************************************************************)
(* The search a scan was configured to try on one of its pages             *)
(* (SearchExplorer in src/audit/crawler/search.py): it fills in the form,  *)
(* goes through the result pages, follows every result and hands the       *)
(* addresses it finds to the crawl, with a status that says whether the    *)
(* search was seen through.                                                *)
(*                                                                         *)
(* A result that is not a link is clicked.  That may lead to another page  *)
(* or open a detail with links of its own, and the search is made again    *)
(* before the next result.                                                 *)
(*                                                                         *)
(* ForgetSkipped is wrong on purpose: a slip of the definition it          *)
(* precedes, kept to show that the property notices it.                    *)
(***************************************************************************)
EXTENDS Naturals, FiniteSets

CONSTANTS
  Place,         \* addresses
  Visitable,     \* those can_visit allows
  Hit,           \* the results
  LastPage,      \* bound on the result pages there are
  MostResults,   \* bounds on the configured limits
  MostPages

ASSUME SearchingAssumption ==
  /\ Visitable \subseteq Place /\ IsFiniteSet(Hit) /\ IsFiniteSet(Place)
  /\ {LastPage, MostResults, MostPages} \subseteq Nat \ {0}

VARIABLES
  results,     \* the page each result is on, its kind, and what it leads to
  config,      \* max_results, max_result_pages; what next_button names on a page:
               \* nothing or not configured, the button, or several controls
  search,      \* "opening" a result page, "following" its results, or "over"
  resultPage,  \* the one it is on
  ahead,       \* the results on it still to follow
  clicked,     \* the results followed
  known,       \* urls: what it hands to the crawl
  verdict      \* status

searchConstants == <<results, config>>
searchVars == <<searchConstants, search, resultPage, ahead, clicked, known, verdict>>

\* A link has one address; a control that is clicked may open several; one that
\* cannot be clicked leads nowhere.
ResultOf == [on : 1..LastPage, kind : {"link"}, opens : {{u} : u \in Place}]
              \cup [on : 1..LastPage, kind : {"button"}, opens : SUBSET Place]
              \cup [on : 1..LastPage, kind : {"refused"}, opens : {{}} \cup {{u} : u \in Place}]

NextButton == {"none", "one", "several"}

SearchTypeOK ==
  /\ results \in [Hit -> ResultOf]
  /\ config \in [limit : 1..MostResults, pages : 1..MostPages, next : NextButton]
  /\ search \in {"opening", "following", "over"} /\ resultPage \in 1..config.pages
  /\ ahead \in SUBSET Hit /\ clicked \in 0..config.limit /\ known \in SUBSET Place
  /\ verdict \in {"completed", "limited", "no_results", "failed"}

SearchInit ==
  /\ results \in [Hit -> ResultOf]
  /\ config \in [limit : 1..MostResults, pages : 1..MostPages, next : NextButton]
  /\ search = "opening" /\ resultPage = 1 /\ ahead = {} /\ clicked = 0
  /\ known = {} /\ verdict = "completed"

-----------------------------------------------------------------------------
EndWith(v) ==
  search' = "over" /\ verdict' = v /\ UNCHANGED <<searchConstants, resultPage, ahead, clicked, known>>

\* remember, for each of the addresses U in some order: one that comes when the
\* limit is reached makes the search a limited one, also when it is known.
Remember(U) ==
  LET allowed == U \cap Visitable
  IN \/ /\ Cardinality(known \cup allowed) <= config.limit
        /\ known' = known \cup allowed
        /\ \/ (U = {} \/ Cardinality(known) < config.limit) /\ UNCHANGED verdict
           \/ /\ \E u \in U : Cardinality(known \cup (allowed \ {u})) = config.limit
              /\ verdict' = "limited"
     \/ \E N \in SUBSET allowed :
          /\ N # allowed /\ Cardinality(known \cup N) = config.limit
          /\ known' = known \cup N /\ verdict' = "limited"

\* _open_results, and the results appear: as many as the limit still allows are
\* followed.
ResultsAppear ==
  /\ search = "opening" /\ search' = "following"
  /\ LET shown == {h \in Hit : results[h].on = resultPage}
         most == config.limit - clicked
     IN /\ shown # {}
        /\ ahead' \in {S \in SUBSET shown : S = shown \/ Cardinality(S) = most}
        /\ Cardinality(ahead') <= most
  /\ UNCHANGED <<searchConstants, resultPage, clicked, known, verdict>>

\* None within the time for them, on this result page.
NoResults == search = "opening" /\ EndWith("no_results")

\* A link's address is taken as it is; a click leads to another page, or to a
\* detail with links.
Follow ==
  /\ search = "following"
  /\ \E h \in ahead :
       /\ results[h].kind # "refused"
       /\ Remember(results[h].opens) /\ ahead' = ahead \ {h} /\ clicked' = clicked + 1
  /\ UNCHANGED <<searchConstants, search, resultPage>>

ForgetSkipped == verdict
Skipped == "limited"

\* _can_click: without a name, or with one that could do harm.
SkipResult ==
  /\ search = "following"
  /\ \E h \in ahead :
       results[h].kind = "refused" /\ ahead' = ahead \ {h} /\ verdict' = Skipped
  /\ UNCHANGED <<searchConstants, search, resultPage, clicked, known>>

\* The button is there and enabled on every result page but the last.  A name that
\* fits several controls ends the search as the last page does.
CanTurn == config.next = "one" /\ \E h \in Hit : results[h].on > resultPage

ResultPageDone ==
  /\ search = "following" /\ ahead = {}
  /\ IF clicked >= config.limit THEN EndWith("limited")
     ELSE IF ~CanTurn THEN EndWith(verdict)
     ELSE IF resultPage = config.pages THEN EndWith("limited")
     ELSE /\ search' = "opening" /\ resultPage' = resultPage + 1
          /\ UNCHANGED <<searchConstants, ahead, clicked, known, verdict>>

\* The two minutes are over, or a control cannot be used: a field is ambiguous,
\* the search left the scope, a result has gone.
TimeUp == search # "over" /\ EndWith("limited")
SearchFails == search # "over" /\ EndWith("failed")

SearchNext ==
  \/ ResultsAppear \/ NoResults \/ Follow \/ SkipResult \/ ResultPageDone
  \/ TimeUp \/ SearchFails

SearchSpec == SearchInit /\ [][SearchNext]_searchVars

-----------------------------------------------------------------------------
(* Properties *)

\* A search reported as completed handed over every address that the results on
\* the pages it can turn to lead to, as far as the scan may visit it, and left
\* no result out: the first page only, when the button is not there or is not
\* the only one so named; and no search hands over more than its limit and the scope
\* allow (SearchExplorer.run).
SearchIsHonest ==
  /\ SearchTypeOK
  /\ search = "over" /\ verdict = "completed" =>
       \A h \in Hit : (config.next = "one" \/ results[h].on = 1) => results[h].opens \cap Visitable \subseteq known
  /\ known \subseteq Visitable /\ Cardinality(known) <= config.limit
=============================================================================
