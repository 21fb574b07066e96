------------------------------ MODULE Language ------------------------------
(***************************************************************************)
(* The language checks of a scan, and what a reviewer is shown of them:    *)
(* each check sends a numbered list of the page's elements to a local      *)
(* model and makes findings of its answer (src/audit/analyzer/semantic/,   *)
(* ollama_base.py), all checks of a page at once and through one           *)
(* semaphore; the evidence page finds the elements again in the saved copy *)
(* (src/audit/evaluation.py).                                              *)
(*                                                                         *)
(* The model's answers are any lists, with numbers that name nothing,      *)
(* repeat, or come in any order.  A page whose visit was cut off is        *)
(* fetched again, and may have changed since.                              *)
(*                                                                         *)
(* ParseInOrder and GiveUpHolding are wrong on purpose: each is a slip of  *)
(* the definition it precedes, kept to show that a property notices it.    *)
(***************************************************************************)
EXTENDS Places

CONSTANTS
  Documents,    \* the documents the page may have
  Floored,      \* the checks that drop what the model is not sure of (2.4.4)
  MostSent,     \* MAX_LINKS_PER_CALL and its like
  Permits,      \* semantic_concurrency
  MostTries,    \* max_attempts
  MostEntries,  \* bound on the entries of an answer
  MaxReads      \* bound on the fetches of the page

ASSUME LanguageAssumption ==
  /\ Floored \subseteq Sc /\ IsFiniteSet(Sc) /\ "image" \notin Sc
  /\ \A c \in Sc : IsList(Walks[c])
  /\ {MostSent, Permits, MostTries, MostEntries, MaxReads} \subseteq Nat /\ MostTries > 0

ASSUME DocumentsAssumption == \A d \in Documents : IsDocument(d)

VARIABLES
  reads,     \* how often the page was fetched
  document,  \* its document, as the last fetch read and saved it
  running,   \* what each check does
  tries,     \* the tries of its request
  permits,   \* free permits of the semaphore
  made,      \* the findings of each check, in memory
  named,     \* the elements that the answers named, for the properties
  stored     \* the rows of page_images and page_a11y_findings, for all fetches

languageVars == <<reads, document, running, tries, permits, made, named, stored>>

Asking == {c \in Sc : running[c] = "asking"}
LanguageTypeOK ==
  /\ reads \in 0..MaxReads /\ document \in Documents \cup {<<>>}
  /\ running \in [Sc -> {"off", "waiting", "asking", "failed", "done"}] /\ tries \in [Sc -> 0..MostTries]
  /\ permits \in 0..Permits /\ DOMAIN made = Sc /\ named \in [Sc -> SUBSET (DOMAIN document)]
  /\ \A r \in stored : r.document \in Documents /\ r.of \in DOMAIN r.document

LanguageInit ==
  /\ reads = 0 /\ document = <<>> /\ running = [c \in Sc |-> "off"]
  /\ tries = [c \in Sc |-> 0] /\ permits = Permits
  /\ made = [c \in Sc |-> {}] /\ named = [c \in Sc |-> {}] /\ stored = {}

-----------------------------------------------------------------------------
(* A check *)

\* What the prompt lists: the first of the elements, by their numbers.
Lists ==
  LET First(all) == SubSeq(all, 1, IF Len(all) < MostSent THEN Len(all) ELSE MostSent)
  IN [c \in Sc |-> [d \in Documents |-> First(Extract(d, Walk(c, d)))]]
Sent(c) == Lists[c][document]

\* The rows that a page with document d can lead to.
ImageRow(d, o) == [kind |-> "image", document |-> d, of |-> o.of, position |-> o.position, alt |-> o.alt]
ImageRows(d) == {ImageRow(d, o) : o \in Occurrences(d)}
FindingRow(c, d, f) == [kind |-> c, document |-> d, of |-> f.of, selector |-> f.selector, html |-> f.html]
RowsOf == [d \in Documents |-> ImageRows(d) \cup {FindingRow(c, d, f) : c \in Sc, f \in UNION {ToSet(Lists[k][d]) : k \in Sc}}]

AnswerEntry == [number : 0..(MostSent + 1), sure : BOOLEAN]
Answers == UNION {[1..n -> AnswerEntry] : n \in 0..MostEntries}

\* _parse_response: the first entry of each number that was sent; of those, a
\* check with a floor drops what the model is not sure of.
Counts(c, answer, i) ==
  /\ answer[i].number \in DOMAIN Sent(c)
  /\ \A j \in 1..(i - 1) : answer[j].number # answer[i].number
Kept(c, answer) ==
  {i \in DOMAIN answer : Counts(c, answer, i) /\ (c \in Floored => answer[i].sure)}
ParseInOrder(c, answer) == {Sent(c)[i] : i \in Kept(c, answer) \cap DOMAIN Sent(c)}
Parse(c, answer) == {Sent(c)[answer[i].number] : i \in Kept(c, answer)}

-----------------------------------------------------------------------------
(* A page *)

\* No check is under way.
Rest ==
  /\ running' = [c \in Sc |-> "off"] /\ tries' = [c \in Sc |-> 0]
  /\ made' = [c \in Sc |-> {}] /\ named' = [c \in Sc |-> {}]

\* The page is fetched and saved, and the image check has stored its images.
\* A check without an element to ask about is done, and one that raises failed.
StartReading ==
  /\ (\A c \in Sc : running[c] = "off") /\ reads < MaxReads /\ reads' = reads + 1
  /\ \E d \in Documents :
       /\ document' = d
       /\ running' = [c \in Sc |-> CASE ExtractRaises(c, d) -> "failed"
                                     [] Lists[c][d] = <<>> -> "done" [] OTHER -> "waiting"]
       /\ stored' = stored \cup ImageRows(d)
  /\ tries' = [c \in Sc |-> 0] /\ made' = [c \in Sc |-> {}] /\ named' = [c \in Sc |-> {}]
  /\ UNCHANGED permits

\* async with self._sem.
AcquirePermit(c) ==
  /\ running[c] = "waiting" /\ permits > 0 /\ permits' = permits - 1
  /\ running' = [running EXCEPT ![c] = "asking"] /\ tries' = [tries EXCEPT ![c] = 1]
  /\ UNCHANGED <<reads, document, made, named, stored>>

\* A timeout, or an answer that says to try again: after a pause, with the
\* permit held.
TryAgain(c) ==
  /\ c \in Asking /\ tries[c] < MostTries /\ tries' = [tries EXCEPT ![c] = @ + 1]
  /\ UNCHANGED <<reads, document, running, permits, made, named, stored>>

GiveUpHolding(c) ==
  /\ c \in Asking /\ running' = [running EXCEPT ![c] = "failed"]
  /\ UNCHANGED <<reads, document, tries, permits, made, named, stored>>

\* The last try failed, or the daemon refuses: OllamaError, and no findings.
GiveUp(c) ==
  /\ c \in Asking /\ permits' = permits + 1 /\ running' = [running EXCEPT ![c] = "failed"]
  /\ UNCHANGED <<reads, document, tries, made, named, stored>>

AnswerArrives(c) ==
  /\ c \in Asking /\ permits' = permits + 1 /\ running' = [running EXCEPT ![c] = "done"]
  /\ \E answer \in Answers :
       /\ made' = [made EXCEPT ![c] = Parse(c, answer)]
       /\ named' = [named EXCEPT ![c] =
            {Sent(c)[answer[i].number].of : i \in {j \in DOMAIN answer : answer[j].number \in DOMAIN Sent(c)}}]
  /\ UNCHANGED <<reads, document, tries, stored>>

\* gather has every result; _persist_semantic writes the findings.
StoreFindings ==
  /\ reads > 0 /\ \A c \in Sc : running[c] \in {"failed", "done"}
  /\ Rest /\ stored' = stored \cup UNION {{FindingRow(c, document, f) : f \in made[c]} : c \in Sc}
  /\ UNCHANGED <<reads, document, permits>>

\* The crawl is cancelled, or the process ends.
CutOff ==
  /\ \E c \in Sc : running[c] # "off"
  /\ Rest /\ permits' = permits + Cardinality(Asking)
  /\ UNCHANGED <<reads, document, stored>>

LanguageNext ==
  \/ StartReading \/ StoreFindings \/ CutOff
  \/ \E c \in Sc : AcquirePermit(c) \/ TryAgain(c) \/ GiveUp(c) \/ AnswerArrives(c)

LanguageSpec == LanguageInit /\ [][LanguageNext]_languageVars

-----------------------------------------------------------------------------
(* Properties *)

\* A finding is about an element that the model's answer named by its number
\* on the list, there is one for each such element at most, and a check that
\* fails takes no other check's findings with it (_parse_response, analyze_page).
FindingsAreNamed ==
  \A c \in Sc : \A f, g \in made[c] :
    /\ f.of \in named[c] /\ document[f.of].usable /\ f.html = document[f.of].html
    /\ f.of = g.of => f = g

\* No permit is lost, however a request ends (_post_with_retries).
PermitsReturn == permits + Cardinality(Asking) = Permits

\* What is outlined of each row in each copy.
Outlined ==
  [r \in UNION {RowsOf[d] : d \in Documents} |->
     [d \in Documents |-> IF r.kind = "image" THEN LocateImage(r, d)
                          ELSE Locate(r.kind, r.selector, r.html, d)]]

\* The Inspector outlines the very element a finding is about, or says that it
\* cannot tell; when the page was fetched again and has changed, an element of
\* the same markup, or an image of the same text, and no neighbour
\* (locate_ordinals, _add_image_locators, locateTargets).
OutlinesWhatWasMeant ==
  \A r \in stored :
    LET shown == Outlined[r][document]
    IN /\ r.document = document /\ ~document[r.of].hidden =>
            shown = Found(r.of) \/ (r.kind \in Sc /\ r.selector.ord = 0 /\ shown.found = "ambiguous")
       /\ shown.found = "found" =>
            IF r.kind = "image" THEN document[shown.at].alt = r.alt
            ELSE document[shown.at].html = r.html /\ ~document[shown.at].hidden

\* From the number in the model's answer to the outline on the reviewer's
\* screen, the element stays the same one.
OutlinesAreTrue == LanguageTypeOK /\ FindingsAreNamed /\ OutlinesWhatWasMeant
=============================================================================
