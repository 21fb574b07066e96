------------------------------- MODULE Images -------------------------------
(***************************************************************************)
(* The text found in images, from the page to the report: process_page in  *)
(* src/audit/extractor/pipeline.py, upsert_image, upsert_page_image,       *)
(* upsert_analysis and upsert_finding in src/audit/db/repo.py,             *)
(* synthesize_findings in src/audit/synthesizer/findings.py, its history   *)
(* in diff.py, and the groups of the report in                             *)
(* src/audit/web/image_findings_queries.py.                                *)
(*                                                                         *)
(* An image is known by the hash of its bytes, and what was read in it     *)
(* belongs to the image: pages and scans that have the same image share    *)
(* it.  Workers analyse pages at the same time and write as their answers  *)
(* come.  The findings of a scan are computed when it completes, and again *)
(* by the synthesize command; the report groups them by what is known of   *)
(* their images when it is read.                                           *)
(*                                                                         *)
(* RecordedByImage is wrong on purpose: a slip of the definition it        *)
(* precedes, kept to show that the properties notice it.                   *)
(***************************************************************************)
EXTENDS Naturals, Sequences, FiniteSets

CONSTANTS
  Picture,      \* the images
  Inline,       \* those drawn in the document, whose text needs no reading
  Sheet,        \* the pages of the site
  Analyst,      \* the workers of a scan
  Label,        \* the classifications of the vision model
  NoLabel,      \* none: the model did not answer, or there is none
  Rules,        \* remediation.yaml: what to do, in the order it is looked up
  AnyLabel,     \* "*" in a rule
  MaxPasses     \* bound on the pages analysed in each scan

ASSUME ImagesAssumption ==
  /\ {NoLabel, AnyLabel} \cap Label = {} /\ Inline \subseteq Picture /\ MaxPasses \in Nat
  /\ Len(Rules) \in Nat /\ DOMAIN Rules = 1..Len(Rules)
  /\ \A k \in DOMAIN Rules : Rules[k].label \in Label \cup {AnyLabel}

VARIABLES
  survey,    \* the scan under way: the first or the second of the site
  passes,    \* the pages it has analysed so far
  shown,     \* page_images: scan, page, image and the adequacy of its alt
  reading,   \* the analyses rows: of each image, by the models that made them
  analyst,   \* what each worker is at
  finding,   \* the findings rows: for each scan and image
  story,     \* finding_history: scan of the finding, image, change, scan
  twice,     \* those of them that were written more than once
  disturbed  \* the findings whose image was met or analysed again since

imageVars == <<survey, passes, shown, reading, analyst, finding, story, twice, disturbed>>

Survey == {1, 2}
Adequacy == {"adequate", "missing"}  \* the best and the worst of four
NotReading == [at |-> "rest"]
NoFinding == [made |-> FALSE]
Models == {"ocr", "vlm"}  \* model_versions: without and with the vision model
Reading == [text : BOOLEAN, label : Label \cup {NoLabel}]
Unread == [text |-> FALSE, label |-> NoLabel]
Hint == {"none"} \cup {Rules[k].hint : k \in DOMAIN Rules}
Change == {"first_seen", "resolved"}

ImagesTypeOK ==
  /\ survey \in Survey /\ passes \in 0..MaxPasses
  /\ shown \in SUBSET (Survey \X Sheet \X Picture \X Adequacy)
  /\ reading \in [Picture -> UNION {[K -> Reading] : K \in SUBSET Models}]
  /\ analyst \in [Analyst -> {NotReading} \cup [at : {"reading", "asking"}, of : SUBSET Picture]]
  /\ finding \in [Survey -> [Picture -> {NoFinding} \cup [made : {TRUE}, hint : Hint]]]
  /\ story \in SUBSET (Survey \X Picture \X Change \X Survey)
  /\ twice \subseteq story
  /\ disturbed \in SUBSET (Survey \X Picture)

ImagesInit ==
  /\ survey = 1 /\ passes = 0 /\ shown = {} /\ reading = [i \in Picture |-> [k \in {} |-> Unread]]
  /\ analyst = [w \in Analyst |-> NotReading]
  /\ finding = [s \in Survey |-> [i \in Picture |-> NoFinding]]
  /\ story = {} /\ twice = {}
  /\ disturbed = {}

-----------------------------------------------------------------------------
(* What is known of an image *)

Kind(r) == IF r.label = NoLabel THEN "ocr" ELSE "vlm"

RecordedByImage(rows, r) == [k \in {Kind(r)} |-> r]

\* upsert_analysis: one row per set of model versions; a row written again merges.
Recorded(rows, r) ==
  [k \in DOMAIN rows \cup {Kind(r)} |->
     IF k # Kind(r) THEN rows[k]
     ELSE [r EXCEPT !.text = @ \/ (k \in DOMAIN rows /\ rows[k].text)]]

\* The best row: one with a classification before one without.
Known(i) ==
  IF "vlm" \in DOMAIN reading[i] THEN reading[i]["vlm"]
  ELSE IF "ocr" \in DOMAIN reading[i] THEN reading[i]["ocr"] ELSE Unread
HasText(i) == i \in Inline \/ Known(i).text

Alts(s, i) == {o[4] : o \in {q \in shown : q[1] = s /\ q[3] = i}}
Worst(A) == IF "missing" \in A THEN "missing" ELSE "adequate"

\* The group of the report that image i of scan s belongs to.
Why(s, i) == [label |-> Known(i).label, adequacy |-> Worst(Alts(s, i))]

\* RemediationRules.lookup: the first rule that fits.
Lookup(why) ==
  LET fits == {k \in DOMAIN Rules : /\ Rules[k].adequacy = why.adequacy
                                    /\ Rules[k].label \in {why.label, AnyLabel}}
  IN IF fits = {} THEN "none" ELSE Rules[CHOOSE k \in fits : \A l \in fits : k <= l].hint

-----------------------------------------------------------------------------
(* process_page *)

Touched(S, I) == disturbed \cup {f \in S \X I : finding[f[1]][f[2]].made}

\* Worker w still has the images I to see to.
Left(w, place, I) ==
  analyst' = [analyst EXCEPT ![w] = IF I = {} THEN NotReading ELSE [at |-> place, of |-> I]]

\* upsert_page_image: the row of an image at the same place is written over.
ListedOn(p, I, a, same) == (shown \ same) \cup {<<survey, p, i, a>> : i \in I}

\* The images I of a page, with their alts, are downloaded and listed.  When it
\* is analysed again, those that have moved on it are listed once more.
List(w) ==
  /\ analyst[w] = NotReading /\ passes < MaxPasses /\ passes' = passes + 1
  /\ \E p \in Sheet, I \in SUBSET Picture, a \in Adequacy :
       LET before == {o \in shown : o[1] = survey /\ o[2] = p /\ o[3] \in I}
       IN /\ \E same \in SUBSET before : shown' = ListedOn(p, I, a, same)
          /\ \E R \in SUBSET (I \ Inline) : Left(w, "reading", R)
          /\ disturbed' = Touched({survey}, I)
  /\ UNCHANGED <<survey, reading, finding, story, twice>>

\* OCR is done with all of them.  Those without text have their row now, and
\* all of them when there is no vision model; those it failed on have none.
ReadText(w) ==
  /\ analyst[w].at = "reading"
  /\ \E T, O \in SUBSET analyst[w].of, ask \in BOOLEAN :
       LET now == IF ask THEN O \ T ELSE O
       IN /\ T \subseteq O /\ Left(w, "asking", O \ now)
          /\ reading' = [i \in Picture |->
               IF i \in now THEN Recorded(reading[i], [text |-> i \in T, label |-> NoLabel])
               ELSE reading[i]]
          /\ disturbed' = Touched(Survey, now)
  /\ UNCHANGED <<survey, passes, shown, finding, story, twice>>

\* The vision model's answers come; where it fails, the text alone is kept.
Classify(w) ==
  /\ analyst[w].at = "asking"
  /\ \E i \in analyst[w].of, l \in Label \cup {NoLabel} :
       /\ reading' = [reading EXCEPT ![i] = Recorded(@, [text |-> TRUE, label |-> l])]
       /\ disturbed' = Touched(Survey, {i}) /\ Left(w, "asking", analyst[w].of \ {i})
  /\ UNCHANGED <<survey, passes, shown, finding, story, twice>>

\* An exception, or the end of the process.
Abandon(w) ==
  /\ analyst[w] # NotReading /\ analyst' = [analyst EXCEPT ![w] = NotReading]
  /\ UNCHANGED <<survey, passes, shown, reading, finding, story, twice, disturbed>>

-----------------------------------------------------------------------------
(* synthesize_findings *)

Textual(s) == {i \in Picture : Alts(s, i) # {} /\ HasText(i)}
Made(f, s) == {i \in Picture : f[s][i].made}

\* _collect_pairs: image and page of every finding of scan s.
Pairs(f, s) == {c \in Made(f, s) \X Sheet : \E a \in Adequacy : <<s, c[2], c[1], a>> \in shown}

\* _insert_history_once
NotYetTold(k) == k \notin story

\* materialize_history of scan s compared with the other one.
Told(f, s) ==
  LET other == 3 - s
  IN {k \in {<<s, c[1], "first_seen", s>> : c \in Pairs(f, s) \ Pairs(f, other)}
            \cup {<<other, c[1], "resolved", s>> : c \in Pairs(f, other) \ Pairs(f, s)} :
        NotYetTold(k)}

\* upsert_finding of the images I, with what is to be done.
UpsertFinding(s, I) ==
  [finding EXCEPT ![s] = [i \in Picture |->
     IF i \in I THEN [made |-> TRUE, hint |-> Lookup(Why(s, i))] ELSE @[i]]]

\* At the end of a crawl, and by the command for any scan later, with a scan to
\* compare it with or without.
Synthesize(s) ==
  /\ s <= survey /\ \A w \in Analyst : analyst[w] = NotReading
  /\ LET f == UpsertFinding(s, Textual(s))
     IN \E told \in {{}, IF survey = 1 THEN {} ELSE Told(f, s)} :
        /\ finding' = f /\ story' = story \cup told
        /\ twice' = twice \cup (told \cap story)
  /\ disturbed' = disturbed \ ({s} \X Textual(s))
  /\ UNCHANGED <<survey, passes, shown, reading, analyst>>

NextSurvey ==
  /\ survey = 1 /\ survey' = 2 /\ passes' = 0
  /\ \A w \in Analyst : analyst[w] = NotReading
  /\ UNCHANGED <<shown, reading, analyst, finding, story, twice, disturbed>>

ImagesNext ==
  \/ \E w \in Analyst : List(w) \/ ReadText(w) \/ Classify(w) \/ Abandon(w)
  \/ \E s \in Survey : Synthesize(s)
  \/ NextSurvey

ImagesSpec == ImagesInit /\ [][ImagesNext]_imageVars

-----------------------------------------------------------------------------
(* Properties *)

\* The remediation a finding was given is that of the group the report shows it
\* in, unless its image was met or analysed again since, by whatever scan
\* (grouped_by_remediation).
HintFitsGroup ==
  \A s \in Survey, i \in Picture :
    finding[s][i].made /\ <<s, i>> \notin disturbed => finding[s][i].hint = Lookup(Why(s, i))

\* A finding is about an image that a page of its scan shows, and that a scan
\* found text in (synthesize_findings).
FindingsAreGrounded ==
  \A s \in Survey : \A i \in Made(finding, s) :
    Alts(s, i) # {} /\ (i \in Inline \/ \E k \in DOMAIN reading[i] : reading[i][k].text)

\* A change is told once, however often the findings are computed
\* (materialize_history).
ToldOnce == twice = {}

\* A classification once given is never lost to a later visit whose model did
\* not answer (upsert_analysis, _images_with_text).
LabelStays == \A i \in Picture : Known(i).label # NoLabel => Known(i)'.label # NoLabel
\* No step of a visit takes an image's classification away.
LabelsStay == [][LabelStays]_imageVars

\* What the report and the history say of an image (synthesizer/findings.py,
\* diff.py).
ImageReportHolds == ImagesTypeOK /\ HintFitsGroup /\ FindingsAreGrounded /\ ToldOnce
=============================================================================
