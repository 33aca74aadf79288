---------------------------- MODULE Localization ----------------------------
(***************************************************************************)
(* The Chinese display copy of a verified report                           *)
(* (analysis/localization.py): one request per reading, one for claims,    *)
(* sources and figures together.  A failed request leaves the English      *)
(* original in place and an attempt that says so.                          *)
(*                                                                         *)
(* An answer for a reading is [json, fields, explanation]: the fields it   *)
(* has a text for, and section -> the items it gives, [ids, blank].  An    *)
(* answer for the display is [json, claims, figures]: the places of the    *)
(* claims it translates, counted among the publishable ones, and the       *)
(* titles of the figures; the gists of sources are left out.               *)
(***************************************************************************)
EXTENDS AnchorRepair

\* A paragraph keeps its place only if the item in the same place has a text
\* and the very same identifiers.
LocalizedParagraphs(paragraphs, items) ==
  LET kept == Sift([i \in DOMAIN paragraphs |-> i],
                {i \in DOMAIN paragraphs \cap DOMAIN items :
                   ~items[i].blank /\ items[i].ids = paragraphs[i].ids})
  IN [k \in DOMAIN kept |-> paragraphs[kept[k]]]

LocalizedExplanation(original, answer) ==
  [key \in DOMAIN original |->
     LocalizedParagraphs(original[key],
       IF key \in DOMAIN answer.explanation THEN answer.explanation[key] ELSE <<>>)]

\* What a reading says apart from the explanation.
ReadingFields == {"background", "active_questions", "common_baselines",
  "problem", "why_it_matters", "hidden_assumptions", "solution", "mechanism",
  "prior_work", "novelty", "repackaging_risk", "explicit_limitations",
  "inferred_weaknesses", "future_work", "overclaiming_risk", "weak_evaluations",
  "missing_ablations", "bottom_line", "essence", "plain_language_example",
  "experiment_summary"}

\* Field by field: what the answer has no text for keeps the original's.
LocalizedReading(answer) ==
  [f \in ReadingFields |-> IF f \in answer.fields THEN "zh" ELSE "en"]

\* Only how a claim is worded changes; its prefix, and with it its section,
\* is put back whatever the answer wrote.
LocalizedClaims(claims, places) ==
  LET positions == ReviewPositions(claims)
      inChinese == {positions[k] : k \in DOMAIN positions \cap places}
  IN [i \in DOMAIN claims |->
        IF i \in inChinese THEN [claims[i] EXCEPT !.lang = "zh"] ELSE claims[i]]

\* A caption is found by the title of its figure: figures of one title get
\* the same.
LocalizedFigures(figures, titles) ==
  [i \in DOMAIN figures |->
     IF figures[i].title \in titles THEN [figures[i] EXCEPT !.lang = "zh"] ELSE figures[i]]

LocalizationStatus(attempts) ==
  LET statuses == ToSet(attempts)
  IN CASE statuses = {} -> "not_needed"
       [] statuses = {"succeeded"} -> "succeeded"
       [] {"succeeded", "failed"} \subseteq statuses -> "partial_failed"
       [] "failed" \in statuses /\ "succeeded" \notin statuses -> "failed"
       [] OTHER -> "skipped"

LocalizationFailed(attempts) == \E k \in DOMAIN attempts : attempts[k] = "failed"

AttemptOf(answer) == IF answer.json THEN "succeeded" ELSE "failed"

\* localize_report_content for the reading of one paper.  The explanation
\* of a reading whose request failed stays as it was.
LocalizeReportContent(explanation, claims, figures, readingAnswer, displayAnswer) ==
  [reading     |-> LocalizedReading(IF readingAnswer.json
                                    THEN readingAnswer ELSE [fields |-> {}]),
   explanation |-> IF readingAnswer.json
                   THEN LocalizedExplanation(explanation, readingAnswer) ELSE explanation,
   claims      |-> IF displayAnswer.json
                   THEN LocalizedClaims(claims, displayAnswer.claims) ELSE claims,
   figures     |-> IF displayAnswer.json
                   THEN LocalizedFigures(figures, displayAnswer.figures) ELSE figures,
   attempts    |-> <<AttemptOf(readingAnswer), AttemptOf(displayAnswer)>>]
=============================================================================
