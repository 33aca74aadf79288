----------------------------- MODULE PaperRun -----------------------------
(***************************************************************************)
(* A run of a single paper given by its address (pipeline/paper.py): it is *)
(* ingested, read like a paper of the daily run, always reviewed, and what *)
(* it found is written file by file (compose/paper.py), paper.md for its   *)
(* reader and deep_reading.md as a note for an audit.                      *)
(*                                                                         *)
(* A run whose provider fails says so in its manifest and in run_error.json *)
(* or localization_error.json.  Nothing catches a write that raises: the   *)
(* run breaks off wherever it is, and so it does when the process ends.    *)
(***************************************************************************)
EXTENDS DeepReading, Ingestion

CONSTANT Address   \* what the user may ask for: [absolute, pdf]

VARIABLE files     \* the directory of the single run

vars == <<setup, stage, text, packet, attempt, answer, claims, figures, copy, entry, files>>

NoNote  == [fields |-> <<>>, paragraphs |-> {}]
NoFiles == [manifest |-> "none", counted |-> 0, names |-> {}, note |-> NoNote]

Init == ReadingInit /\ files = NoFiles

Created == [NoFiles EXCEPT !.manifest = "created", !.names = {"manifest.json"}]

\* _write_failed_run
FailedRun == [Created EXCEPT !.manifest = "failed", !.names = @ \cup {"run_error.json"}]

\* _write_failed_localization_run
FailedLocalization ==
  [Created EXCEPT !.manifest = "failed",
     !.names = @ \cup {"localization_attempts.jsonl", "localization_error.json",
                       "runtime_summary.json"}]

(***************************************************************************)
(* The source of a direct address, and its text.                           *)
(***************************************************************************)

\* build_direct_paper_source: nothing but the address tells a PDF.
DirectSource(address) ==
  [type |-> "paper", pdf |-> IF address.pdf THEN {"address"} ELSE {}, repo |-> ""]

PagesWithText == {i \in DOMAIN text : text[i].size > 0}

DocumentAt(answers, parses) ==
  [answers |-> answers, parses |-> parses, pages |-> Cardinality(PagesWithText),
   chars |-> MapThenSumSet(LAMBDA i : text[i].size, PagesWithText), signals |-> {}]

\* run_paper refuses an address that is not absolute, and a Chinese report
\* without a localizer, before it makes a directory.
RefusePaper(address, localizer) ==
  /\ stage = "requested"
  /\ ~address.absolute \/ (setup.language = "zh" /\ ~localizer)
  /\ stage' = "refused"
  /\ text' = <<>>
  /\ UNCHANGED <<setup, packet, attempt, answer, claims, figures, copy, entry, files>>

\* A single run reads whatever it can ingest, the full paper or not.
StartPaper(address, answers, parses) ==
  /\ stage = "requested" /\ address.absolute
  /\ IF IsIngested(DirectSource(address), DocumentAt(answers, parses))
     THEN stage' = "ingested" /\ files' = Created /\ UNCHANGED text
     ELSE stage' = "failed" /\ files' = FailedRun /\ text' = <<>>
  /\ UNCHANGED <<setup, packet, attempt, answer, claims, figures, copy, entry>>

\* The steps shared with the daily run: a failure of a provider is recorded
\* in the directory of a single run.
Recorded(failure) ==
  files' = IF setup.single /\ stage' = "failed" THEN failure ELSE files

(***************************************************************************)
(* The review and the report of a single run.                              *)
(***************************************************************************)

\* The claims are reviewed as the anchors left them, and only then does the
\* policy go over them; a reading always makes claims.
PaperReviewed(review) ==
  /\ stage = "read" /\ setup.single /\ claims # <<>>
  /\ stage' = "reviewed"
  /\ claims' = EnforceEvidencePolicy(ModelReviewPublishableClaims(claims, review).claims)
  /\ UNCHANGED <<setup, text, packet, attempt, answer, figures, copy, entry, files>>

\* render_paper_brief has every section of the explanation but the takeaway,
\* and every publishable claim in its evidence trail.
PaperBrief ==
  LET verified == PublishableClaims(copy.claims)
      sections == DOMAIN copy.explanation \ {"reader_takeaway"}
      prose    == PublicExplanation([key \in sections |-> copy.explanation[key]], verified)
  IN [shown |-> TRUE, claims |-> verified,
      paragraphs |-> prose.paragraphs, fallbacks |-> prose.fallbacks, figures |-> <<>>]

\* What the audit note shows of the reading for a section of the claims.
FieldsOf ==
  [essence |-> {"essence"},
   problem |-> {"problem", "why_it_matters", "hidden_assumptions"},
   solution |-> {"solution", "mechanism"},
   experiment |-> {"experiment_summary"},
   related_work |-> {"novelty", "prior_work", "repackaging_risk"},
   limitations |-> {"explicit_limitations", "inferred_weaknesses", "future_work"},
   critical_assessment |-> {"bottom_line", "overclaiming_risk", "weak_evaluations",
                            "missing_ablations"}]

\* render_deep_reading_report: the reader's own conclusions in each section
\* that has a publishable claim, and the explanation as the reader gave it.
AuditNote ==
  LET sections == {c.section : c \in ToSet(PublishableClaims(copy.claims))}
      fields   == {"plain_language_example"}
                  \cup UNION {FieldsOf[s] : s \in sections \cap DOMAIN FieldsOf}
  IN [fields |-> [f \in fields |-> copy.reading[f]],
      paragraphs |-> UNION {ToSet(copy.explanation[key]) : key \in DOMAIN copy.explanation}]

\* Mutant: what the user waits for is written first.
ArtifactsBriefFirst ==
  <<"manifest.json", "paper.md", "deep_reading.md", "sources.jsonl", "artifacts.jsonl",
    "readings.jsonl", "claims.jsonl", "evidence.jsonl", "review_findings.jsonl",
    "verification_actions.jsonl", "review_report.md", "runtime_summary.json">>

\* The order in which run_paper writes.
Artifacts ==
  <<"manifest.json", "sources.jsonl", "artifacts.jsonl", "paper_sections.jsonl",
    "paper_reading_input.md", "reader_attempts.jsonl", "readings.jsonl">>
  \o (IF setup.language = "zh"
      THEN <<"localized_readings.jsonl", "localization_attempts.jsonl">> ELSE <<>>)
  \o <<"anchor_resolution.jsonl", "anchor_repair.jsonl", "claims.jsonl", "evidence.jsonl",
       "review_findings.jsonl", "verification_actions.jsonl", "deep_reading.md",
       "paper.md", "review_report.md", "runtime_summary.json">>

\* The first n files are written; with fewer than all of them the run broke
\* off there, and says nothing of it.
ComposePaper(n) ==
  LET names == ToSet(SubSeq(Artifacts, 1, n))
  IN /\ stage = "displayed" /\ setup.single
     /\ stage' = IF n = Len(Artifacts) THEN "published" ELSE "broken"
     /\ entry' = IF "paper.md" \in names THEN PaperBrief ELSE NoEntry
     /\ files' = IF n = 0 THEN files
                 ELSE [manifest |-> "complete", counted |-> Len(PublishableClaims(claims)),
                       names |-> names,
                       note |-> IF "deep_reading.md" \in names THEN AuditNote ELSE NoNote]
     /\ UNCHANGED <<setup, text, packet, attempt, answer, claims, figures, copy>>

Next ==
  \/ \E address \in Address, localizer \in BOOLEAN : RefusePaper(address, localizer)
  \/ \E address \in Address, answers, parses \in BOOLEAN :
       StartPaper(address, answers, parses)
  \/ BuildPacket /\ UNCHANGED files
  \/ AskReader /\ UNCHANGED files
  \/ \E a \in ReaderReply : ReaderAnswers(a) /\ Recorded(FailedRun)
  \/ ReaderUnavailable /\ Recorded(FailedRun)
  \/ AnchorsHold /\ UNCHANGED files
  \/ \E repairs \in RepairReply : RepairAnswers(repairs) /\ UNCHANGED files
  \/ RepairUnavailable /\ Recorded(FailedRun)
  \/ NoReview /\ UNCHANGED files
  \/ \E review \in ReviewReply : VerifierAnswers(review) /\ UNCHANGED files
  \/ \E review \in ReviewReply : PaperReviewed(review)
  \/ VerifierUnavailable /\ Recorded(FailedRun)
  \/ \E doc \in Documents : ExtractFigures(doc) /\ UNCHANGED files
  \/ NotLocalized /\ UNCHANGED files
  \/ \E reading \in ReadingCopy, display \in DisplayCopy :
       LocalizerAnswers(reading, display) /\ Recorded(FailedLocalization)
  \/ Compose /\ UNCHANGED files
  \/ \E n \in 0 .. Len(Artifacts) : ComposePaper(n)

Spec == Init /\ [][Next]_vars
-----------------------------------------------------------------------------
\* A brief of a single paper never stands alone, even when its run broke off
\* while it wrote: the claims and their evidence are beside it, the manifest
\* counts the very claims it shows, and no file says that the run failed.
BriefBacked ==
  "paper.md" \in files.names =>
    /\ {"claims.jsonl", "evidence.jsonl", "review_findings.jsonl"} \subseteq files.names
    /\ files.manifest = "complete" /\ files.counted = Len(entry.claims)
    /\ {"run_error.json", "localization_error.json"} \cap files.names = {}
=============================================================================
