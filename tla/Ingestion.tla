----------------------------- MODULE Ingestion -----------------------------
(***************************************************************************)
(* The text of a source that is to be read in depth: which way it is       *)
(* fetched (ingestion/router.py, pdf.py, html.py, github_repo.py) and      *)
(* whether it is a paper in full (ingestion/paper_quality.py).             *)
(*                                                                         *)
(* A document is what the server has for the address: [answers, parses,    *)
(* pages, chars, signals], where pages counts those with a text, chars     *)
(* what a tag parser makes of a page of the web, and signals the parts of  *)
(* a paper that can be told from headings and keywords.                    *)
(***************************************************************************)
EXTENDS Integers, FiniteSets

\* has_pdf_signal: an address of its PDF in the metadata, an arXiv or an
\* OpenReview identifier, or an address that looks like one.
PdfSignals == {"pdf_url", "external_arxiv", "openreview", "address"}
HasPdfSignal(s) == s.pdf \cap PdfSignals # {}

ContentType(s) ==
  CASE s.type = "paper" /\ HasPdfSignal(s) -> "application/pdf"
    [] s.type = "repository" -> "application/vnd.github.repository+json"
    [] OTHER -> "text/html"

\* ingest_pdf fails on what does not load or parse and on pages without text,
\* ingest_html on a page without text, ingest_github_repo on a repository
\* without metadata; its README may be missing.
IsIngested(s, doc) ==
  /\ doc.answers
  /\ CASE ContentType(s) = "application/pdf" -> doc.parses /\ doc.pages > 0
       [] ContentType(s) = "text/html" -> doc.chars > 0
       [] OTHER -> s.repo # ""

TextCharFloor        == 8000
LandingPageCharFloor == 12000

\* _quality_decision; only a PDF has a number of pages.
IsFullPaper(s, doc) ==
  \/ ContentType(s) \notin {"application/pdf", "text/html"}
  \/ /\ doc.chars >= TextCharFloor
     /\ doc.signals \cap {"abstract", "introduction"} # {}
     /\ {"method", "experiments_results"} \subseteq doc.signals
     /\ ContentType(s) = "text/html" => doc.chars >= LandingPageCharFloor

\* What keeps a source from its reader, if anything does: only a brief
\* refuses what is not the full paper.
IngestionStatus(s, doc, intent) ==
  CASE ~IsIngested(s, doc) -> "ingestion_failed"
    [] IsIngested(s, doc) /\ intent = "research_brief" /\ ~IsFullPaper(s, doc)
         -> "insufficient_full_text"
    [] OTHER -> "ingested"
=============================================================================
