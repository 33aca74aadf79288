---------------------------- MODULE DeepReading ----------------------------
(***************************************************************************)
(* One deep reading from the ingested text to the reader: packet, reader   *)
(* with its one retry, validation, repair of anchors, policy, the model's  *)
(* review together with the claims of another paper, the Chinese copy and  *)
(* the entry of the report (analysis/deep_reading.py, pipeline/daily.py,   *)
(* compose/draft.py).  PaperRun takes the same steps for a single paper    *)
(* and has the specification of both.                                      *)
(*                                                                         *)
(* Every answer of a model is an input: it may be anything the code can    *)
(* tell apart, and every request may fail.                                 *)
(***************************************************************************)
EXTENDS PaperSections, Localization, Gallery

CONSTANTS
  Paper,           \* [url, title] of the paper that is read
  Texts,           \* the texts it may have: sequences of pages
  Budget,          \* characters of the packet (DEFAULT_READING_BUDGET)
  ReaderReply,     \* what the reader may answer
  RepairReply,     \* sequences of repairs a repairer may answer with
  ReviewReply,     \* what the verifier may answer
  ReadingCopy,     \* what the localizer may answer for the reading
  DisplayCopy,     \* and for the claims
  OtherClaims,     \* the claims another paper of the run brings along
  Documents        \* what there may be to take figures from

\* What the models answer with are lists where the code goes through them,
\* and what else the run has read is another paper: selection merges sources
\* of one address, and those of one title that has a Latin letter or a digit
\* (discovery/source_selection.py); of the rest it is assumed.
ASSUME ReadingAssumption ==
  /\ IsList(OtherClaims)
  /\ \A c \in ToSet(OtherClaims) :
       IsClaim(c) /\ \A a \in c.evidence : a.source # Paper.url /\ a.title # Paper.title
  /\ \A a \in ReaderReply :
       /\ IsList(a.units) /\ a.rejected \in Nat
       /\ \A key \in DOMAIN a.explanation : IsList(a.explanation[key])
  /\ \A repairs \in RepairReply : IsList(repairs)
  /\ \A review \in ReviewReply : IsList(review.decisions)

\* What is read are lists of pages, and the packet (24,000 characters) has room
\* for the five chunks that may come before the conclusion, and a little more.
ASSUME TextsAssumption ==
  /\ \A pages \in Texts : IsText(pages)
  /\ Budget \in Nat /\ Budget >= 5 * 4500 + 88

\* Two papers of a run are two at OpenReview, or else have two addresses and
\* two families at arXiv: selection merges the others (discovery/dedupe.py and
\* source_selection.py).
OtherPaper(url) ==
  LET mine  == Identity[Paper.url]
      named == Identity[url]
  IN \/ mine.openreview # named.openreview
     \/ /\ mine.openreview = "" /\ mine.page # named.page
        /\ \A doc \in Documents : doc.arxiv = "" \/ named.arxiv # doc.arxiv

ASSUME DocumentsAssumption ==
  /\ \A doc \in Documents : IsDocument(doc)
  /\ \A c \in ToSet(OtherClaims) : \A a \in c.evidence : OtherPaper(a.source)

VARIABLES
  setup,     \* the kind of run, the providers it has, and its language
  stage,     \* how far the reading is
  text,      \* the pages, until they are in the packet
  packet,    \* what the reader is shown
  attempt,   \* the number of the request to the reader
  answer,    \* the answer that could be parsed
  claims,    \* the claims of this paper, from "reviewed" on of both papers
  figures,   \* those that were taken from the paper
  copy,      \* what is displayed in place of the reading and the claims
  entry      \* what the report shows of this paper

\* A single paper is reviewed by its reader when there is no verifier.
Setup ==
  {s \in [single : BOOLEAN, repairer : BOOLEAN, verifier : BOOLEAN, language : {"en", "zh"}] :
     s.single => s.verifier}

NoPacket == [chunks |-> <<>>, warnings |-> {}]
NoCopy   == [reading |-> <<>>, explanation |-> <<>>, claims |-> <<>>, figures |-> <<>>]
NoEntry  == [shown |-> FALSE, claims |-> <<>>, paragraphs |-> {}, fallbacks |-> {},
             figures |-> <<>>]
NoAnswer == [units |-> <<>>]

\* A run of several papers comes here with what it has ingested.
ReadingInit ==
  /\ setup \in Setup
  /\ text \in Texts
  /\ ~setup.single => \E i \in DOMAIN text : text[i].size > 0
  /\ stage = IF setup.single THEN "requested" ELSE "ingested"
  /\ packet = NoPacket
  /\ attempt = 0
  /\ answer = NoAnswer
  /\ claims = <<>>
  /\ figures = <<>>
  /\ copy = NoCopy
  /\ entry = NoEntry

\* build_reading_packet, before the reader is asked for the first time.
BuildPacket ==
  /\ stage = "ingested"
  /\ stage' = "packed"
  /\ packet' = BuildReadingPacket(text, Budget)
  /\ UNCHANGED <<setup, text, attempt, answer, claims, figures, copy, entry>>

\* The first request; the text is not looked at as pages any more.
AskReader ==
  /\ stage = "packed"
  /\ stage' = "reading"
  /\ attempt' = 1
  /\ text' = <<>>
  /\ packet' = NoPacket
  /\ UNCHANGED <<setup, answer, claims, figures, copy, entry>>

\* An answer that cannot be parsed is asked for once more, with the reason.
ReaderAnswers(a) ==
  /\ stage = "reading"
  /\ a \in ReaderReply
  /\ IF ParseFails(a)
     THEN /\ stage' = IF attempt = 2 THEN "failed" ELSE "reading"
          /\ attempt' = IF attempt = 2 THEN 2 ELSE attempt + 1
          /\ UNCHANGED <<answer, claims>>
     ELSE /\ stage' = "validated"
          /\ answer' = a
          /\ claims' = ValidatedClaims(Paper, a)
          /\ UNCHANGED attempt
  /\ UNCHANGED <<setup, text, packet, figures, copy, entry>>

\* The request itself fails: the reading does, whatever the attempt.
ReaderUnavailable ==
  /\ stage = "reading"
  /\ stage' = "failed"
  /\ UNCHANGED <<setup, text, packet, attempt, answer, claims, figures, copy, entry>>

\* Anchors are resolved in any case; the repairer is asked when there is one
\* and a claim to repair.
AnchorsHold ==
  /\ stage = "validated"
  /\ setup.repairer => ~AsksForRepair(claims)
  /\ stage' = "read"
  /\ claims' = ApplyAnchorResolution(claims)
  /\ UNCHANGED <<setup, text, packet, attempt, answer, figures, copy, entry>>

RepairAnswers(repairs) ==
  /\ stage = "validated"
  /\ setup.repairer /\ AsksForRepair(claims)
  /\ stage' = "read"
  /\ claims' = ApplyAnchorRepair(Paper, claims, repairs)
  /\ UNCHANGED <<setup, text, packet, attempt, answer, figures, copy, entry>>

\* A repairer that does not answer takes the whole reading with it.
RepairUnavailable ==
  /\ stage = "validated"
  /\ setup.repairer /\ AsksForRepair(claims)
  /\ stage' = "failed"
  /\ UNCHANGED <<setup, text, packet, attempt, answer, claims, figures, copy, entry>>

(***************************************************************************)
(* The run goes on with the claims of all its papers.                      *)
(***************************************************************************)
AllClaims == EnforceEvidencePolicy(OtherClaims \o claims)

NoReview ==
  /\ stage = "read" /\ ~setup.single /\ ~setup.verifier
  /\ stage' = "reviewed"
  /\ claims' = AllClaims
  /\ UNCHANGED <<setup, text, packet, attempt, answer, figures, copy, entry>>

VerifierAnswers(review) ==
  /\ stage = "read" /\ ~setup.single /\ setup.verifier
  /\ stage' = "reviewed"
  /\ claims' = EnforceEvidencePolicy(
                 ModelReviewPublishableClaims(AllClaims, review).claims)
  /\ UNCHANGED <<setup, text, packet, attempt, answer, figures, copy, entry>>

VerifierUnavailable ==
  /\ stage = "read" /\ setup.verifier
  /\ stage' = "failed"
  /\ UNCHANGED <<setup, text, packet, attempt, answer, claims, figures, copy, entry>>

\* The figures of the paper, for the claims as they were reviewed; a run of
\* a single paper has none.  What the extraction does not know as a failure
\* ends the run.
ExtractFigures(doc) ==
  /\ stage = "reviewed" /\ ~setup.single
  /\ IF ExtractionRaises(doc)
     THEN stage' = "failed" /\ UNCHANGED figures
     ELSE /\ stage' = "illustrated"
          /\ figures' = ExtractDeepReadFigures(doc, claims, Paper.url)
  /\ UNCHANGED <<setup, text, packet, attempt, answer, claims, copy, entry>>

ReadyToDisplay == stage = IF setup.single THEN "reviewed" ELSE "illustrated"

\* localize_report_content returns what it was given unless the report is
\* Chinese.
NotLocalized ==
  /\ ReadyToDisplay /\ setup.language # "zh"
  /\ stage' = "displayed"
  /\ copy' = [reading |-> LocalizedReading([fields |-> {}]),
              explanation |-> answer.explanation, claims |-> claims, figures |-> figures]
  /\ UNCHANGED <<setup, text, packet, attempt, answer, claims, figures, entry>>

\* A failed request ends a Chinese run: there is no public article.
LocalizerAnswers(reading, display) ==
  /\ ReadyToDisplay /\ setup.language = "zh"
  /\ LET localized == LocalizeReportContent(answer.explanation, claims, figures, reading, display)
     IN IF LocalizationFailed(localized.attempts)
        THEN stage' = "failed" /\ UNCHANGED copy
        ELSE /\ stage' = "displayed"
             /\ copy' = [reading |-> localized.reading,
                         explanation |-> localized.explanation,
                         claims |-> localized.claims, figures |-> localized.figures]
  /\ UNCHANGED <<setup, text, packet, attempt, answer, claims, figures, entry>>

(***************************************************************************)
(* The entry of the report.                                                *)
(***************************************************************************)

\* Mutant: the claims of every paper of the run belong to this one.
ClaimsOfTheRun(verified) == verified

\* _claims_for_reading: a claim belongs to the reading when one of its
\* anchors has the address or the title of the paper, or the title that the
\* reader gave it.
ClaimsForReading(verified) ==
  Sift(verified, {c \in ToSet(verified) : \E a \in c.evidence :
                    a.source = Paper.url \/ a.title \in {Paper.title, answer.title}})

\* _deep_read_entries; an entry without claims is left out of the report.
DeepReadEntry ==
  LET own   == ClaimsForReading(PublishableClaims(copy.claims))
      prose == PublicExplanation(copy.explanation, own)
  IN [shown |-> own # <<>>, claims |-> own,
      paragraphs |-> prose.paragraphs, fallbacks |-> prose.fallbacks,
      figures |-> IF own = <<>> THEN <<>> ELSE copy.figures]

Compose ==
  /\ stage = "displayed" /\ ~setup.single
  /\ stage' = "published"
  /\ entry' = DeepReadEntry
  /\ UNCHANGED <<setup, text, packet, attempt, answer, claims, figures, copy>>
-----------------------------------------------------------------------------
\* Whatever the paper has of the roles a reading needs is in the packet: no
\* role the coverage check is content with is crowded out by the budget.
CoverageHolds ==
  stage = "packed" =>
    \A group \in RequiredGroups :
      group \in packet.warnings
      \/ \E c \in ToSet(packet.chunks) : c.role \in group

\* Which unit of the answer a claim came from, if any did.
UnitOf(claim) ==
  {answer.units[i] : i \in {j \in DOMAIN answer.units : UnitId(answer.units, j) = claim.id}}

OwnClaims(cs) == {c \in ToSet(cs) : \A a \in c.evidence : a.source = Paper.url}

\* What the report says of the paper is anchored in its text: every quote is
\* in the text as it stands, each number and each name of the claim is in the
\* lines around one of them, and none is a table row without the method the
\* claim names, no matter which quotes the reader and the repairer made up
\* and in which order.
PublishedAnchored ==
  \A c \in OwnClaims(entry.claims) :
    LET quotes == {a.quote : a \in c.evidence}
    IN /\ quotes # {} /\ \A q \in quotes : Resolved(q)
       /\ ~NumericFailure(c, quotes) /\ ~EntityFailure(c, quotes)

\* A claim that the reader or the lint held back although it came with
\* quotes is not published, whatever the repairer and the verifier say.
HeldBackStaysBack ==
  \A c \in OwnClaims(entry.claims) : \A u \in UnitOf(c) :
    u.quotes # {} => UnitReason(u) = "supported"

\* A paragraph the reader is shown rests on claims the report publishes of
\* this paper, or of the one whose title the reader gave it: a claim of some
\* other paper with the same identifier does not carry it, nor does a claim
\* the verifier demoted.
ExplanationSupported ==
  \A p \in entry.paragraphs :
    p.ids # <<>> /\ \A id \in ToSet(p.ids) : \E c \in ToSet(claims) :
      /\ c.id = id /\ IsPublishable(c)
      /\ \E a \in c.evidence : a.source = Paper.url \/ a.title = answer.title

\* A figure the reader is shown rests on a claim that the same entry shows
\* and that is anchored in this very paper.  If it was cropped from a page
\* whose text is known, the crop lies on the page, above the line that names
\* the figure, with no other figure's or table's caption and not three lines
\* of a paragraph in it.
FigureBacked ==
  \A f \in ToSet(entry.figures) :
    /\ f.claim.sources = {Paper.url}
    /\ \E c \in ToSet(entry.claims) :
         c.id = f.claim.id /\ c.section = f.claim.section
         /\ {a.source : a \in c.evidence} = f.claim.sources
    /\ \A k \in ToSet(f.crop) : k.page.text = "boxes" =>
         LET named == CaptionLine(k.page, f.title)[1]
         IN /\ k.box.x >= 0 /\ k.box.x + k.box.width <= k.page.width
            /\ k.box.y >= 0 /\ k.box.y + k.box.height < named.top
            /\ CropTextIsPublishable(k.page, k.box, f.title)

\* No channel shows an image that is not there, and none but WeChat loses a
\* report over one: the archive and Zhihu show what the mail shows, and the
\* draft at WeChat has every figure of the entry, each converted, found and
\* uploaded, or is not created.  Where every upload succeeds and nothing else
\* on the page offends, only a figure that could not be converted or is not
\* found keeps the draft from being created.
ImagesThere ==
  LET shown == entry.figures
      fine(i) == shown[i].located /\ shown[i].renderable
  IN /\ \A i \in ToSet(ArchiveGallery(shown) \o EmailGallery(shown) \o ZhihuGallery(shown)) : fine(i)
     /\ ToSet(EmailGallery(shown)) \subseteq ToSet(ArchiveGallery(shown))
     /\ ToSet(EmailGallery(shown)) \subseteq ToSet(ZhihuGallery(shown))
     /\ \A uploads \in [DOMAIN shown -> UploadEnds], offends \in BOOLEAN :
          WeChatOutcome(shown, uploads, offends) = "ready"
            <=> ~offends /\ \A i \in DOMAIN shown : fine(i) /\ uploads[i] = "hosted"
=============================================================================
