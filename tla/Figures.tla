------------------------------- MODULE Figures -------------------------------
(***************************************************************************)
(* The figures of a paper that was read (analysis/figures.py): from the    *)
(* LaTeX sources at arXiv, or else cropped out of its PDF.  A figure is    *)
(* taken only for a publishable claim of the same source with which its    *)
(* caption shares words.                                                   *)
(*                                                                         *)
(* A document is [stored, pdf, arxiv, sources, blocks, pages, tools,       *)
(* astray]: whether its text was stored, and as a PDF; its identifier at   *)
(* arXiv, what the download of its sources comes to, and the figure blocks *)
(* in them; the pages of the PDF; the converters of the machine; astray    *)
(* when a directory above the run is called "figures".                     *)
(***************************************************************************)
EXTENDS PdfCrop, EvidenceReview

CONSTANTS
  ClaimWords,   \* the words of a claim: identifier -> set of words
  Identity      \* address -> [openreview, page, arxiv]: who an address names

IsDocument(doc) ==
  /\ IsList(doc.pages) /\ \A page \in ToSet(doc.pages) : IsPage(page)
  /\ IsList(doc.blocks) /\ \A block \in ToSet(doc.blocks) : IsList(block.images)

MaxFigures == 3

\* FIGURE_KEYWORD_WEIGHTS, in tenths.
KeywordWeight ==
  [architecture |-> 30, framework |-> 26, pipeline |-> 26, system |-> 22, overview |-> 22,
   method |-> 20, mechanism |-> 20, design |-> 18, benchmark |-> 18, evaluation |-> 18,
   result |-> 16, ablation |-> 16, performance |-> 14, table |-> 10]

\* The words of the path and the label count as those of the caption do.
FigureScore(words) ==
    MapThenSumSet(LAMBDA w : KeywordWeight[w], words \cap DOMAIN KeywordWeight)
  + (IF "fig:" \in words /\ words \cap {"architecture", "framework"} # {} THEN 8 ELSE 0)
  - (IF words \cap {"appendix", "supplement"} # {} THEN 10 ELSE 0)

(***************************************************************************)
(* The claim a caption is bound to.                                        *)
(***************************************************************************)

\* The address of OpenReview names the paper by its query alone; where there
\* is none, the page or the family of versions at arXiv does.
ClaimMatchesSource(c, url, arxiv) ==
  \E a \in c.evidence :
    LET mine  == Identity[url]
        named == Identity[a.source]
    IN IF mine.openreview # "" \/ named.openreview # ""
       THEN mine.openreview = named.openreview
       ELSE \/ named.page = mine.page
            \/ arxiv # "" /\ named.arxiv = arxiv

WordsOf(c) == IF c.id \in DOMAIN ClaimWords THEN ClaimWords[c.id] ELSE {}

\* Mutant: addresses are compared without their query.
MatchByPage(words, claims, url, arxiv) ==
  SelectSeq(PublishableClaims(claims),
    LAMBDA c : /\ \E a \in c.evidence : Identity[a.source].page = Identity[url].page
               /\ Cardinality(words \cap WordsOf(c)) >= 2)

\* _best_matching_claim, as a sequence of at most one: the first of those
\* that share the most words with the caption, and no fewer than two.
BestMatchingClaim(words, claims, url, arxiv) ==
  LET published == PublishableClaims(claims)
      verified  == {c \in ToSet(published) : ClaimMatchesSource(c, url, arxiv)}
      shared(c) == Cardinality(words \cap WordsOf(c))
      best == Sift(published, {c \in verified : /\ shared(c) >= 2
                                                /\ \A d \in verified : shared(d) <= shared(c)})
  IN IF best = <<>> THEN <<>> ELSE <<best[1]>>

\* The best score first; candidates of one score in the order they were met.
Ranked(candidates) ==
  RankedBy(candidates, [i \in DOMAIN candidates |-> <<FigureScore(candidates[i].words)>>])

Figure(candidate, claim, suffix, renderable, page, crop, doc) ==
  [title |-> candidate.title,
   claim |-> [id |-> claim.id, section |-> claim.section,
              sources |-> {a.source : a \in claim.evidence}],
   suffix |-> suffix, renderable |-> renderable, page |-> page, crop |-> crop,
   located |-> ~doc.astray, lang |-> "en"]

(***************************************************************************)
(* From LaTeX.  A block is [title, words, images]; an image is what stands *)
(* where it is looked for: beside the file, at the root, anywhere in the   *)
(* sources; "" for nothing.                                                *)
(***************************************************************************)
RasterExtensions == {"png", "jpg", "gif", "webp"}
ImageExtensions  == RasterExtensions \cup {"svg", "pdf", "eps"}

ResolveImagePath(image) ==
  LET found == Sift(image, ImageExtensions)
  IN IF found = <<>> THEN "" ELSE found[1]

ParseFigureCandidates(blocks) ==
  FlattenSeq([b \in DOMAIN blocks |->
    LET images == Sift(blocks[b].images,
                       {i \in ToSet(blocks[b].images) : ResolveImagePath(i) # ""})
    IN [k \in DOMAIN images |-> [title |-> blocks[b].title, words |-> blocks[b].words,
                                 suffix |-> ResolveImagePath(images[k])]]])

\* A tool is "absent", "fails" or "works".
ConvertWithSips(tools) == tools.sips = "works"

Converts(suffix, tools) ==
  CASE suffix = "svg" -> tools.rsvg = "works" \/ ConvertWithSips(tools)
    [] suffix = "pdf" -> tools.pdftoppm = "works"
                         \/ (tools.pdftoppm = "absent" /\ ConvertWithSips(tools))
    [] suffix = "eps" -> ConvertWithSips(tools)
    [] OTHER          -> FALSE

\* What cannot be converted is copied as it is and marked.
CopyOrConvertAsset(suffix, tools) ==
  IF suffix \in RasterExtensions THEN [suffix |-> suffix, renderable |-> TRUE]
  ELSE IF Converts(suffix, tools) THEN [suffix |-> "png", renderable |-> TRUE]
  ELSE [suffix |-> suffix, renderable |-> FALSE]

\* One candidate after the other, unless no claim is near its caption.
IllustrateNext(doc, figures, c, claim) ==
  LET asset == CopyOrConvertAsset(c.suffix, doc.tools)
  IN IF Len(figures) >= MaxFigures \/ claim = <<>> THEN figures
     ELSE Append(figures, Figure(c, claim[1], asset.suffix, asset.renderable, 0, <<>>, doc))

ExtractLatexFigures(doc, claims, url) ==
  LET ranked == Ranked(ParseFigureCandidates(doc.blocks))
      taken[n \in 0 .. Len(ranked)] ==
        IF n = 0 THEN <<>>
        ELSE IllustrateNext(doc, taken[n - 1], ranked[n],
               BestMatchingClaim(ranked[n].words, claims, url, doc.arxiv))
  IN taken[Len(ranked)]

(***************************************************************************)
(* From the PDF.  The text of a page is a sequence of lines [kind, number, *)
(* words, chars, stop]: the kind is "caption" for a line that may begin    *)
(* the caption of the figure with the number, "float" for one of a table,  *)
(* "heading", "blank" or "text"; stop says that it ends in a full stop.    *)
(***************************************************************************)

\* One more line of a caption, unless the caption has ended.
AddCaptionLine(caption, line) ==
  LET chars == caption.chars + 1 + line.chars
  IN IF \/ caption.done \/ line.kind # "text"
        \/ (caption.stop /\ caption.chars >= 80)
     THEN [caption EXCEPT !.done = TRUE]
     ELSE [words |-> caption.words \cup line.words, chars |-> chars, stop |-> line.stop,
           done  |-> line.stop /\ chars >= 120]

PdfCaptionFromLines(lines, start) ==
  LET last == IF start + 7 < Len(lines) THEN start + 7 ELSE Len(lines)
  IN FoldLeft(AddCaptionLine,
       [words |-> lines[start].words, chars |-> lines[start].chars,
        stop |-> lines[start].stop, done |-> FALSE],
       SubSeq(lines, start + 1, last)).words

ParsePdfFigureCandidates(pages) ==
  FlattenSeq([p \in DOMAIN pages |->
    LET text   == pages[p].body
        starts == Sift([i \in DOMAIN text |-> i], {i \in DOMAIN text : text[i].kind = "caption"})
    IN [k \in DOMAIN starts |->
          [title |-> text[starts[k]].number, page |-> p,
           words |-> PdfCaptionFromLines(text, starts[k])]]])

\* A figure out of a candidate: the helper fails, or there is no crop, or it
\* is not rendered or visibly clipped, or there is one.
Cropped(doc, state, c, claim, page, box) ==
  CASE page.text = "error" \/ (box # NoBox /\ page.rendered = "error") ->
         [state EXCEPT !.failed = TRUE]
    [] page.text # "error" /\ box # NoBox /\ page.rendered = "clean" ->
         [state EXCEPT !.figures =
            Append(@, Figure(c, claim, "png", TRUE, c.page, <<[box |-> box, page |-> page]>>, doc))]
    [] OTHER -> state

\* One candidate after the other: at most one figure of a page.  A helper
\* that fails ends it all.
CropNext(doc, state, c, claim) ==
  IF \/ state.failed \/ claim = <<>> \/ Len(state.figures) >= MaxFigures
     \/ c.page \in {state.figures[k].page : k \in DOMAIN state.figures}
  THEN state
  ELSE Cropped(doc, state, c, claim[1], doc.pages[c.page], CaptionCropBox(doc.pages[c.page], c.title))

ExtractPdfCroppedFigures(doc, claims, url) ==
  LET ranked == Ranked(ParsePdfFigureCandidates(doc.pages))
      taken[n \in 0 .. Len(ranked)] ==
        IF n = 0 THEN [figures |-> <<>>, failed |-> FALSE]
        ELSE CropNext(doc, taken[n - 1], ranked[n],
               BestMatchingClaim(ranked[n].words, claims, url, doc.arxiv))
  IN IF doc.pdf THEN taken[Len(ranked)] ELSE [figures |-> <<>>, failed |-> FALSE]

\* A download that is refused leaves the PDF; one that breaks off, or sources
\* that are no archive but look like one, raise what nobody catches.
ExtractPaperFigures(doc, claims, url) ==
  IF doc.arxiv = "" \/ doc.sources = "refused"
  THEN ExtractPdfCroppedFigures(doc, claims, url)
  ELSE [figures |-> ExtractLatexFigures(doc, claims, url), failed |-> FALSE]

\* _extract_deep_read_figures for one paper: a failure that is known as one
\* leaves it without figures.
ExtractDeepReadFigures(doc, claims, url) ==
  LET extracted == ExtractPaperFigures(doc, claims, url)
  IN IF ~doc.stored \/ extracted.failed THEN <<>> ELSE extracted.figures

ExtractionRaises(doc) == doc.stored /\ doc.arxiv # "" /\ doc.sources = "broken"
=============================================================================
