------------------------------ MODULE PdfCrop ------------------------------
(***************************************************************************)
(* Where on the page of a PDF a figure is: the region between its caption  *)
(* and the text above it (analysis/figures.py).                            *)
(*                                                                         *)
(* A page is [text, width, height, lines, mark, rendered].  Its text is    *)
(* known as "boxes", not at all ("none"), or the helper that is asked for  *)
(* it fails ("error").  lines are the runs of words that stand together,   *)
(* in the order of the document: [left, right, top, bottom, words, names,  *)
(* starts], where names is the figure whose number the line has after the  *)
(* word "Figure", 0 for none, and starts is "table", "figure" or "text".   *)
(* The words of a line are evenly spread over it; lines at one height have *)
(* one top.  mark is where pypdf finds the caption.  All is in points.     *)
(***************************************************************************)
EXTENDS Lists

IsPage(page) ==
  /\ page.width \in Nat /\ page.height \in Nat /\ IsList(page.body) /\ IsList(page.lines)
  /\ \A l \in ToSet(page.lines) :
       l.left \in Nat /\ l.right \in Nat /\ l.top \in Nat /\ l.bottom \in Nat /\ l.top <= l.bottom

NoBox == [x |-> 0, y |-> 0, width |-> 0, height |-> 0]

MinCropWidth  == 180
MinCropHeight == 120

CropSizeHolds(page, width, height) ==
  /\ width >= MinCropWidth /\ height >= MinCropHeight
  /\ 100 * height <= 62 * page.height

\* The first line of the document with "Figure" and the number: the caption,
\* unless the text speaks of the figure before.
CaptionLine(page, number) ==
  Sift(page.lines, {l \in ToSet(page.lines) : l.names = number})

\* A wide caption stands under a figure of the whole page, another one under
\* a figure of its column; the columns are 4 % of the width apart.
CaptionColumn(page, caption) ==
  LET half == page.width \div 2
      gap  == page.width \div 50
  IN IF 100 * (caption.right - caption.left) >= 45 * page.width
     THEN [x |-> 0, width |-> page.width]
     ELSE [x |-> IF caption.left + caption.right < page.width THEN 0 ELSE half + gap,
           width |-> half - gap]

\* The lines in the column above the caption, from the top.
LinesAbove(page, left, right, captionTop) ==
  LET above == Sift(page.lines, {l \in ToSet(page.lines) :
                      l.right >= left /\ l.left <= right /\ l.bottom < captionTop - 4})
      spans == Unrepeated([i \in DOMAIN above |-> [top |-> above[i].top, bottom |-> above[i].bottom]])
  IN RankedBy(spans, [i \in DOMAIN spans |-> <<-spans[i].top>>])

\* The top of the crop: below the lines with the widest gap under them, of
\* those above the caption; -1 when no gap is wide enough.
CropTopFromTextGap(page, lines, captionTop) ==
  LET below(i) == IF i = Len(lines) THEN captionTop ELSE lines[i + 1].top
      bottom(i) == CHOOSE b \in {lines[j].bottom : j \in 1 .. i} :
                     \A j \in 1 .. i : lines[j].bottom <= b
      gap(i) == below(i) - bottom(i)
      widest == CHOOSE i \in DOMAIN lines : \A j \in DOMAIN lines :
                   gap(j) < gap(i) \/ (gap(j) = gap(i) /\ i <= j)
      least  == IF page.height > 800 THEN page.height \div 40 ELSE 20
      reach  == IF 36 * page.height > 36000 THEN 360 ELSE (36 * page.height) \div 100
  IN IF lines = <<>> THEN IF captionTop > reach THEN captionTop - reach ELSE 0
     ELSE IF gap(widest) < least THEN -1 ELSE bottom(widest) + 4

CropBetween(page, caption, left, width, top) ==
  LET height == caption.top - 8 - top
  IN IF 100 * caption.top <= 12 * page.height \/ top = -1 \/ ~CropSizeHolds(page, width, height)
     THEN NoBox ELSE [x |-> left, y |-> top, width |-> width, height |-> height]

CropAbove(page, caption, left, width) ==
  CropBetween(page, caption, left, width,
    CropTopFromTextGap(page, LinesAbove(page, left, left + width, caption.top), caption.top))

CaptionCropBoxFromText(page, number) ==
  LET found   == CaptionLine(page, number)
      column  == CaptionColumn(page, found[1])
      padding == IF 15 * page.width >= 9000 THEN (15 * page.width) \div 1000 ELSE 8
  IN IF found = <<>> THEN NoBox
     ELSE CropAbove(page, found[1], column.x + padding, column.width - 2 * padding)

\* What the crop holds of a line, if its middle is in it: where it begins and
\* ends, and how many of its words.
Clipped(l, box) ==
  LET left  == IF l.left > box.x THEN l.left ELSE box.x
      right == IF l.right < box.x + box.width THEN l.right ELSE box.x + box.width
  IN [l EXCEPT !.left = left, !.right = right,
               !.words = (l.words * (right - left)) \div (l.right - l.left)]

LinesIn(page, box) ==
  {Clipped(l, box) :
     l \in {k \in ToSet(page.lines) :
              /\ k.left < box.x + box.width /\ k.right > box.x
              /\ k.top + k.bottom >= 2 * box.y
              /\ k.top + k.bottom <= 2 * (box.y + box.height)}}

\* Lines at one height are one visual line; it is a paragraph's when it has
\* seven words over 65 % of the width.
IsParagraphLine(runs, box) ==
  LET leftmost  == CHOOSE l \in runs : \A k \in runs : l.left <= k.left
      rightmost == CHOOSE l \in runs : \A k \in runs : l.right >= k.right
  IN /\ MapThenSumSet(LAMBDA l : l.words, runs) >= 7
     /\ 100 * (rightmost.right - leftmost.left) >= 65 * box.width

TextIsPublishable(lines, box, number) ==
  LET heights == {l.top : l \in lines}
      at(h)   == {l \in lines : l.top = h}
      first(h) == CHOOSE l \in at(h) : \A k \in at(h) : l.left <= k.left
  IN /\ \A h \in heights :
          first(h).starts # "table" /\ (first(h).starts = "figure" => first(h).names = number)
     /\ Cardinality({h \in heights : IsParagraphLine(at(h), box)}) < 3

CropTextIsPublishable(page, box, number) == TextIsPublishable(LinesIn(page, box), box, number)

\* Without the boxes of the words, pypdf's position of the caption has to do:
\* everything above it on the page, whatever it is.
PypdfCaptionCropBox(page) ==
  LET captionTop == page.mark.top
      margin     == IF 9 * page.width > 1200 THEN (9 * page.width) \div 100 ELSE 12
      top        == IF 45 * page.height > 12000 THEN (45 * page.height) \div 1000 ELSE 12
      width      == page.width - 2 * margin
      height     == captionTop - (IF page.mark.size > 6 THEN page.mark.size ELSE 6) - top
  IN IF \/ page.mark.size = 0
        \/ 100 * captionTop <= 8 * page.height \/ 100 * captionTop >= 55 * page.height
        \/ ~CropSizeHolds(page, width, height)
     THEN NoBox ELSE [x |-> margin, y |-> top, width |-> width, height |-> height]

\* _pdf_caption_crop_box: a crop that holds text of the page is none.
UnlessText(page, box, number) ==
  IF box # NoBox /\ CropTextIsPublishable(page, box, number) THEN box ELSE NoBox

CaptionCropBox(page, number) ==
  IF page.text = "none" THEN PypdfCaptionCropBox(page)
  ELSE UnlessText(page, CaptionCropBoxFromText(page, number), number)
=============================================================================
