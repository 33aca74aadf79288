--------------------------- MODULE PaperSections ---------------------------
(***************************************************************************)
(* What of an ingested paper the reader is shown                           *)
(* (analysis/paper_sections.py).  A page is what the patterns of the       *)
(* module find in it: the headings it has, the role its keywords speak for *)
(* ("other" when none do), how many keywords add to its priority, whether  *)
(* it starts the references or an appendix, and its size in characters.    *)
(***************************************************************************)
EXTENDS Lists

SectionRole == {"abstract", "introduction", "method", "experiments_results",
                "limitations_conclusion", "related_work", "other", "references"}

\* A text: pages with a size, and a role for what their keywords speak of.
IsText(pages) ==
  IsList(pages) /\ \A p \in ToSet(pages) : p.size \in Nat /\ p.keywords \in SectionRole

\* The order in which headings are looked for; an abstract only counts on
\* the first two pages.
HeadingOrder == <<"introduction", "limitations_conclusion", "related_work",
                  "experiments_results", "method">>

ClassifyRole(number, page) ==
  LET named == Sift(HeadingOrder, page.headings)
  IN CASE number <= 2 /\ "abstract" \in page.headings -> "abstract"
       [] ~(number <= 2 /\ "abstract" \in page.headings) /\ named # <<>> -> named[1]
       [] OTHER -> page.keywords

RoleScore ==
  [r \in SectionRole |->
     CASE r = "abstract" -> 90              [] r = "introduction" -> 80
       [] r = "method" -> 75                [] r = "experiments_results" -> 85
       [] r = "limitations_conclusion" -> 82 [] r = "related_work" -> 70
       [] r = "other" -> 30                 [] OTHER -> 0]

PriorityScore(role, page) == RoleScore[role] + Min({page.bonus, 20})

\* Pages with a text become chunks in order; once the references have
\* started, every page is part of them until an appendix starts.
BuildPaperSections(pages) ==
  LET inReferences[n \in 0 .. Len(pages)] ==
        CASE n = 0 -> FALSE
          [] n > 0 /\ pages[n].size = 0 -> inReferences[n - 1]
          [] OTHER -> \/ pages[n].starts = "references"
                      \/ inReferences[n - 1] /\ pages[n].starts # "appendix"
      role(n) == IF inReferences[n] THEN "references" ELSE ClassifyRole(n, pages[n])
      chunk(n) == [role |-> role(n), page |-> n, size |-> pages[n].size,
                   score |-> PriorityScore(role(n), pages[n])]
      told == Sift([n \in DOMAIN pages |-> n], {n \in DOMAIN pages : pages[n].size > 0})
  IN [k \in DOMAIN told |-> chunk(told[k])]

RequiredGroups == {{"abstract", "introduction"}, {"method"},
                   {"experiments_results"}, {"limitations_conclusion"}}

\* The groups of roles the paper has no page for.
CoverageWarnings(chunks) ==
  LET roles == {c.role : c \in ToSet(chunks)} \ {"references"}
  IN {g \in RequiredGroups : g \cap roles = {}}

RoleLimit ==
  [r \in SectionRole |->
     CASE r = "abstract" -> 2500            [] r = "introduction" -> 3000
       [] r = "method" -> 4500              [] r = "experiments_results" -> 4500
       [] r = "limitations_conclusion" -> 3500 [] r = "related_work" -> 3000
       [] OTHER -> 1500]

ChunkCharLimit(role, budget) == Min({RoleLimit[role], Max({800, budget \div 2})})

\* The size of a chunk cut to a budget: 20 characters are given up for a
\* marker of 12, unless the budget is too small to carry one.
BoundedSize(size, budget) ==
  CASE budget <= 0 -> 0
    [] budget > 0 /\ size <= budget -> size
    [] budget > 0 /\ size > budget /\ budget < 50 -> budget
    [] OTHER -> budget - 20 + 12

\* add(chunk): a chunk enters while budget remains, cut to what its role and
\* the budget allow; a stump of fewer than 80 characters is left out.
AddChunk(acc, chunk, budget) ==
  LET taken == BoundedSize(chunk.size,
                           Min({acc.remaining, ChunkCharLimit(chunk.role, budget)}))
      stump == taken < 80 /\ chunk.size > taken
  IN IF \/ chunk.page \in acc.pages \/ chunk.role = "references"
        \/ acc.remaining <= 0 \/ taken = 0 \/ stump
     THEN acc
     ELSE [pages |-> acc.pages \cup {chunk.page}, remaining |-> acc.remaining - taken,
           chunks |-> Append(acc.chunks, [chunk EXCEPT !.size = taken])]

\* Mutant: the experiments may take what the conclusion needs.
CoveragePassGreedy == << <<"abstract", 1>>, <<"introduction", 1>>, <<"method", 1>>,
                         <<"experiments_results", 5>>, <<"limitations_conclusion", 1>> >>

CoveragePass == << <<"abstract", 1>>, <<"introduction", 1>>, <<"method", 1>>,
                   <<"experiments_results", 2>>, <<"limitations_conclusion", 1>>,
                   <<"related_work", 1>> >>
ExtraPass    == << <<"experiments_results", 2>>, <<"limitations_conclusion", 1>>,
                   <<"method", 1>>, <<"related_work", 1>> >>

\* What is not selected of some roles, by priority and then by page.
Unselected(acc, chunks, roles) ==
  LET left == Sift(chunks, {c \in ToSet(chunks) : c.role \in roles /\ c.page \notin acc.pages})
  IN RankedBy(left, [i \in DOMAIN left |-> <<left[i].score, -left[i].page>>])

AddChunks(acc, chunks, budget) ==
  LET added[n \in 0 .. Len(chunks)] ==
        IF n = 0 THEN acc ELSE AddChunk(added[n - 1], chunks[n], budget)
  IN added[Len(chunks)]

AddPass(acc, chunks, pass, budget) ==
  LET left == Unselected(acc, chunks, {pass[1]})
  IN AddChunks(acc, [i \in 1 .. Min({pass[2], Len(left)}) |-> left[i]], budget)

\* One chunk or two of every role first, then some more of the roles that
\* matter most, then whatever fits; the reader sees them in page order.
SelectChunks(chunks, budget) ==
  LET passes == CoveragePass \o ExtraPass
      covered[n \in 0 .. Len(passes)] ==
        IF n = 0 THEN [pages |-> {}, remaining |-> budget, chunks |-> <<>>]
        ELSE AddPass(covered[n - 1], chunks, passes[n], budget)
      most   == covered[Len(passes)]
      filled == AddChunks(most, Unselected(most, chunks, SectionRole), budget).chunks
  IN RankedBy(filled, [i \in DOMAIN filled |-> <<-filled[i].page>>])

BuildReadingPacket(pages, budget) ==
  LET chunks == BuildPaperSections(pages)
  IN [chunks |-> SelectChunks(chunks, budget), warnings |-> CoverageWarnings(chunks)]
=============================================================================
