---------------------------- MODULE PaperReading ----------------------------
(***************************************************************************)
(* From the model's answer to the claims of a reading                      *)
(* (analysis/paper_reading.py).  An answer is a record of what the parser  *)
(* tells apart:                                                            *)
(*   shape        "text" (not JSON), "list" (JSON, no object),             *)
(*                "none" (an empty list of readings) or "object"           *)
(*   absent       the required fields that are missing or blank            *)
(*   index        quotes of the evidence index, the fallback of a section  *)
(*   quotes       section -> quotes given with it                          *)
(*   told         the optional conclusions it has: "experiment",           *)
(*                "limitations" (explicit ones), "essence"                 *)
(*   states       conclusion -> what its text states                       *)
(*   units        the atomic claims, in order                              *)
(*   explanation  section -> paragraphs [name, ids]; badIds when one of    *)
(*                them has identifiers that are no list                    *)
(*   rejected     how many claims it says it considered and rejected       *)
(* A unit is [id, section, kind, quotes, default, marks, states], where    *)
(* marks is what the word lists of the lint find in its text.  What a text *)
(* states is [numbers, entities]: what there is of either in it.           *)
(***************************************************************************)
EXTENDS EvidenceReview

ReadingSections == {"problem_solution", "related_work", "limitations",
                    "critical_assessment"}

RequiredFields == {"problem", "why_it_matters", "solution", "mechanism", "novelty",
                   "repackaging_risk", "overclaiming_risk", "bottom_line"}

\* Where a unit's section ends up: the prefix of its text.
UnitPrefix(section) ==
  CASE section \in {"problem", "problem_solution", "motivation"} -> "problem"
    [] section \in {"solution", "mechanism"} -> "solution"
    [] section \in {"experiment", "experiments", "evaluation"} -> "experiment"
    [] section \in {"related_work", "related_work_analysis", "novelty"} -> "related_work"
    [] section \in {"limitations", "limitation", "future_work"} -> "limitations"
    [] section \in {"critical", "critique", "critical_assessment"} -> "critical_assessment"
    [] OTHER -> section

\* The identifier a unit is known by: its own or one made from its position.
UnitId(units, i) == IF units[i].id = "" THEN "legacy-c" \o ToString(i) ELSE units[i].id

DuplicateIds(units) ==
  \E i, j \in DOMAIN units : i # j /\ UnitId(units, i) = UnitId(units, j)

\* _section_evidence: a section without quotes of its own takes the index.
SectionQuotes(answer, section) ==
  IF answer.quotes[section] # {} THEN answer.quotes[section] ELSE answer.index

\* parse_paper_reading raises
ParseFails(answer) ==
  \/ answer.shape # "object"
  \/ answer.absent # {}
  \/ DuplicateIds(answer.units)
  \/ answer.badIds
  \/ \E s \in ReadingSections : SectionQuotes(answer, s) = {}

(***************************************************************************)
(* The lint of one unit: what its text mixes, overstates or bundles.       *)
(***************************************************************************)
SetupFacets == {"backbone", "embedding", "top_k", "decoding", "context", "hardware"}

TooBroad(unit) ==
  \/ Cardinality(unit.marks \cap SetupFacets) > 1
  \/ {"method", "result"} \subseteq unit.marks
  \/ {"result", "cost"} \subseteq unit.marks
  \/ {"ranking", "cause"} \subseteq unit.marks
  \/ {"setup_fact", "critique"} \subseteq unit.marks

NeedsAttribution(unit) == "superlative" \in unit.marks /\ "attributed" \notin unit.marks

BundledEssence(unit) == unit.section = "essence" /\ "two_verbs" \in unit.marks

NeedsExternalCheck(unit) ==
  unit.kind \in {"critique", "limitation"} /\ "replication" \in unit.marks

\* Why a unit is not put forward, in the order the reasons are looked for;
\* "supported" when there is none.
UnitReason(unit) ==
  CASE unit.quotes = {} -> "missing evidence"
    [] unit.quotes # {} /\ ~unit.default -> "not publishable by default"
    [] unit.quotes # {} /\ unit.default /\ TooBroad(unit) -> "too broad"
    [] unit.quotes # {} /\ unit.default /\ ~TooBroad(unit)
         /\ (NeedsAttribution(unit) \/ BundledEssence(unit) \/ NeedsExternalCheck(unit))
       -> "needs wording"
    [] OTHER -> "supported"

UnitStatus(unit) ==
  CASE UnitReason(unit) = "supported" -> "supported"
    [] UnitReason(unit) = "missing evidence" -> "unsupported"
    [] OTHER -> "needs_review"

Anchors(paper, quotes) ==
  {[source |-> paper.url, title |-> paper.title, quote |-> q] : q \in quotes}

UnitClaim(paper, units, i) ==
  LET u == units[i]
  IN [id |-> UnitId(units, i), section |-> UnitPrefix(u.section), status |-> UnitStatus(u),
      evidence |-> Anchors(paper, u.quotes), reason |-> UnitReason(u), origin |-> "unit",
      states |-> u.states, lang |-> "en"]

\* It has no anchors its text could be held against.

RejectedClaim == [id |-> "", section |-> "rejected", status |-> "unsupported",
                  evidence |-> {}, reason |-> "", origin |-> "rejected",
                  states |-> [numbers |-> {}, entities |-> {}], lang |-> "en"]

\* The claim a whole section makes when the reading has no units.
SectionClaim(paper, section, quotes, states) ==
  [id |-> "", section |-> section, evidence |-> Anchors(paper, quotes),
   status |-> IF quotes # {} THEN "supported" ELSE "unsupported",
   reason |-> "", origin |-> "section", states |-> states, lang |-> "en"]

SectionClaims(paper, answer) ==
  LET of(s)    == SectionQuotes(answer, s)
      all      == UNION {of(s) : s \in ReadingSections}
      claim(what, quotes) == SectionClaim(paper, what, quotes, answer.states[what])
      told(what, quotes) == IF what \in answer.told THEN <<claim(what, quotes)>> ELSE <<>>
  IN <<claim("problem", of("problem_solution")),
       claim("solution", of("problem_solution")),
       claim("related_work", of("related_work"))>>
     \o told("experiment", of("experiments"))
     \o told("limitations", of("limitations"))
     \o <<claim("critical_assessment", of("critical_assessment"))>>
     \o told("essence", all)

ReadingToClaims(paper, answer) ==
  LET rejected == [k \in 1 .. answer.rejected |-> RejectedClaim]
  IN IF answer.units # <<>>
     THEN [i \in DOMAIN answer.units |-> UnitClaim(paper, answer.units, i)] \o rejected
     ELSE SectionClaims(paper, answer) \o rejected

(***************************************************************************)
(* validate_paper_reading: a publishable claim keeps the anchors whose     *)
(* quote the text has (found), and is unsupported when none is left.               *)
(***************************************************************************)
ValidateClaim(claim, found) ==
  LET valid == {a \in claim.evidence : a.quote \in found}
  IN CASE ~IsPublishable(claim) -> claim
       [] IsPublishable(claim) /\ valid # {} -> [claim EXCEPT !.evidence = valid]
       [] OTHER -> [claim EXCEPT !.evidence = {}, !.status = "unsupported"]

ValidatePaperReading(claims, found) ==
  LET checked == EnforceEvidencePolicy(claims)
  IN [i \in DOMAIN checked |-> ValidateClaim(checked[i], found)]
=============================================================================
