---------------------------- MODULE AnchorRepair ----------------------------
(***************************************************************************)
(* Holding the anchors of claims against the ingested text, and asking a   *)
(* model once for exact quotes where they do not hold                      *)
(* (analysis/anchor_repair.py, analysis/deep_reading.py).                  *)
(*                                                                         *)
(* A quote is told by what the text makes of it.  Match[q] is              *)
(*   reader    the validation of the reading finds it                      *)
(*   resolver  how the stricter search finds it: "exact", "normalized",    *)
(*             "compact" or "none"                                         *)
(*   numbers   the numbers in the lines around it                          *)
(*   entities  the names in them                                           *)
(*   row       when it is in a data row of a table, the one set of the     *)
(*             names in that row; otherwise nothing                        *)
(*   window    the quote these lines make when they replace it             *)
(* The code looks for names in the lines of all quotes run together, and   *)
(* may so find one that begins in one window and ends in the next: that    *)
(* accident is left out.                                                   *)
(***************************************************************************)
EXTENDS PaperReading

CONSTANTS
  Quote,   \* what a model may quote
  Match,   \* what the text makes of each
  Method   \* the names that are no benchmark's and no language model's

QuoteFound == {q \in Quote : Match[q].reader}

Resolved(q) == Match[q].resolver # "none"

\* One of the numbers of the claim is in none of the windows.
NumericFailure(claim, quotes) ==
  ~(claim.states.numbers \subseteq UNION {Match[q].numbers : q \in quotes})

\* One of its names is in none of them, or a quote is in a row of a table
\* that lacks one of its methods.
EntityFailure(claim, quotes) ==
  \/ \E q \in quotes : \E row \in Match[q].row :
       ~(claim.states.entities \cap Method \subseteq row)
  \/ ~(claim.states.entities \subseteq UNION {Match[q].entities : q \in quotes})

\* resolve_claim_anchors: "partial" when some of the anchors are missing,
\* whatever the numbers; "failed" when all are, or when the anchors found do
\* not carry what the claim states.
ResolutionStatus(claim) ==
  LET quotes  == {a.quote : a \in claim.evidence}
      matched == {q \in quotes : Resolved(q)}
  IN CASE matched = {} -> "failed"
       [] matched # {} /\ matched # quotes -> "partial"
       [] matched # {} /\ matched = quotes
            /\ (NumericFailure(claim, quotes) \/ EntityFailure(claim, quotes)) -> "failed"
       [] OTHER -> "matched"

\* Mutant: some of the anchors are enough.
ResolveClaimPartly(claim) ==
  IF ResolutionStatus(claim) = "failed" /\ IsPublishable(claim)
  THEN [claim EXCEPT !.status = "unsupported"] ELSE claim

\* apply_anchor_resolution: a publishable claim stands only when all of its
\* anchors do; any other claim keeps its status.
ResolveClaim(claim) ==
  IF ResolutionStatus(claim) # "matched" /\ IsPublishable(claim)
  THEN [claim EXCEPT !.status = "unsupported"] ELSE claim

ApplyAnchorResolution(claims) == [i \in DOMAIN claims |-> ResolveClaim(claims[i])]

\* Mutant: what is not to be published by default is repaired.
SkipsRepairByLint(claim) ==
  claim.origin = "rejected" \/ claim.reason \in {"too broad", "needs wording"}

\* _skip_repair_reason: what the reader or the lint held back is not
\* repaired, nor a claim for review that gives no reason.
SkipsRepair(claim) ==
  \/ claim.origin = "rejected"
  \/ claim.reason \in {"too broad", "not publishable by default", "needs wording"}
  \/ /\ claim.reason \notin {"missing evidence", "supported"}
     /\ \/ claim.status \in {"needs_review", "speculative"}
        \/ claim.status = "unsupported" /\ claim.evidence = {}

RepairTargets(claims, before) ==
  {i \in DOMAIN claims :
     ResolutionStatus(before[i]) # "matched" /\ ~SkipsRepair(claims[i])}

RepairStatus(claim) == IF claim.reason = "too broad" THEN "needs_review" ELSE "supported"

\* One repair [index, quote] of the answer, in the order it was given; the
\* quote is "" when it is blank.
ApplyRepair(paper, targets, claims, repair) ==
  IF repair.index \notin targets \/ repair.quote = "" THEN claims
  ELSE LET claim     == claims[repair.index]
           window    == Match[repair.quote].window
           candidate == [claim EXCEPT !.status = RepairStatus(claim),
                                      !.evidence = Anchors(paper, {window})]
       IN IF \/ ~Resolved(repair.quote)
             \/ NumericFailure(claim, {repair.quote})
             \/ EntityFailure(claim, {repair.quote})
          THEN claims
          ELSE [claims EXCEPT ![repair.index] = candidate]

\* The repairs, and after them the anchors of every claim once more.
ApplyAnchorRepair(paper, claims, repairs) ==
  LET resolved == ApplyAnchorResolution(claims)
      targets  == RepairTargets(resolved, claims)
      repaired[n \in 0 .. Len(repairs)] ==
        IF n = 0 THEN resolved ELSE ApplyRepair(paper, targets, repaired[n - 1], repairs[n])
  IN ApplyAnchorResolution(repaired[Len(repairs)])

\* The model is asked at all
AsksForRepair(claims) == RepairTargets(ApplyAnchorResolution(claims), claims) # {}

\* run_artifact_deep_reading, once the reading is parsed
ValidatedClaims(paper, answer) ==
  ValidatePaperReading(ReadingToClaims(paper, answer), QuoteFound)
=============================================================================
