--------------------------- MODULE EvidenceReview ---------------------------
(***************************************************************************)
(* Claims and what may happen to them after they were read: the evidence   *)
(* policy (evidence/policy.py), the model's review (analysis/review.py),   *)
(* the filter of reader-facing prose (analysis/explanation_policy.py) and  *)
(* the verdict on a whole run (analysis/research_outcome.py).              *)
(*                                                                         *)
(* A claim is [id, section, status, evidence, reason, ...].  Its evidence  *)
(* is a set of anchors [source, title, quote].  Texts are left out: a      *)
(* claim is told by its paper, its section and its identifier.             *)
(***************************************************************************)
EXTENDS Lists

ClaimStatus == {"supported", "unsupported", "needs_review", "speculative"}

\* What a claim has, whoever made it.
IsClaim(c) ==
  /\ c = [id |-> c.id, section |-> c.section, status |-> c.status, evidence |-> c.evidence,
          reason |-> c.reason, origin |-> c.origin, states |-> c.states, lang |-> c.lang]
  /\ c.status \in ClaimStatus

\* Claim.is_publishable()
IsPublishable(c) == c.status = "supported" /\ c.evidence # {}

PublishableClaims(claims) == Sift(claims, {c \in ToSet(claims) : IsPublishable(c)})

\* Only a claim without evidence changes: whatever it was, it is unsupported.
EnforceEvidencePolicy(claims) ==
  [i \in DOMAIN claims |->
     IF claims[i].evidence = {}
     THEN [claims[i] EXCEPT !.status = "unsupported"] ELSE claims[i]]

PolicyFindings(claims) ==
  {i \in DOMAIN claims : ~IsPublishable(claims[i])}

(***************************************************************************)
(* The model's review.  The verifier's answer is [json, decisions]: json   *)
(* is FALSE when no list of decisions can be read from it, and a decision  *)
(* is [index, status], where the index may be any integer the model wrote  *)
(* and the status "other" is one that is none of ClaimStatus.              *)
(***************************************************************************)
Rank == [s \in ClaimStatus |->
           CASE s = "unsupported" -> 0 [] s = "speculative" -> 1
             [] s = "needs_review" -> 2 [] OTHER -> 3]

NonPromotingStatus(current, requested) ==
  IF Rank[requested] <= Rank[current] THEN requested ELSE current

\* One decision: an index out of range is ignored, a status out of range
\* leaves the claim as it is but counts as a decision on it.
ApplyDecision(claims, d) ==
  IF d.index \notin DOMAIN claims \/ d.status \notin ClaimStatus THEN claims
  ELSE [claims EXCEPT ![d.index].status = NonPromotingStatus(@, d.status)]

\* Every decision in the order it was given, then the claims on which the
\* answer has none.  An answer that is not structured changes nothing.
ApplyModelReviewDecisions(claims, answer) ==
  LET decided  == {answer.decisions[k].index : k \in DOMAIN answer.decisions}
      applied[n \in 0 .. Len(answer.decisions)] ==
        IF n = 0 THEN claims ELSE ApplyDecision(applied[n - 1], answer.decisions[n])
      reviewed == applied[Len(answer.decisions)]
  IN IF ~answer.json THEN claims
     ELSE [i \in DOMAIN claims |->
             IF i \in decided THEN reviewed[i]
             ELSE [reviewed[i] EXCEPT !.status = "needs_review"]]

\* The follow-up actions of the answer, at the claims they are about: an
\* index outside the reviewed claims is kept as it was written.
RemapActions(actions, positions) ==
  [k \in DOMAIN actions |->
     IF actions[k].index \in DOMAIN positions
     THEN [actions[k] EXCEPT !.index = positions[actions[k].index]] ELSE actions[k]]

\* The positions of the claims the verifier is shown.
ReviewPositions(claims) ==
  Sift([i \in DOMAIN claims |-> i], {i \in DOMAIN claims : IsPublishable(claims[i])})

\* Only what is publishable is reviewed; the verdicts go back to where the
\* claims came from.
ModelReviewPublishableClaims(claims, answer) ==
  LET positions == ReviewPositions(claims)
      shown     == [k \in DOMAIN positions |-> claims[positions[k]]]
      subset    == ApplyModelReviewDecisions(shown, answer)
      place(i)  == CHOOSE k \in DOMAIN positions : positions[k] = i
  IN [claims   |-> [i \in DOMAIN claims |->
                      IF IsPublishable(claims[i]) THEN subset[place(i)] ELSE claims[i]],
      reviewed |-> Len(positions),
      actions  |-> RemapActions(answer.actions, positions)]

(***************************************************************************)
(* Prose for the reader.  An explanation gives the sections it has their   *)
(* paragraphs [name, ids]; a paragraph is shown when it names claims and   *)
(* all of them are publishable.                                            *)
(***************************************************************************)
ExplanationSections == {"opening_context", "core_thesis", "problem_walkthrough",
  "solution_walkthrough", "experiment_interpretation", "related_work_context",
  "limitations_discussion", "plain_language_story", "reader_takeaway"}

\* The section of the claims that stand in for a section of prose.
FallbackSection ==
  [core_thesis |-> "essence", problem_walkthrough |-> "problem",
   solution_walkthrough |-> "solution", experiment_interpretation |-> "experiment",
   related_work_context |-> "related_work", limitations_discussion |-> "limitations"]

ClaimSectionText(claims, section) ==
  SelectSeq(claims, LAMBDA c : IsPublishable(c) /\ c.section = section)

ExplanationFallbacks(claims) ==
  [key \in DOMAIN FallbackSection |-> ClaimSectionText(claims, FallbackSection[key])]

PublicExplanation(explanation, claims) ==
  LET ids  == {c.id : c \in {d \in ToSet(claims) : IsPublishable(d)}} \ {""}
      kept == [key \in DOMAIN explanation |->
                 Sift(explanation[key],
                      {p \in ToSet(explanation[key]) :
                         p.ids # <<>> /\ ToSet(p.ids) \subseteq ids})]
      bare == ExplanationSections \ {key \in DOMAIN kept : kept[key] # <<>>}
  IN [paragraphs |-> UNION {ToSet(kept[key]) : key \in DOMAIN kept},
      fallbacks  |-> {key \in bare \cap DOMAIN FallbackSection :
                        ExplanationFallbacks(claims)[key] # <<>>}]

(***************************************************************************)
(* The verdict on a run: what it can tell its reader, and why.             *)
(***************************************************************************)
ReasonsOf(a) ==
     (IF a.discoveryFailed THEN {"discovery_failed"} ELSE {})
  \cup (IF a.eligible = 0 THEN {"no_eligible_papers"} ELSE {})
  \cup (IF a.statuses \cap {"ingestion_failed", "insufficient_full_text"} # {}
        THEN {"full_text_unavailable"} ELSE {})
  \cup (IF "reading_failed" \in a.statuses THEN {"reading_failed"} ELSE {})

\* Mutant: an empty run is quiet news even when discovery failed.
AssessWithoutDiscovery(a) ==
  [status |-> CASE a.deepRead > 0 /\ a.publishable > 0 -> "ready"
                [] ~(a.deepRead > 0 /\ a.publishable > 0) /\ a.eligible = 0 -> "no_new_content"
                [] OTHER -> "incomplete",
   reasons |-> ReasonsOf(a)]

AssessResearchOutcome(a) ==
  LET ready  == a.deepRead > 0 /\ a.publishable > 0
      judged == CASE "succeeded" \notin a.statuses -> {}
                  [] "succeeded" \in a.statuses /\ a.reviewed > 0
                                                 -> {"verification_no_public_claims"}
                  [] OTHER                       -> {"evidence_insufficient"}
      why    == ReasonsOf(a) \cup judged
  IN CASE ready -> [status |-> "ready", reasons |-> ReasonsOf(a)]
       [] ~ready /\ a.eligible = 0 /\ ~a.discoveryFailed
             -> [status |-> "no_new_content", reasons |-> why]
       [] OTHER
             -> [status |-> "incomplete",
                 reasons |-> IF why = {} THEN {"evidence_insufficient"} ELSE why]

\* Which of the reasons a report without a reading gives to its reader.
MessageOrder == <<"discovery_failed", "full_text_unavailable", "reading_failed",
  "verification_no_public_claims", "evidence_insufficient", "no_eligible_papers">>

PublicMessage(outcome) ==
  IF outcome.status = "ready" THEN "none"
  ELSE LET named == SelectSeq(MessageOrder, LAMBDA r : r \in outcome.reasons)
       IN IF named = <<>> THEN "evidence_insufficient" ELSE named[1]
=============================================================================
