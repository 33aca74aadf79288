--------------------------- MODULE ReadingProofs ---------------------------
(***************************************************************************)
(* Theorems about PaperRun: what the reader of a report is told of a paper *)
(* is anchored in the text of that paper, was not held back, and has its   *)
(* evidence beside it, for every text, every answer of every model and     *)
(* every place where writing may break off.                                *)
(*                                                                         *)
(* The argument follows a claim through the run.  Nothing after the        *)
(* resolution of anchors makes a claim publishable: the verifier and the   *)
(* policy only demote, and the localizer changes words.  A repair may, but *)
(* only of a claim that was not held back, with an anchor in the paper,    *)
(* and the anchors are resolved once more after it.                        *)
(***************************************************************************)
EXTENDS PaperRun, ListFacts

-----------------------------------------------------------------------------
(* Claims: what the policy and the resolution of anchors make of them.     *)

\* The same claim, up to its status and its language.
SameClaim(d, c) ==
  /\ d.id = c.id /\ d.section = c.section /\ d.evidence = c.evidence
  /\ d.reason = c.reason /\ d.origin = c.origin /\ d.states = c.states

\* A list of claims.
AreClaims(cs) == IsList(cs) /\ \A i \in DOMAIN cs : IsClaim(cs[i])

\* ds is cs with statuses changed, but nothing made publishable.
Demoted(ds, cs) ==
  /\ AreClaims(ds) /\ DOMAIN ds = DOMAIN cs
  /\ \A i \in DOMAIN cs :
       SameClaim(ds[i], cs[i]) /\ (IsPublishable(ds[i]) => IsPublishable(cs[i]))

\* Setting the status of a claim leaves the rest of it alone.
LEMMA WithStatus ==
  ASSUME NEW c, IsClaim(c), NEW st \in ClaimStatus, NEW d, d = [c EXCEPT !.status = st]
  PROVE  IsClaim(d) /\ SameClaim(d, c) /\ d.status = st
  BY DEF IsClaim, SameClaim

\* So does translating it, which leaves the status alone as well.
LEMMA WithLang ==
  ASSUME NEW c, IsClaim(c), NEW l, NEW d, d = [c EXCEPT !.lang = l]
  PROVE  IsClaim(d) /\ SameClaim(d, c) /\ d.status = c.status
  BY DEF IsClaim, SameClaim

\* EnforceEvidencePolicy makes nothing publishable.
LEMMA PolicyDemotes ==
  ASSUME NEW cs, AreClaims(cs), NEW ds, ds = EnforceEvidencePolicy(cs)
  PROVE  Demoted(ds, cs)
<1>1. ds = [i \in DOMAIN cs |-> ds[i]]
  BY DEF EnforceEvidencePolicy
<1>2. IsList(ds) /\ DOMAIN ds = DOMAIN cs
  BY <1>1, ListOver DEF AreClaims
<1>3. ASSUME NEW i \in DOMAIN cs
      PROVE  /\ IsClaim(ds[i]) /\ SameClaim(ds[i], cs[i])
             /\ IsPublishable(ds[i]) => IsPublishable(cs[i])
  <2>1. IsClaim(cs[i])
    BY DEF AreClaims
  <2>2. CASE cs[i].evidence = {}
    <3>1. ds[i] = [cs[i] EXCEPT !.status = "unsupported"] /\ "unsupported" \in ClaimStatus
      BY <2>2 DEF EnforceEvidencePolicy, ClaimStatus
    <3> QED BY <2>1, <3>1, WithStatus DEF IsPublishable
  <2>3. CASE cs[i].evidence # {}
    <3>1. ds[i] = cs[i]
      BY <2>3 DEF EnforceEvidencePolicy
    <3> QED BY <2>1, <3>1 DEF SameClaim
  <2> QED BY <2>2, <2>3
<1> QED
  BY <1>2, <1>3 DEF Demoted, AreClaims

\* Demoting is transitive.
LEMMA DemotedTwice ==
  ASSUME NEW cs, NEW ds, NEW es, Demoted(ds, cs), Demoted(es, ds)
  PROVE  Demoted(es, cs)
  BY DEF Demoted, SameClaim

\* ApplyAnchorResolution makes nothing publishable, and what it leaves
\* publishable has all of its anchors.
LEMMA ResolutionDemotes ==
  ASSUME NEW cs, AreClaims(cs), NEW ds, ds = ApplyAnchorResolution(cs)
  PROVE  /\ Demoted(ds, cs)
         /\ \A i \in DOMAIN ds : IsPublishable(ds[i]) => ResolutionStatus(ds[i]) = "matched"
<1>1. ds = [i \in DOMAIN cs |-> ds[i]] /\ \A i \in DOMAIN cs : ds[i] = ResolveClaim(cs[i])
  BY DEF ApplyAnchorResolution
<1>2. IsList(ds) /\ DOMAIN ds = DOMAIN cs
  BY <1>1, ListOver DEF AreClaims
<1>3. ASSUME NEW i \in DOMAIN cs
      PROVE  /\ IsClaim(ds[i]) /\ SameClaim(ds[i], cs[i])
             /\ IsPublishable(ds[i]) =>
                  IsPublishable(cs[i]) /\ ResolutionStatus(ds[i]) = "matched"
  <2>1. IsClaim(cs[i])
    BY DEF AreClaims
  <2>2. CASE ResolutionStatus(cs[i]) # "matched" /\ IsPublishable(cs[i])
    <3>1. ds[i] = [cs[i] EXCEPT !.status = "unsupported"] /\ "unsupported" \in ClaimStatus
      BY <1>1, <2>2 DEF ResolveClaim, ClaimStatus
    <3> QED BY <2>1, <3>1, WithStatus DEF IsPublishable
  <2>3. CASE ~(ResolutionStatus(cs[i]) # "matched" /\ IsPublishable(cs[i]))
    <3>1. ds[i] = cs[i]
      BY <1>1, <2>3 DEF ResolveClaim
    <3> QED BY <2>1, <2>3, <3>1 DEF SameClaim
  <2> QED BY <2>2, <2>3
<1> QED
  BY <1>2, <1>3 DEF Demoted, AreClaims

\* How the anchors of a claim resolve does not depend on its status.
LEMMA SameResolution ==
  ASSUME NEW c, NEW d, SameClaim(d, c)
  PROVE  ResolutionStatus(d) = ResolutionStatus(c)
  BY DEF SameClaim, ResolutionStatus, NumericFailure, EntityFailure

-----------------------------------------------------------------------------
(* The decisions of the verifier.                                          *)

\* What the decisions may make of a list of claims: the same with any status.
Restated(ds, cs) ==
  /\ AreClaims(ds) /\ DOMAIN ds = DOMAIN cs
  /\ \A i \in DOMAIN cs : SameClaim(ds[i], cs[i])

\* A set that has every restatement of a list of claims.
Variants(cs) ==
  [id : {cs[i].id : i \in DOMAIN cs}, section : {cs[i].section : i \in DOMAIN cs},
   status : ClaimStatus, evidence : {cs[i].evidence : i \in DOMAIN cs},
   reason : {cs[i].reason : i \in DOMAIN cs}, origin : {cs[i].origin : i \in DOMAIN cs},
   states : {cs[i].states : i \in DOMAIN cs}, lang : {cs[i].lang : i \in DOMAIN cs}]

Restatements(cs) ==
  {ds \in [DOMAIN cs -> Variants(cs)] : Restated(ds, cs)}

\* A decision gives a claim one of the statuses there are.
LEMMA RankIsStatus ==
  ASSUME NEW s \in ClaimStatus, NEW t \in ClaimStatus
  PROVE  NonPromotingStatus(s, t) \in ClaimStatus
  BY DEF NonPromotingStatus

\* One decision of the verifier changes statuses and nothing else.
LEMMA DecisionRestates ==
  ASSUME NEW cs, AreClaims(cs), NEW ds \in Restatements(cs), NEW d
  PROVE  ApplyDecision(ds, d) \in Restatements(cs)
<1> DEFINE es == ApplyDecision(ds, d)
<1>1. CASE d.index \notin DOMAIN ds \/ d.status \notin ClaimStatus
  BY <1>1 DEF ApplyDecision
<1>2. CASE d.index \in DOMAIN ds /\ d.status \in ClaimStatus
  <2> DEFINE j == d.index
             st == NonPromotingStatus(ds[j].status, d.status)
  <2>1. ds \in [DOMAIN cs -> Variants(cs)] /\ Restated(ds, cs) /\ j \in DOMAIN cs
    BY <1>2 DEF Restatements, Restated
  <2>2. es = [ds EXCEPT ![j] = [ds[j] EXCEPT !.status = st]]
    BY <1>2 DEF ApplyDecision
  <2>3. st \in ClaimStatus
    BY <1>2, <2>1, RankIsStatus DEF Restated, AreClaims, IsClaim
  <2> DEFINE c == [ds[j] EXCEPT !.status = st]
  <2>4. IsClaim(c) /\ SameClaim(c, ds[j])
    <3>1. IsClaim(ds[j])
      BY <2>1 DEF Restated, AreClaims
    <3> HIDE DEF st
    <3> QED BY <2>3, <3>1, WithStatus
  <2>5. c \in Variants(cs)
    <3>1. ds[j] \in Variants(cs)
      BY <2>1
    <3> HIDE DEF st
    <3> QED BY <2>3, <3>1 DEF Variants
  <2> HIDE DEF c, es, st
  <2>6. es \in [DOMAIN cs -> Variants(cs)]
    BY <2>1, <2>2, <2>5 DEF c
  <2>7. \A i \in DOMAIN cs : es[i] = IF i = j THEN c ELSE ds[i]
    BY <2>1, <2>2 DEF c
  <2>8. IsList(es) /\ DOMAIN es = DOMAIN cs
    BY <2>6, ListOver DEF AreClaims
  <2>9. \A i \in DOMAIN cs : IsClaim(es[i]) /\ SameClaim(es[i], cs[i])
    BY <2>1, <2>4, <2>7 DEF Restated, AreClaims, SameClaim
  <2> QED
    BY <2>6, <2>8, <2>9 DEF Restatements, Restated, AreClaims, es
<1> QED
  BY <1>1, <1>2 DEF Restatements, Restated

\* A list of claims restates itself.
LEMMA SelfRestated ==
  ASSUME NEW cs, AreClaims(cs)
  PROVE  cs \in Restatements(cs)
<1>1. \A i \in DOMAIN cs : cs[i] \in Variants(cs)
  BY DEF AreClaims, IsClaim, Variants
<1>2. cs = [i \in DOMAIN cs |-> cs[i]]
  BY ListShape DEF AreClaims, IsList
<1> QED
  BY <1>1, <1>2 DEF Restatements, Restated, AreClaims, SameClaim

\* All the decisions of an answer change statuses and nothing else.
LEMMA DecisionsRestate ==
  ASSUME NEW cs, AreClaims(cs), NEW reply, IsList(reply.decisions),
         NEW ds, ds = ApplyModelReviewDecisions(cs, reply)
  PROVE  Restated(ds, cs)
<1> DEFINE N == Len(reply.decisions)
           T == Restatements(cs)
           Def(f) == [n \in 0 .. Len(reply.decisions) |->
             IF n = 0 THEN cs ELSE ApplyDecision(f[n - 1], reply.decisions[n])]
           a == CHOOSE f : f = Def(f)
           g == [p \in T \X Nat |-> ApplyDecision(p[1], reply.decisions[p[2]])]
<1>1. N \in Nat /\ cs \in T
  BY ListShape, SelfRestated
<1>2. \E f : f = Def(f)
  <2>1. g \in [T \X Nat -> T]
    BY DecisionRestates
  <2>2. PICK f : Iterates(f, T, cs, g, N)
    <3> HIDE DEF g, T, a, Def
    <3> QED BY <1>1, <2>1, Iteration
  <2>3. f \in [0 .. N -> T] /\ f[0] = cs
    BY <2>2 DEF Iterates
  <2>4. ASSUME NEW n \in 1 .. N
        PROVE  f[n] = ApplyDecision(f[n - 1], reply.decisions[n])
    <3>1. n - 1 \in 0 .. N /\ n \in Nat
      BY <1>1
    <3>2. <<f[n - 1], n>> \in T \X Nat
      BY <3>1, <2>3
    <3> QED BY <2>2, <3>2 DEF Iterates
  <2>5. f = Def(f)
    <3>1. \A n \in 0 .. N : n = 0 \/ n \in 1 .. N
      BY <1>1
    <3> HIDE DEF g, T
    <3> QED BY <2>3, <2>4, <3>1, <1>1
  <2> QED BY <2>5
<1>3. a = Def(a)
  <2> HIDE DEF Def
  <2> QED BY <1>2
<1>4. a[0] = cs /\ \A n \in 1 .. N : a[n] = ApplyDecision(a[n - 1], reply.decisions[n])
  <2> HIDE DEF a
  <2>1. a[0] = cs
    BY <1>1, <1>3, 0 \in 0 .. N
  <2>2. ASSUME NEW n \in 1 .. N PROVE a[n] = ApplyDecision(a[n - 1], reply.decisions[n])
    <3>1. n \in 0 .. N /\ n # 0
      BY <1>1
    <3> QED BY <1>3, <3>1
  <2> QED BY <2>1, <2>2
<1> DEFINE decided == {reply.decisions[k].index : k \in DOMAIN reply.decisions}
<1>5. ds = IF ~reply.json THEN cs
           ELSE [i \in DOMAIN cs |->
                   IF i \in decided THEN a[N][i]
                   ELSE [a[N][i] EXCEPT !.status = "needs_review"]]
  BY DEF ApplyModelReviewDecisions
<1> HIDE DEF a, T, decided
<1>6. a[N] \in T
  <2> DEFINE S == {n \in Nat : n <= N => a[n] \in T}
  <2>1. 0 \in S
    BY <1>1, <1>4
  <2>2. ASSUME NEW n \in Nat, n \in S PROVE n + 1 \in S
    <3> SUFFICES ASSUME n + 1 <= N PROVE a[n + 1] \in T
      OBVIOUS
    <3>1. a[n] \in T /\ n + 1 \in 1 .. N /\ (n + 1) - 1 = n
      BY <2>2, <1>1
    <3>2. a[n + 1] = ApplyDecision(a[n], reply.decisions[n + 1])
      BY <1>4, <3>1
    <3> QED BY <3>1, <3>2, DecisionRestates DEF T
  <2> HIDE DEF S
  <2>3. N \in S
    BY <1>1, <2>1, <2>2, InductionOverNat
  <2> QED BY <2>3, <1>1 DEF S
<1>7. Restated(a[N], cs)
  BY <1>6 DEF T, Restatements
<1>8. CASE ~reply.json
  BY <1>5, <1>8, SelfRestated DEF Restatements
<1>9. CASE reply.json
  <2>1. ds = [i \in DOMAIN cs |-> ds[i]]
    BY <1>5, <1>9
  <2>2. IsList(ds) /\ DOMAIN ds = DOMAIN cs
    BY <2>1, ListOver DEF AreClaims
  <2>3. ASSUME NEW i \in DOMAIN cs
        PROVE  IsClaim(ds[i]) /\ SameClaim(ds[i], cs[i])
    <3>1. IsClaim(a[N][i]) /\ SameClaim(a[N][i], cs[i])
      BY <1>7 DEF Restated, AreClaims
    <3>2. CASE i \in decided
      BY <1>5, <1>9, <3>1, <3>2
    <3>3. CASE i \notin decided
      <4>1. ds[i] = [a[N][i] EXCEPT !.status = "needs_review"] /\ "needs_review" \in ClaimStatus
        BY <1>5, <1>9, <3>3 DEF ClaimStatus
      <4>2. IsClaim(ds[i]) /\ SameClaim(ds[i], a[N][i])
        BY <3>1, <4>1, WithStatus
      <4> QED BY <3>1, <4>2 DEF SameClaim
    <3> QED BY <3>2, <3>3
  <2> QED BY <2>2, <2>3 DEF Restated, AreClaims
<1> QED
  BY <1>8, <1>9

-----------------------------------------------------------------------------
(* The review and the repair of a list of claims.                          *)

\* ModelReviewPublishableClaims makes nothing publishable, whatever the answer
\* says and whichever places it names: only what was publishable is shown.
LEMMA ReviewDemotes ==
  ASSUME NEW cs, AreClaims(cs), NEW reply, IsList(reply.decisions),
         NEW ds, ds = ModelReviewPublishableClaims(cs, reply).claims
  PROVE  Demoted(ds, cs)
<1> DEFINE positions == ReviewPositions(cs)
           shown == [k \in DOMAIN positions |-> cs[positions[k]]]
           subset == ApplyModelReviewDecisions(shown, reply)
           place(i) == CHOOSE k \in DOMAIN positions : positions[k] = i
<1>1. ds = [i \in DOMAIN cs |-> IF IsPublishable(cs[i]) THEN subset[place(i)] ELSE cs[i]]
  BY DEF ModelReviewPublishableClaims
<1>2. IsList(positions) /\ ToSet(positions) = {i \in DOMAIN cs : IsPublishable(cs[i])}
  <2> DEFINE all == [i \in DOMAIN cs |-> i]
  <2>1. IsList(all) /\ DOMAIN all = DOMAIN cs
    BY ListOver DEF AreClaims
  <2>2. ToSet(all) = DOMAIN cs
    BY DEF ToSet
  <2>3. /\ IsList(Sift(all, {i \in DOMAIN cs : IsPublishable(cs[i])}))
        /\ ToSet(Sift(all, {i \in DOMAIN cs : IsPublishable(cs[i])}))
             = DOMAIN cs \cap {i \in DOMAIN cs : IsPublishable(cs[i])}
    <3> HIDE DEF all
    <3> QED BY <2>1, <2>2, SiftList
  <2> QED BY <2>3 DEF ReviewPositions
<1> HIDE DEF positions
<1>3. IsList(shown) /\ DOMAIN shown = DOMAIN positions
  BY <1>2, ListOver
<1>4. AreClaims(shown)
  <2>1. \A k \in DOMAIN positions : positions[k] \in DOMAIN cs
    BY <1>2 DEF ToSet
  <2> QED BY <1>3, <2>1 DEF AreClaims
<1>5. Restated(subset, shown)
  <2> HIDE DEF shown
  <2> QED BY <1>4, DecisionsRestate
<1>6. IsList(ds) /\ DOMAIN ds = DOMAIN cs
  BY <1>1, ListOver DEF AreClaims
<1>7. ASSUME NEW i \in DOMAIN cs
      PROVE  /\ IsClaim(ds[i]) /\ SameClaim(ds[i], cs[i])
             /\ IsPublishable(ds[i]) => IsPublishable(cs[i])
  <2>1. CASE ~IsPublishable(cs[i])
    BY <1>1, <2>1 DEF SameClaim, AreClaims
  <2>2. CASE IsPublishable(cs[i])
    <3>1. place(i) \in DOMAIN positions /\ positions[place(i)] = i
      BY <1>2, <2>2 DEF ToSet
    <3>2. ds[i] = subset[place(i)]
      BY <1>1, <2>2
    <3> HIDE DEF place, subset
    <3>3. IsClaim(subset[place(i)]) /\ SameClaim(subset[place(i)], shown[place(i)])
      BY <1>3, <1>5, <3>1 DEF Restated, AreClaims
    <3>4. shown[place(i)] = cs[i]
      BY <3>1
    <3> HIDE DEF shown
    <3> QED BY <2>2, <3>2, <3>3, <3>4
  <2> QED BY <2>1, <2>2
<1> QED
  BY <1>6, <1>7 DEF Demoted, AreClaims

(* Repairs *)
\* What a repair may make of a claim: one anchor in the paper, of a claim that
\* is not skipped.
Repaired(d, c, paper) ==
  \/ d = c
  \/ /\ ~SkipsRepair(c)
     /\ d.id = c.id /\ d.section = c.section /\ d.reason = c.reason
     /\ d.origin = c.origin /\ d.states = c.states
     /\ \E w : d.evidence = Anchors(paper, {w})

\* The quotes the repairs of an answer may put in.
Windows(repairs) == {Match[repairs[k].quote].window : k \in DOMAIN repairs}

\* A set that has whatever the repairs may make of a list of claims.
Mended(cs, paper, repairs) ==
  {c \in [id : {cs[i].id : i \in DOMAIN cs}, section : {cs[i].section : i \in DOMAIN cs},
   status : ClaimStatus,
   evidence : {cs[i].evidence : i \in DOMAIN cs}
              \cup {Anchors(paper, {w}) : w \in Windows(repairs)},
   reason : {cs[i].reason : i \in DOMAIN cs}, origin : {cs[i].origin : i \in DOMAIN cs},
   states : {cs[i].states : i \in DOMAIN cs}, lang : {cs[i].lang : i \in DOMAIN cs}] : IsClaim(c)}

\* The lists the repairs may make of it.
Mendings(cs, paper, repairs) ==
  {ds \in [DOMAIN cs -> Mended(cs, paper, repairs)] :
     \A i \in DOMAIN cs : Repaired(ds[i], cs[i], paper)}

\* One repair of the answer makes nothing else.
LEMMA RepairMends ==
  ASSUME NEW cs, AreClaims(cs), NEW paper, NEW repairs, NEW targets,
         \A i \in targets : i \in DOMAIN cs /\ ~SkipsRepair(cs[i]),
         NEW ds \in Mendings(cs, paper, repairs), NEW k \in DOMAIN repairs
  PROVE  ApplyRepair(paper, targets, ds, repairs[k]) \in Mendings(cs, paper, repairs)
<1> DEFINE repair == repairs[k]
           j == repair.index
           w == Match[repair.quote].window
           c == [ds[j] EXCEPT !.status = RepairStatus(ds[j]), !.evidence = Anchors(paper, {w})]
           es == ApplyRepair(paper, targets, ds, repair)
<1>1. es = ds \/ (j \in targets /\ es = [ds EXCEPT ![j] = c])
  BY DEF ApplyRepair
<1>2. CASE es = ds
  BY <1>2
<1>3. CASE j \in targets /\ es = [ds EXCEPT ![j] = c]
  <2>1. /\ ds \in [DOMAIN cs -> Mended(cs, paper, repairs)] /\ j \in DOMAIN cs
        /\ ~SkipsRepair(cs[j]) /\ \A i \in DOMAIN cs : Repaired(ds[i], cs[i], paper)
    BY <1>3 DEF Mendings
  <2>2. IsClaim(ds[j]) /\ ds[j] \in Mended(cs, paper, repairs)
    BY <2>1 DEF Mended
  <2>3. RepairStatus(ds[j]) \in ClaimStatus
    BY DEF RepairStatus, ClaimStatus
  <2>4. /\ IsClaim(c) /\ c.evidence = Anchors(paper, {w}) /\ c.id = ds[j].id
        /\ c.section = ds[j].section /\ c.reason = ds[j].reason /\ c.origin = ds[j].origin
        /\ c.states = ds[j].states
    <3> DEFINE st == RepairStatus(ds[j])
               e == Anchors(paper, {w})
    <3>1. c = [ds[j] EXCEPT !.status = st, !.evidence = e] /\ st \in ClaimStatus
      BY <2>3
    <3>2. e = Anchors(paper, {w})
      OBVIOUS
    <3> HIDE DEF st, e, c, w
    <3>3. /\ IsClaim(c) /\ c.evidence = e /\ c.id = ds[j].id
          /\ c.section = ds[j].section /\ c.reason = ds[j].reason /\ c.origin = ds[j].origin
          /\ c.states = ds[j].states
      <4> DEFINE b == ds[j]
      <4>1. c = [b EXCEPT !.status = st, !.evidence = e] /\ IsClaim(b)
        BY <2>2, <3>1
      <4>2. /\ IsClaim(c) /\ c.evidence = e /\ c.id = b.id /\ c.section = b.section
            /\ c.reason = b.reason /\ c.origin = b.origin /\ c.states = b.states
        <5> HIDE DEF b
        <5> QED BY <3>1, <4>1 DEF IsClaim
      <4> QED BY <4>2
    <3> QED BY <3>2, <3>3
  <2>5. c \in Mended(cs, paper, repairs)
    <3>1. Anchors(paper, {w}) \in {Anchors(paper, {v}) : v \in Windows(repairs)}
      BY DEF Windows
    <3> DEFINE st == RepairStatus(ds[j])
               e == Anchors(paper, {w})
    <3>2. c = [ds[j] EXCEPT !.status = st, !.evidence = e] /\ st \in ClaimStatus /\ IsClaim(c)
      BY <2>3, <2>4
    <3>3. e \in {Anchors(paper, {v}) : v \in Windows(repairs)}
      BY <3>1
    <3> HIDE DEF st, e, c, w
    <3> QED BY <2>2, <3>2, <3>3 DEF Mended
  <2>6. Repaired(c, cs[j], paper)
    <3>1. ds[j].id = cs[j].id /\ ds[j].section = cs[j].section /\ ds[j].reason = cs[j].reason
          /\ ds[j].origin = cs[j].origin /\ ds[j].states = cs[j].states
      BY <2>1 DEF Repaired
    <3> HIDE DEF c, w
    <3> QED BY <2>1, <2>4, <3>1 DEF Repaired
  <2> HIDE DEF c, es, w
  <2>7. \A i \in DOMAIN cs : es[i] = IF i = j THEN c ELSE ds[i]
    BY <1>3, <2>1
  <2>8. es \in [DOMAIN cs -> Mended(cs, paper, repairs)]
    BY <1>3, <2>1, <2>5
  <2>9. es \in Mendings(cs, paper, repairs)
    BY <2>1, <2>6, <2>7, <2>8 DEF Mendings
  <2> QED BY <2>9 DEF es
<1> QED
  BY <1>1, <1>2, <1>3

\* A list of claims that no repair touched is among them.
LEMMA SelfMended ==
  ASSUME NEW cs, AreClaims(cs), NEW paper, NEW repairs
  PROVE  cs \in Mendings(cs, paper, repairs)
<1>1. \A i \in DOMAIN cs : cs[i] \in Mended(cs, paper, repairs)
  BY DEF AreClaims, IsClaim, Mended
<1>2. cs = [i \in DOMAIN cs |-> cs[i]]
  BY ListShape DEF AreClaims, IsList
<1> QED
  BY <1>1, <1>2 DEF Mendings, Repaired

\* The claims after a repair are such a list, with the anchors resolved again.
LEMMA RepairsMend ==
  ASSUME NEW cs, AreClaims(cs), NEW paper, NEW repairs, IsList(repairs),
         NEW ds, ds = ApplyAnchorRepair(paper, cs, repairs)
  PROVE  \E es : /\ es \in Mendings(ApplyAnchorResolution(cs), paper, repairs)
                 /\ ds = ApplyAnchorResolution(es)
<1> DEFINE rs == ApplyAnchorResolution(cs)
           targets == RepairTargets(rs, cs)
           N == Len(repairs)
           T == Mendings(rs, paper, repairs)
           Def(f) == [n \in 0 .. Len(repairs) |->
             IF n = 0 THEN rs ELSE ApplyRepair(paper, targets, f[n - 1], repairs[n])]
           a == CHOOSE f : f = Def(f)
           g == [p \in T \X Nat |->
                   IF p[2] \in DOMAIN repairs
                   THEN ApplyRepair(paper, targets, p[1], repairs[p[2]]) ELSE p[1]]
<1>0. AreClaims(rs)
  BY ResolutionDemotes DEF Demoted
<1>1. N \in Nat /\ rs \in T /\ DOMAIN repairs = 1 .. N
  <2> HIDE DEF rs
  <2> QED BY <1>0, ListShape, SelfMended
<1>2. \A e \in T, n \in DOMAIN repairs : ApplyRepair(paper, targets, e, repairs[n]) \in T
  <2>1. \A i \in targets : i \in DOMAIN rs /\ ~SkipsRepair(rs[i])
    BY DEF RepairTargets
  <2> HIDE DEF rs, targets
  <2> QED BY <1>0, <2>1, RepairMends
<1>3. ds = ApplyAnchorResolution(a[N])
  BY DEF ApplyAnchorRepair
<1> HIDE DEF T, rs, targets
<1>4. \E f : f = Def(f)
  <2>1. g \in [T \X Nat -> T]
    BY <1>2
  <2>2. PICK f : Iterates(f, T, rs, g, N)
    <3> HIDE DEF g, a, Def
    <3> QED BY <1>1, <2>1, Iteration
  <2>3. f \in [0 .. N -> T] /\ f[0] = rs
    BY <2>2 DEF Iterates
  <2>4. ASSUME NEW n \in 1 .. N
        PROVE  f[n] = ApplyRepair(paper, targets, f[n - 1], repairs[n])
    <3>1. n - 1 \in 0 .. N /\ n \in Nat
      BY <1>1
    <3>2. <<f[n - 1], n>> \in T \X Nat
      BY <3>1, <2>3
    <3> QED BY <1>1, <2>2, <3>2 DEF Iterates
  <2>5. f = Def(f)
    <3>1. \A n \in 0 .. N : n = 0 \/ n \in 1 .. N
      BY <1>1
    <3> HIDE DEF g
    <3> QED BY <2>3, <2>4, <3>1, <1>1
  <2> QED BY <2>5
<1>5. a = Def(a)
  <2> HIDE DEF Def
  <2> QED BY <1>4
<1> HIDE DEF a
<1>6. a[0] = rs
  BY <1>1, <1>5, 0 \in 0 .. N
<1>7. ASSUME NEW n \in 1 .. N PROVE a[n] = ApplyRepair(paper, targets, a[n - 1], repairs[n])
  <2>1. n \in 0 .. N /\ n # 0
    BY <1>1
  <2> QED BY <1>5, <2>1
<1>8. a[N] \in T
  <2> DEFINE S == {n \in Nat : n <= N => a[n] \in T}
  <2>1. 0 \in S
    BY <1>1, <1>6
  <2>2. ASSUME NEW n \in Nat, n \in S PROVE n + 1 \in S
    <3> SUFFICES ASSUME n + 1 <= N PROVE a[n + 1] \in T
      OBVIOUS
    <3>1. a[n] \in T /\ n + 1 \in 1 .. N /\ (n + 1) - 1 = n
      BY <2>2, <1>1
    <3>2. a[n + 1] = ApplyRepair(paper, targets, a[n], repairs[n + 1])
      BY <1>7, <3>1
    <3> QED BY <1>1, <1>2, <3>1, <3>2
  <2> HIDE DEF S
  <2>3. N \in S
    BY <1>1, <2>1, <2>2, InductionOverNat
  <2> QED BY <2>3, <1>1 DEF S
<1> QED
  BY <1>3, <1>8 DEF T, rs

-----------------------------------------------------------------------------
(* What the claims of a reading have when they are validated.              *)

\* Why the reader or the lint holds a claim back that came with quotes.
HeldReasons == {"too broad", "not publishable by default", "needs wording"}

\* Anchored in this paper, or in another.
Ours(c)   == \A a \in c.evidence : a.source = Paper.url /\ a.title = Paper.title
Theirs(c) ==
  \A a \in c.evidence : a.source # Paper.url /\ a.title # Paper.title /\ OtherPaper(a.source)

\* A claim has the reason of the unit it was made from, if there is one.
TracedTo(units, c) ==
  IF c.origin = "rejected" THEN c.evidence = {}
  ELSE \A i \in DOMAIN units : UnitId(units, i) = c.id => c.reason = UnitReason(units[i])

\* A publishable claim was not held back.
NotHeld(c) == IsPublishable(c) => c.reason \notin HeldReasons

\* What every claim of this paper keeps from the validation on.
Validated(units, c) == Ours(c) /\ TracedTo(units, c) /\ NotHeld(c)

\* All anchors of a publishable claim are in the text.
Anchored(c) == IsPublishable(c) => ResolutionStatus(c) = "matched"

\* What every claim of this paper keeps once its anchors were resolved.
Earned(units, c) == Validated(units, c) /\ Anchored(c)

\* A unit makes a validated claim.
LEMMA UnitClaimValidated ==
  ASSUME NEW units, ~DuplicateIds(units), NEW i \in DOMAIN units,
         NEW c, c = UnitClaim(Paper, units, i)
  PROVE  IsClaim(c) /\ Validated(units, c)
<1>1. IsClaim(c)
  BY DEF UnitClaim, IsClaim, ClaimStatus, UnitStatus
<1>2. Ours(c)
  BY DEF UnitClaim, Ours, Anchors
<1>3. c.origin = "unit" /\ c.id = UnitId(units, i) /\ c.reason = UnitReason(units[i])
      /\ c.status = UnitStatus(units[i])
  BY DEF UnitClaim
<1>4. TracedTo(units, c)
  <2>1. \A j \in DOMAIN units : UnitId(units, j) = UnitId(units, i) => j = i
    BY DEF DuplicateIds
  <2> QED BY <1>3, <2>1 DEF TracedTo
<1>5. NotHeld(c)
  BY <1>3 DEF NotHeld, IsPublishable, UnitStatus, HeldReasons
<1> QED
  BY <1>1, <1>2, <1>4, <1>5 DEF Validated

\* So does what the parser rejected.
LEMMA RejectedValidated ==
  ASSUME NEW units
  PROVE  IsClaim(RejectedClaim) /\ Validated(units, RejectedClaim)
  BY DEF RejectedClaim, IsClaim, ClaimStatus, Validated, Ours, TracedTo, NotHeld, IsPublishable

\* The anchors made for the paper are of the paper.
LEMMA AnchorsOurs ==
  ASSUME NEW q
  PROVE  \A a \in Anchors(Paper, q) : a.source = Paper.url /\ a.title = Paper.title
  BY DEF Anchors

\* So does a section of a reading without units.
LEMMA SectionValidated ==
  ASSUME NEW s, NEW q, NEW f, NEW c, c = SectionClaim(Paper, s, q, f)
  PROVE  IsClaim(c) /\ Validated(<<>>, c)
<1>1. IsClaim(c)
  BY DEF SectionClaim, IsClaim, ClaimStatus
<1>2. c.evidence = Anchors(Paper, q)
  BY DEF SectionClaim
<1>3. Ours(c)
  BY <1>2, AnchorsOurs DEF Ours
<1>4. c.origin = "section"
  BY DEF SectionClaim
<1>5. c.reason = ""
  BY DEF SectionClaim
<1>6. TracedTo(<<>>, c)
  BY <1>4 DEF TracedTo
<1>7. NotHeld(c)
  BY <1>5 DEF NotHeld, HeldReasons
<1> QED
  BY <1>1, <1>3, <1>6, <1>7 DEF Validated

\* A list all of whose items are in a set is a sequence of that set.
LEMMA ListedIn ==
  ASSUME NEW T, NEW n \in Nat, NEW s, s = [i \in 1 .. n |-> s[i]],
         \A i \in 1 .. n : s[i] \in T
  PROVE  s \in Seq(T)
  OBVIOUS

\* The same for a list that repeats one item.
LEMMA RejectedListed ==
  ASSUME NEW n \in Nat, NEW T, NEW x \in T
  PROVE  [k \in 1 .. n |-> x] \in Seq(T)
  OBVIOUS

\* The same for the claims of a reading without units.
LEMMA SectionsListed ==
  ASSUME NEW X, NEW a1 \in X, NEW a2 \in X, NEW a3 \in X, NEW a4 \in X,
         NEW a5 \in X, NEW a6 \in X, NEW a7 \in X, NEW p, NEW q, NEW r
  PROVE  <<a1, a2, a3>> \o (IF p THEN <<a4>> ELSE <<>>) \o (IF q THEN <<a5>> ELSE <<>>)
           \o <<a6>> \o (IF r THEN <<a7>> ELSE <<>>) \in Seq(X)
<1> DEFINE b1 == <<a1, a2, a3>>
           b2 == IF p THEN <<a4>> ELSE <<>>
           b3 == IF q THEN <<a5>> ELSE <<>>
           b4 == <<a6>>
           b5 == IF r THEN <<a7>> ELSE <<>>
<1>1. b1 \in Seq(X)
  OBVIOUS
<1>2. b2 \in Seq(X)
  OBVIOUS
<1>3. b3 \in Seq(X)
  OBVIOUS
<1>4. b4 \in Seq(X)
  OBVIOUS
<1>5. b5 \in Seq(X)
  OBVIOUS
<1>6. (b1 \o b2 \o b3 \o b4 \o b5) \in Seq(X)
  <2> HIDE DEF b1, b2, b3, b4, b5
  <2> QED BY <1>1, <1>2, <1>3, <1>4, <1>5
<1> QED BY <1>6

\* ReadingToClaims makes validated claims of every answer that parses.
LEMMA ReadClaimsValidated ==
  ASSUME NEW a \in ReaderReply, ~ParseFails(a), NEW cs, cs = ReadingToClaims(Paper, a)
  PROVE  AreClaims(cs) /\ \A i \in DOMAIN cs : Validated(a.units, cs[i])
<1> DEFINE rejected == [k \in 1 .. a.rejected |-> RejectedClaim]
           IsGood(c) == IsClaim(c) /\ Validated(a.units, c)
<1>1. IsList(a.units) /\ a.rejected \in Nat
  BY ReadingAssumption
<1>2. IsGood(RejectedClaim)
  BY RejectedValidated
<1>3. ASSUME NEW ws, NEW X, ws \in Seq(X), \A c \in X : IsGood(c), cs = ws \o rejected
      PROVE  AreClaims(cs) /\ \A i \in DOMAIN cs : Validated(a.units, cs[i])
  <2> DEFINE Y == X \cup {RejectedClaim}
  <2>1. ws \in Seq(Y)
    <3>1. X \subseteq Y
      OBVIOUS
    <3> HIDE DEF Y
    <3> QED BY <1>3, <3>1
  <2>2. rejected \in Seq(Y)
    <3>1. RejectedClaim \in Y
      OBVIOUS
    <3> HIDE DEF Y
    <3> QED BY <1>1, <3>1, RejectedListed
  <2>3. \A c \in Y : IsGood(c)
    <3> HIDE DEF IsGood
    <3> QED BY <1>2, <1>3
  <2>4. cs \in Seq(Y)
    <3> HIDE DEF rejected, Y
    <3> QED BY <1>3, <2>1, <2>2
  <2> HIDE DEF rejected, Y
  <2>5. IsList(cs) /\ \A i \in DOMAIN cs : cs[i] \in Y
    BY <2>4, SeqIsList, ListShape
  <2> QED BY <2>3, <2>5 DEF AreClaims
<1>4. CASE a.units # <<>>
  <2> DEFINE own == [i \in DOMAIN a.units |-> UnitClaim(Paper, a.units, i)]
             X == {UnitClaim(Paper, a.units, i) : i \in DOMAIN a.units}
  <2>1. \A c \in X : IsGood(c)
    BY UnitClaimValidated DEF ParseFails
  <2>2. own \in Seq(X)
    <3>1. DOMAIN a.units = 1 .. Len(a.units) /\ Len(a.units) \in Nat
      BY <1>1, ListShape
    <3>2. \A i \in 1 .. Len(a.units) : own[i] \in X
      BY <3>1
    <3>3. own = [i \in 1 .. Len(a.units) |-> own[i]]
      BY <3>1
    <3> HIDE DEF own, X
    <3> QED BY <3>1, <3>2, <3>3, ListedIn
  <2>3. cs = own \o rejected
    BY <1>4 DEF ReadingToClaims
  <2> HIDE DEF own, X, rejected, IsGood
  <2> QED BY <1>3, <2>1, <2>2, <2>3
<1>5. CASE a.units = <<>>
  <2> DEFINE of(s) == SectionQuotes(a, s)
             claim(what, quotes) == SectionClaim(Paper, what, quotes, a.states[what])
             a1 == claim("problem", of("problem_solution"))
             a2 == claim("solution", of("problem_solution"))
             a3 == claim("related_work", of("related_work"))
             a4 == claim("experiment", of("experiments"))
             a5 == claim("limitations", of("limitations"))
             a6 == claim("critical_assessment", of("critical_assessment"))
             a7 == claim("essence", UNION {of(s) : s \in ReadingSections})
             X == {a1, a2, a3, a4, a5, a6, a7}
             ws == SectionClaims(Paper, a)
  <2>1. \A c \in X : IsGood(c)
    BY <1>5, SectionValidated
  <2>2. ws = <<a1, a2, a3>> \o (IF "experiment" \in a.told THEN <<a4>> ELSE <<>>)
               \o (IF "limitations" \in a.told THEN <<a5>> ELSE <<>>)
               \o <<a6>> \o (IF "essence" \in a.told THEN <<a7>> ELSE <<>>)
    BY DEF SectionClaims
  <2>3. /\ a1 \in X /\ a2 \in X /\ a3 \in X /\ a4 \in X /\ a5 \in X /\ a6 \in X /\ a7 \in X
    OBVIOUS
  <2>4. ws \in Seq(X)
    <3> HIDE DEF a1, a2, a3, a4, a5, a6, a7, X, ws
    <3> QED BY <2>2, <2>3, SectionsListed
  <2>5. cs = ws \o rejected
    BY <1>5 DEF ReadingToClaims
  <2> HIDE DEF a1, a2, a3, a4, a5, a6, a7, X, ws, rejected, IsGood
  <2> QED BY <1>3, <2>1, <2>4, <2>5
<1> QED
  BY <1>4, <1>5

\* A validated claim that is demoted stays one.
LEMMA DemotedValidated ==
  ASSUME NEW units, NEW c, Validated(units, c), NEW d, SameClaim(d, c),
         IsPublishable(d) => IsPublishable(c)
  PROVE  Validated(units, d)
  BY DEF Validated, Ours, TracedTo, NotHeld, SameClaim

\* Validation of the quotes leaves validated claims.
LEMMA ReadingValidated ==
  ASSUME NEW a \in ReaderReply, ~ParseFails(a), NEW ds, ds = ValidatedClaims(Paper, a)
  PROVE  AreClaims(ds) /\ \A i \in DOMAIN ds : Validated(a.units, ds[i])
<1> DEFINE bs == ReadingToClaims(Paper, a)
           cs == EnforceEvidencePolicy(bs)
<1>1. ds = [i \in DOMAIN cs |-> ValidateClaim(cs[i], QuoteFound)]
  BY DEF ValidatedClaims, ValidatePaperReading
<1>2. AreClaims(bs) /\ \A i \in DOMAIN bs : Validated(a.units, bs[i])
  BY ReadClaimsValidated
<1>3. Demoted(cs, bs)
  <2> HIDE DEF bs
  <2> QED BY <1>2, PolicyDemotes
<1> HIDE DEF bs, cs
<1>4. AreClaims(cs) /\ \A i \in DOMAIN cs : Validated(a.units, cs[i])
  BY <1>2, <1>3, DemotedValidated DEF Demoted
<1>5. IsList(ds) /\ DOMAIN ds = DOMAIN cs
  <2>1. ds = [i \in DOMAIN cs |-> ds[i]]
    BY <1>1
  <2> QED BY <1>4, <2>1, ListOver DEF AreClaims
<1>6. ASSUME NEW i \in DOMAIN cs
      PROVE  IsClaim(ds[i]) /\ Validated(a.units, ds[i])
  <2> DEFINE c == cs[i]
             valid == {x \in c.evidence : x.quote \in QuoteFound}
  <2>1. IsClaim(c) /\ Validated(a.units, c)
    BY <1>4 DEF AreClaims
  <2>2. ds[i] = ValidateClaim(c, QuoteFound)
    BY <1>1
  <2> HIDE DEF c
  <2>3. CASE ~IsPublishable(c)
    BY <2>1, <2>2, <2>3 DEF ValidateClaim
  <2>4. CASE IsPublishable(c) /\ valid # {}
    <3>1. ds[i] = [c EXCEPT !.evidence = valid]
      BY <2>2, <2>4 DEF ValidateClaim
    <3> DEFINE d == ds[i]
    <3>2. /\ IsClaim(d) /\ d.id = c.id /\ d.evidence = valid /\ d.reason = c.reason
          /\ d.origin = c.origin /\ d.status = c.status
      <4> HIDE DEF valid
      <4> QED BY <2>1, <3>1 DEF IsClaim
    <3>3. valid \subseteq c.evidence
      OBVIOUS
    <3> HIDE DEF valid, d
    <3>4. Validated(a.units, d)
      BY <2>1, <2>4, <3>2, <3>3 DEF Validated, Ours, TracedTo, NotHeld
    <3> QED BY <3>2, <3>4 DEF d
  <2>5. CASE IsPublishable(c) /\ valid = {}
    <3>1. ds[i] = [c EXCEPT !.evidence = {}, !.status = "unsupported"]
      BY <2>2, <2>5 DEF ValidateClaim
    <3> DEFINE d == ds[i]
    <3>2. /\ IsClaim(d) /\ d.id = c.id /\ d.evidence = {} /\ d.reason = c.reason
          /\ d.origin = c.origin
      BY <2>1, <3>1 DEF IsClaim, ClaimStatus
    <3> HIDE DEF d
    <3>3. Validated(a.units, d)
      BY <2>1, <3>2 DEF Validated, Ours, TracedTo, NotHeld, IsPublishable
    <3> QED BY <3>2, <3>3 DEF d
  <2> QED BY <2>3, <2>4, <2>5
<1> QED
  BY <1>5, <1>6 DEF AreClaims

-----------------------------------------------------------------------------
(* What they keep until the report.                                        *)

\* What every claim of a reviewed run keeps: it is earned, or of another paper.
Stands(units, single, c) == Earned(units, c) \/ (~single /\ Theirs(c))

\* The same claim, in another language at most.
SameStanding(d, c) == SameClaim(d, c) /\ d.status = c.status

\* An earned claim that is demoted stays one.
LEMMA DemotedEarned ==
  ASSUME NEW units, NEW c, Earned(units, c), NEW d, SameClaim(d, c),
         IsPublishable(d) => IsPublishable(c)
  PROVE  Earned(units, d)
  BY DemotedValidated, SameResolution DEF Earned, Anchored

\* The same for a claim of a reviewed run.
LEMMA DemotedStands ==
  ASSUME NEW units, NEW single, NEW c, Stands(units, single, c), NEW d, SameClaim(d, c),
         IsPublishable(d) => IsPublishable(c)
  PROVE  Stands(units, single, d)
<1>1. CASE Earned(units, c)
  BY <1>1, DemotedEarned DEF Stands
<1>2. CASE ~single /\ Theirs(c)
  BY <1>2 DEF Stands, Theirs, SameClaim
<1> QED
  BY <1>1, <1>2 DEF Stands

\* Resolving the anchors of validated claims leaves earned ones.
LEMMA ResolvedEarned ==
  ASSUME NEW units, NEW cs, AreClaims(cs), \A i \in DOMAIN cs : Validated(units, cs[i]),
         NEW ds, ds = ApplyAnchorResolution(cs)
  PROVE  AreClaims(ds) /\ \A i \in DOMAIN ds : Earned(units, ds[i])
<1>1. /\ Demoted(ds, cs)
      /\ \A i \in DOMAIN ds : IsPublishable(ds[i]) => ResolutionStatus(ds[i]) = "matched"
  BY ResolutionDemotes
<1>2. \A i \in DOMAIN ds : Validated(units, ds[i])
  BY <1>1, DemotedValidated DEF Demoted
<1> QED
  BY <1>1, <1>2 DEF Demoted, Earned, Anchored

\* So does a repair, whatever the repairer answers and in whatever order.
LEMMA RepairedEarned ==
  ASSUME NEW units, NEW cs, AreClaims(cs), \A i \in DOMAIN cs : Validated(units, cs[i]),
         NEW repairs, IsList(repairs), NEW ds, ds = ApplyAnchorRepair(Paper, cs, repairs)
  PROVE  AreClaims(ds) /\ \A i \in DOMAIN ds : Earned(units, ds[i])
<1> DEFINE rs == ApplyAnchorResolution(cs)
<1>1. PICK es : es \in Mendings(rs, Paper, repairs) /\ ds = ApplyAnchorResolution(es)
  BY RepairsMend
<1>2. AreClaims(rs) /\ \A i \in DOMAIN rs : Validated(units, rs[i])
  BY ResolvedEarned DEF Earned
<1> HIDE DEF rs
<1>3. /\ es \in [DOMAIN rs -> Mended(rs, Paper, repairs)]
      /\ \A i \in DOMAIN rs : Repaired(es[i], rs[i], Paper)
  BY <1>1 DEF Mendings
<1>4. AreClaims(es) /\ DOMAIN es = DOMAIN rs
  <2>1. es = [i \in DOMAIN rs |-> es[i]] /\ \A i \in DOMAIN rs : IsClaim(es[i])
    BY <1>3 DEF Mended
  <2> QED BY <1>2, <2>1, ListOver DEF AreClaims
<1>5. ASSUME NEW i \in DOMAIN rs
      PROVE  Validated(units, es[i])
  <2>1. Validated(units, rs[i]) /\ Repaired(es[i], rs[i], Paper)
    BY <1>2, <1>3
  <2>2. CASE es[i] = rs[i]
    BY <2>1, <2>2
  <2>3. CASE es[i] # rs[i]
    <3>1. /\ ~SkipsRepair(rs[i]) /\ es[i].id = rs[i].id /\ es[i].reason = rs[i].reason
          /\ es[i].origin = rs[i].origin /\ \E w : es[i].evidence = Anchors(Paper, {w})
      BY <2>1, <2>3 DEF Repaired
    <3>2. rs[i].origin # "rejected" /\ rs[i].reason \notin HeldReasons
      BY <3>1 DEF SkipsRepair, HeldReasons
    <3>3. Ours(es[i])
      BY <3>1, AnchorsOurs DEF Ours
    <3> QED BY <2>1, <3>1, <3>2, <3>3 DEF Validated, TracedTo, NotHeld
  <2> QED BY <2>2, <2>3
<1> QED
  BY <1>1, <1>4, <1>5, ResolvedEarned

\* Putting the claims of another paper in front of them leaves all standing.
LEMMA AllStand ==
  ASSUME NEW units, NEW cs, AreClaims(cs), \A i \in DOMAIN cs : Earned(units, cs[i]),
         NEW ds, ds = EnforceEvidencePolicy(OtherClaims \o cs)
  PROVE  AreClaims(ds) /\ \A i \in DOMAIN ds : Stands(units, FALSE, ds[i])
<1> DEFINE bs == OtherClaims \o cs
           Fine(c) == IsClaim(c) /\ Stands(units, FALSE, c)
<1>1. IsList(OtherClaims) /\ \A c \in ToSet(OtherClaims) : Fine(c)
  BY ReadingAssumption, DocumentsAssumption DEF Stands, Theirs
<1>2. IsList(cs) /\ \A c \in ToSet(cs) : Fine(c)
  BY DEF AreClaims, Stands, ToSet
<1>3. IsList(bs) /\ ToSet(bs) \subseteq ToSet(OtherClaims) \cup ToSet(cs)
  BY <1>1, <1>2, ConcatList
<1> HIDE DEF bs, Fine
<1>4. \A i \in DOMAIN bs : Fine(bs[i])
  BY <1>1, <1>2, <1>3, ListShape
<1>5. AreClaims(bs)
  BY <1>3, <1>4 DEF AreClaims, Fine
<1>6. Demoted(ds, bs)
  BY <1>5, PolicyDemotes DEF bs
<1> QED
  BY <1>4, <1>6, DemotedStands DEF Demoted, Fine

\* So does the review, whatever the verifier decides.
LEMMA ReviewedStand ==
  ASSUME NEW units, NEW single, NEW cs, AreClaims(cs),
         \A i \in DOMAIN cs : Stands(units, single, cs[i]),
         NEW review, IsList(review.decisions),
         NEW ds, ds = EnforceEvidencePolicy(ModelReviewPublishableClaims(cs, review).claims)
  PROVE  AreClaims(ds) /\ \A i \in DOMAIN ds : Stands(units, single, ds[i])
<1> DEFINE bs == ModelReviewPublishableClaims(cs, review).claims
<1>1. Demoted(bs, cs)
  BY ReviewDemotes
<1> HIDE DEF bs
<1>2. Demoted(ds, bs)
  BY <1>1, PolicyDemotes DEF Demoted, bs
<1>3. Demoted(ds, cs)
  BY <1>1, <1>2, DemotedTwice
<1> QED
  BY <1>3, DemotedStands DEF Demoted

\* The translation of claims changes their language only.
LEMMA LocalizedStanding ==
  ASSUME NEW cs, AreClaims(cs), NEW places, NEW ds, ds = LocalizedClaims(cs, places)
  PROVE  /\ AreClaims(ds) /\ DOMAIN ds = DOMAIN cs
         /\ \A i \in DOMAIN cs : SameStanding(ds[i], cs[i])
<1>1. ds = [i \in DOMAIN cs |-> ds[i]]
      /\ \A i \in DOMAIN cs : ds[i] = cs[i] \/ ds[i] = [cs[i] EXCEPT !.lang = "zh"]
  BY DEF LocalizedClaims
<1>2. IsList(ds) /\ DOMAIN ds = DOMAIN cs
  BY <1>1, ListOver DEF AreClaims
<1>3. ASSUME NEW i \in DOMAIN cs
      PROVE  IsClaim(ds[i]) /\ SameStanding(ds[i], cs[i])
  <2>1. IsClaim(cs[i])
    BY DEF AreClaims
  <2>2. CASE ds[i] = cs[i]
    BY <2>1, <2>2 DEF SameStanding, SameClaim
  <2>3. CASE ds[i] = [cs[i] EXCEPT !.lang = "zh"]
    BY <2>1, <2>3, WithLang DEF SameStanding
  <2> QED BY <1>1, <2>2, <2>3
<1> QED
  BY <1>2, <1>3 DEF AreClaims

\* A translated explanation has lists of paragraphs like the original.
LEMMA LocalizedLists ==
  ASSUME NEW e, \A key \in DOMAIN e : IsList(e[key]), NEW reply,
         NEW f, f = LocalizedExplanation(e, reply)
  PROVE  \A key \in DOMAIN f : IsList(f[key])
<1>1. DOMAIN f = DOMAIN e
  BY DEF LocalizedExplanation
<1> SUFFICES ASSUME NEW key \in DOMAIN e
             PROVE  IsList(f[key])
  BY <1>1
<1>2. PICK items : f[key] = LocalizedParagraphs(e[key], items)
  BY DEF LocalizedExplanation
<1> DEFINE places == [i \in DOMAIN e[key] |-> i]
           wanted == {i \in DOMAIN e[key] \cap DOMAIN items :
                        ~items[i].blank /\ items[i].ids = e[key][i].ids}
           kept   == Sift(places, wanted)
<1>3. f[key] = [k \in DOMAIN kept |-> e[key][kept[k]]]
  BY <1>2 DEF LocalizedParagraphs
<1>4. IsList(places)
  <2>1. IsList(e[key]) /\ places = [i \in DOMAIN e[key] |-> places[i]]
    OBVIOUS
  <2> HIDE DEF places
  <2> QED BY <2>1, ListOver
<1>5. IsList(kept)
  BY <1>4, SiftList
<1> HIDE DEF kept, places, wanted
<1>6. f[key] = [k \in DOMAIN kept |-> f[key][k]]
  BY <1>3
<1> QED
  BY <1>5, <1>6, ListOver

-----------------------------------------------------------------------------
(* The inductive invariant and what it implies.                            *)

\* The stages with a copy to display, with reviewed claims, and with claims.
Composed == {"displayed", "published", "broken"}
Joined   == {"reviewed", "illustrated"} \cup Composed
Claimed  == {"validated", "read"} \cup Joined

\* What the claims have earned, stage by stage.
ClaimsEarned ==
  /\ stage \in Claimed => AreClaims(claims)
  /\ stage = "validated" => \A i \in DOMAIN claims : Validated(answer.units, claims[i])
  /\ stage = "read" => \A i \in DOMAIN claims : Earned(answer.units, claims[i])
  /\ stage \in Joined => \A i \in DOMAIN claims : Stands(answer.units, setup.single, claims[i])

\* From the validation on there is an answer that was parsed.
AnswerParsed == stage \in Claimed => answer \in ReaderReply

\* What is displayed stands as the claims do.
CopyAgrees ==
  stage \in Composed =>
    /\ AreClaims(copy.claims) /\ DOMAIN copy.claims = DOMAIN claims
    /\ \A i \in DOMAIN claims : SameStanding(copy.claims[i], claims[i])
    /\ \A key \in DOMAIN copy.explanation : IsList(copy.explanation[key])

\* The entry was made from what is displayed.
EntryOrigin ==
  \/ entry = NoEntry
  \/ stage = "published" /\ ~setup.single /\ entry = DeepReadEntry
  \/ stage \in {"published", "broken"} /\ setup.single /\ entry = PaperBrief

\* What is written beside a brief.
FilesBacked ==
  "paper.md" \in files.names =>
    /\ stage \in {"published", "broken"} /\ setup.single /\ entry = PaperBrief
    /\ {"claims.jsonl", "evidence.jsonl", "review_findings.jsonl"} \subseteq files.names
    /\ files.manifest = "complete" /\ files.counted = Len(PublishableClaims(claims))
    /\ {"run_error.json", "localization_error.json"} \cap files.names = {}

\* The inductive invariant.
IInv == ClaimsEarned /\ AnswerParsed /\ CopyAgrees /\ EntryOrigin /\ FilesBacked

\* PublishableClaims are the publishable ones of a list.
LEMMA PublishableListed ==
  ASSUME NEW cs, IsList(cs)
  PROVE  /\ IsList(PublishableClaims(cs))
         /\ ToSet(PublishableClaims(cs)) = {c \in ToSet(cs) : IsPublishable(c)}
<1> DEFINE W == {c \in ToSet(cs) : IsPublishable(c)}
<1>1. IsList(Sift(cs, W)) /\ ToSet(Sift(cs, W)) = ToSet(cs) \cap W
  <2> HIDE DEF W
  <2> QED BY SiftList
<1> QED
  BY <1>1 DEF PublishableClaims

\* A paragraph that PublicExplanation shows names publishable claims only.
LEMMA ProseSupported ==
  ASSUME NEW e, \A key \in DOMAIN e : IsList(e[key]), NEW cs,
         NEW p \in PublicExplanation(e, cs).paragraphs
  PROVE  /\ p.ids # <<>>
         /\ \A id \in ToSet(p.ids) : \E c \in ToSet(cs) : IsPublishable(c) /\ c.id = id
<1> DEFINE ids     == {c.id : c \in {d \in ToSet(cs) : IsPublishable(d)}} \ {""}
           good(k) == {q \in ToSet(e[k]) : q.ids # <<>> /\ ToSet(q.ids) \subseteq ids}
           kept    == [k \in DOMAIN e |-> Sift(e[k], good(k))]
<1>1. p \in UNION {ToSet(kept[k]) : k \in DOMAIN kept}
  BY DEF PublicExplanation
<1>2. PICK k \in DOMAIN e : p \in ToSet(Sift(e[k], good(k)))
  BY <1>1
<1>3. p \in good(k)
  <2> HIDE DEF good
  <2> QED BY <1>2, SiftList
<1>4. p.ids # <<>> /\ ToSet(p.ids) \subseteq ids
  BY <1>3
<1> QED
  BY <1>4

\* A claim that is displayed stands, as one of the run does.
LEMMA ShownStands ==
  ASSUME ClaimsEarned, CopyAgrees, stage \in Composed,
         NEW c \in ToSet(copy.claims)
  PROVE  /\ Stands(answer.units, setup.single, c)
         /\ \E d \in ToSet(claims) : SameStanding(c, d)
<1>1. PICK i \in DOMAIN copy.claims : c = copy.claims[i]
  BY DEF ToSet
<1>2. i \in DOMAIN claims /\ SameStanding(c, claims[i])
  BY <1>1 DEF CopyAgrees
<1>3. Stands(answer.units, setup.single, claims[i])
  BY <1>2 DEF ClaimsEarned, Joined
<1>4. SameClaim(c, claims[i]) /\ (IsPublishable(c) => IsPublishable(claims[i]))
  BY <1>2 DEF SameStanding, SameClaim, IsPublishable
<1> QED
  BY <1>2, <1>3, <1>4, DemotedStands DEF ToSet

\* A claim of the entry is publishable and stands.
LEMMA EntryStands ==
  ASSUME IInv, NEW c \in ToSet(entry.claims)
  PROVE  /\ stage \in Composed /\ c \in ToSet(copy.claims)
         /\ IsPublishable(c) /\ Stands(answer.units, setup.single, c)
<1>1. entry # NoEntry
  BY DEF NoEntry, ToSet
<1>2. stage \in Composed
  BY <1>1 DEF IInv, EntryOrigin, Composed
<1>3. IsList(copy.claims)
  BY <1>2 DEF IInv, CopyAgrees, AreClaims
<1> DEFINE verified == PublishableClaims(copy.claims)
<1>4. IsList(verified) /\ ToSet(verified) = {d \in ToSet(copy.claims) : IsPublishable(d)}
  BY <1>3, PublishableListed
<1> HIDE DEF verified
<1>5. c \in ToSet(verified)
  <2>1. CASE entry = DeepReadEntry
    <3>1. c \in ToSet(ClaimsForReading(verified))
      BY <2>1 DEF DeepReadEntry, verified
    <3> DEFINE W == {d \in ToSet(verified) : \E a \in d.evidence :
                       a.source = Paper.url \/ a.title \in {Paper.title, answer.title}}
    <3>2. c \in ToSet(Sift(verified, W))
      BY <3>1 DEF ClaimsForReading
    <3> HIDE DEF W
    <3> QED BY <1>4, <3>2, SiftList
  <2>2. CASE entry = PaperBrief
    BY <2>2 DEF PaperBrief, verified
  <2> QED BY <1>1, <2>1, <2>2 DEF IInv, EntryOrigin
<1>6. c \in ToSet(copy.claims) /\ IsPublishable(c)
  BY <1>4, <1>5
<1> QED
  BY <1>2, <1>6, ShownStands DEF IInv

\* A claim of the entry that is anchored in this paper only was earned.
LEMMA OwnEarned ==
  ASSUME IInv, NEW c \in OwnClaims(entry.claims)
  PROVE  IsPublishable(c) /\ Earned(answer.units, c)
<1>1. c \in ToSet(entry.claims) /\ \A a \in c.evidence : a.source = Paper.url
  BY DEF OwnClaims
<1>2. IsPublishable(c) /\ Stands(answer.units, setup.single, c)
  BY <1>1, EntryStands
<1>3. ~Theirs(c)
  BY <1>1, <1>2 DEF Theirs, IsPublishable
<1> QED
  BY <1>2, <1>3 DEF Stands

\* The invariant implies that what is published is anchored.
LEMMA IsAnchored ==
  ASSUME IInv
  PROVE  PublishedAnchored
<1> SUFFICES ASSUME NEW c \in OwnClaims(entry.claims)
             PROVE  LET quotes == {a.quote : a \in c.evidence}
                    IN /\ quotes # {} /\ \A q \in quotes : Resolved(q)
                       /\ ~NumericFailure(c, quotes) /\ ~EntityFailure(c, quotes)
  BY DEF PublishedAnchored
<1>1. ResolutionStatus(c) = "matched"
  BY OwnEarned DEF Earned, Anchored
<1> DEFINE quotes  == {a.quote : a \in c.evidence}
           matched == {q \in quotes : Resolved(q)}
<1>2. /\ matched # {} /\ matched = quotes
      /\ ~(NumericFailure(c, quotes) \/ EntityFailure(c, quotes))
  <2> HIDE DEF quotes
  <2>1. ResolutionStatus(c) =
          CASE matched = {} -> "failed"
            [] matched # {} /\ matched # quotes -> "partial"
            [] matched # {} /\ matched = quotes
                 /\ (NumericFailure(c, quotes) \/ EntityFailure(c, quotes)) -> "failed"
            [] OTHER -> "matched"
    BY DEF ResolutionStatus, quotes
  <2> HIDE DEF matched
  <2> QED BY <1>1, <2>1
<1> QED
  BY <1>2

\* It implies that what was held back is not published.
LEMMA IsHeldBack ==
  ASSUME IInv
  PROVE  HeldBackStaysBack
<1> SUFFICES ASSUME NEW c \in OwnClaims(entry.claims), NEW u \in UnitOf(c), u.quotes # {}
             PROVE  UnitReason(u) = "supported"
  BY DEF HeldBackStaysBack
<1>1. IsPublishable(c) /\ TracedTo(answer.units, c) /\ NotHeld(c)
  BY OwnEarned DEF Earned, Validated
<1>2. PICK i \in DOMAIN answer.units : u = answer.units[i] /\ UnitId(answer.units, i) = c.id
  BY DEF UnitOf
<1>3. c.origin # "rejected"
  BY <1>1 DEF TracedTo, IsPublishable
<1>4. UnitReason(u) \notin HeldReasons
  BY <1>1, <1>2, <1>3 DEF TracedTo, NotHeld
<1> QED
  BY <1>4 DEF UnitReason, HeldReasons

-----------------------------------------------------------------------------
(* More of what it implies, and steps that need not look at claims.        *)

\* It implies that prose rests on published claims.
LEMMA IsSupported ==
  ASSUME IInv
  PROVE  ExplanationSupported
<1> SUFFICES ASSUME NEW p \in entry.paragraphs
             PROVE  /\ p.ids # <<>>
                    /\ \A id \in ToSet(p.ids) : \E c \in ToSet(claims) :
                         /\ c.id = id /\ IsPublishable(c)
                         /\ \E a \in c.evidence : a.source = Paper.url \/ a.title = answer.title
  BY DEF ExplanationSupported
<1>1. entry # NoEntry
  BY DEF NoEntry
<1>2. stage \in Composed
  BY <1>1 DEF IInv, EntryOrigin, Composed
<1>3. AreClaims(copy.claims) /\ \A key \in DOMAIN copy.explanation : IsList(copy.explanation[key])
  BY <1>2 DEF IInv, CopyAgrees
<1> DEFINE verified == PublishableClaims(copy.claims)
<1>4. IsList(verified) /\ ToSet(verified) = {d \in ToSet(copy.claims) : IsPublishable(d)}
  BY <1>3, PublishableListed DEF AreClaims
<1> HIDE DEF verified
\* Of whom the paragraph speaks.
<1>5. ASSUME NEW c \in ToSet(verified),
             setup.single \/ \E a \in c.evidence :
                               a.source = Paper.url \/ a.title \in {Paper.title, answer.title}
      PROVE  \E d \in ToSet(claims) :
               /\ d.id = c.id /\ IsPublishable(d)
               /\ \E a \in d.evidence : a.source = Paper.url \/ a.title = answer.title
  <2>1. c \in ToSet(copy.claims) /\ IsPublishable(c)
    BY <1>4
  <2>2. /\ Stands(answer.units, setup.single, c)
        /\ \E d \in ToSet(claims) : SameStanding(c, d)
    BY <1>2, <2>1, ShownStands DEF IInv
  <2>3. PICK d \in ToSet(claims) : SameStanding(c, d)
    BY <2>2
  <2>4. Ours(c) \/ (~setup.single /\ Theirs(c))
    BY <2>2 DEF Stands, Earned, Validated
  <2>5. c.evidence # {}
    BY <2>1 DEF IsPublishable
  <2>6. \E a \in c.evidence : a.source = Paper.url \/ a.title = answer.title
    BY <1>5, <2>4, <2>5 DEF Ours, Theirs
  <2> QED BY <2>1, <2>3, <2>6 DEF SameStanding, SameClaim, IsPublishable
<1>6. CASE entry = DeepReadEntry /\ ~setup.single
  <2> DEFINE W == {d \in ToSet(verified) : \E a \in d.evidence :
                     a.source = Paper.url \/ a.title \in {Paper.title, answer.title}}
             own == ClaimsForReading(verified)
  <2>1. \A c \in ToSet(own) : c \in W
    <3>1. own = Sift(verified, W)
      BY DEF ClaimsForReading
    <3> HIDE DEF W, own
    <3> QED BY <1>4, <3>1, SiftList
  <2>2. p \in PublicExplanation(copy.explanation, own).paragraphs
    BY <1>6 DEF DeepReadEntry, verified
  <2>3. /\ p.ids # <<>>
        /\ \A id \in ToSet(p.ids) : \E c \in ToSet(own) : IsPublishable(c) /\ c.id = id
    <3> HIDE DEF own
    <3> QED BY <1>3, <2>2, ProseSupported
  <2>4. \A c \in ToSet(own) :
          /\ c \in ToSet(verified)
          /\ \E a \in c.evidence : a.source = Paper.url \/ a.title \in {Paper.title, answer.title}
    <3> HIDE DEF own
    <3> QED BY <2>1
  <2> HIDE DEF own, W
  <2> QED BY <1>5, <2>3, <2>4
<1>7. CASE entry = PaperBrief /\ setup.single
  <2> DEFINE sections == DOMAIN copy.explanation \ {"reader_takeaway"}
             e == [key \in sections |-> copy.explanation[key]]
  <2>1. p \in PublicExplanation(e, verified).paragraphs
    BY <1>7 DEF PaperBrief, verified
  <2>2. \A key \in DOMAIN e : IsList(e[key])
    BY <1>3
  <2>3. /\ p.ids # <<>>
        /\ \A id \in ToSet(p.ids) : \E c \in ToSet(verified) : IsPublishable(c) /\ c.id = id
    <3> HIDE DEF e
    <3> QED BY <2>1, <2>2, ProseSupported
  <2> HIDE DEF e
  <2> QED BY <1>5, <1>7, <2>3
<1> QED
  BY <1>1, <1>6, <1>7 DEF IInv, EntryOrigin

\* It implies that a brief has its evidence beside it.
LEMMA IsBacked ==
  ASSUME IInv
  PROVE  BriefBacked
<1> SUFFICES ASSUME "paper.md" \in files.names
             PROVE  /\ {"claims.jsonl", "evidence.jsonl", "review_findings.jsonl"}
                         \subseteq files.names
                    /\ files.manifest = "complete" /\ files.counted = Len(entry.claims)
                    /\ {"run_error.json", "localization_error.json"} \cap files.names = {}
  BY DEF BriefBacked
<1>1. /\ stage \in {"published", "broken"} /\ setup.single /\ entry = PaperBrief
      /\ files.counted = Len(PublishableClaims(claims))
  BY DEF IInv, FilesBacked
<1>2. /\ AreClaims(claims) /\ AreClaims(copy.claims) /\ DOMAIN copy.claims = DOMAIN claims
      /\ \A i \in DOMAIN claims : SameStanding(copy.claims[i], claims[i])
  BY <1>1 DEF IInv, ClaimsEarned, CopyAgrees, Claimed, Joined, Composed
<1>3. /\ IsList(claims) /\ IsList(copy.claims) /\ Len(claims) = Len(copy.claims)
      /\ DOMAIN claims = 1 .. Len(claims)
  BY <1>2, ListShape DEF AreClaims, IsList
<1> DEFINE V == {c \in ToSet(claims) : IsPublishable(c)}
           W == {c \in ToSet(copy.claims) : IsPublishable(c)}
<1>4. \A i \in 1 .. Len(claims) : claims[i] \in V <=> copy.claims[i] \in W
  BY <1>2, <1>3, ListShape DEF SameStanding, SameClaim, IsPublishable
<1>5. Len(Sift(claims, V)) = Len(Sift(copy.claims, W))
  <2> HIDE DEF V, W
  <2> QED BY <1>3, <1>4, SiftLength
<1>6. entry.claims = PublishableClaims(copy.claims)
  BY <1>1 DEF PaperBrief
<1> QED
  BY <1>1, <1>5, <1>6 DEF PublishableClaims, IInv, FilesBacked

\* The invariant holds at the beginning.
LEMMA Initially ==
  ASSUME Init
  PROVE  IInv
<1>1. stage \notin Claimed /\ entry = NoEntry /\ "paper.md" \notin files.names
  BY DEF Init, ReadingInit, Claimed, Joined, Composed, NoFiles
<1> QED
  BY <1>1 DEF IInv, ClaimsEarned, AnswerParsed, CopyAgrees, EntryOrigin, FilesBacked,
              Claimed, Joined

\* A step that gives up, or has no claims yet, keeps the invariant.
LEMMA Stopped ==
  ASSUME IInv, stage \notin {"published", "broken"}, stage' \notin Claimed,
         entry' = entry, "paper.md" \notin files'.names
  PROVE  IInv'
<1>1. entry' = NoEntry
  BY DEF IInv, EntryOrigin
<1> QED
  BY <1>1 DEF IInv, ClaimsEarned, AnswerParsed, CopyAgrees, EntryOrigin, FilesBacked,
              Claimed, Joined, NoEntry

\* A step to a stage before the report keeps it if it keeps the claims right.
LEMMA Onward ==
  ASSUME IInv, stage \notin {"published", "broken"}, ClaimsEarned', AnswerParsed', CopyAgrees',
         entry' = entry, files' = files
  PROVE  IInv'
<1>1. entry' = NoEntry /\ "paper.md" \notin files'.names
  BY DEF IInv, EntryOrigin, FilesBacked
<1> QED
  BY <1>1 DEF IInv, EntryOrigin, FilesBacked, NoEntry

\* There is no brief before the report.
LEMMA NoBriefYet ==
  ASSUME IInv, stage \notin {"published", "broken"}
  PROVE  /\ "paper.md" \notin files.names /\ "paper.md" \notin Created.names
         /\ "paper.md" \notin FailedRun.names /\ "paper.md" \notin FailedLocalization.names
<1>1. Created.names = {"manifest.json"}
  BY DEF Created, NoFiles
<1>2. FailedRun.names = {"manifest.json", "run_error.json"}
  BY DEF FailedRun, Created, NoFiles
<1>3. FailedLocalization.names = {"manifest.json", "localization_attempts.jsonl",
                                  "localization_error.json", "runtime_summary.json"}
  BY DEF FailedLocalization, Created, NoFiles
<1> QED
  BY <1>1, <1>2, <1>3 DEF IInv, FilesBacked

-----------------------------------------------------------------------------
(* The order in which the files of a single run are written.               *)

\* b has no item twice that is at place j.
Once(b, j) == \A k \in 1 .. Len(b) : b[k] = b[j] => k = j

\* A tuple of items of a set is a sequence of that set.
LEMMA SevenListed ==
  ASSUME NEW T, NEW a1 \in T, NEW a2 \in T, NEW a3 \in T, NEW a4 \in T,
         NEW a5 \in T, NEW a6 \in T, NEW a7 \in T
  PROVE  <<a1, a2, a3, a4, a5, a6, a7>> \in Seq(T)
  OBVIOUS

\* The same for ten items.
LEMMA TenListed ==
  ASSUME NEW T, NEW a1 \in T, NEW a2 \in T, NEW a3 \in T, NEW a4 \in T,
         NEW a5 \in T, NEW a6 \in T, NEW a7 \in T, NEW a8 \in T, NEW a9 \in T, NEW a10 \in T
  PROVE  <<a1, a2, a3, a4, a5, a6, a7, a8, a9, a10>> \in Seq(T)
  OBVIOUS

\* The same for two items and for none.
LEMMA TwoListed ==
  ASSUME NEW T, NEW a1 \in T, NEW a2 \in T
  PROVE  <<a1, a2>> \in Seq(T) /\ <<>> \in Seq(T)
  OBVIOUS

\* Of files written in order, those before a written one are written.
LEMMA TailWritten ==
  ASSUME NEW T, NEW p \in Seq(T), NEW b \in Seq(T), NEW s, s = p \o b,
         NEW n \in 0 .. Len(s), NEW names, names = ToSet(SubSeq(s, 1, n)),
         NEW j \in 1 .. Len(b), b[j] \notin ToSet(p),
         Once(b, j), b[j] \in names
  PROVE  \A k \in 1 .. j : b[k] \in names
<1>1. /\ Len(p) \in Nat /\ Len(b) \in Nat /\ Len(s) = Len(p) + Len(b)
      /\ \A i \in 1 .. Len(p) : s[i] = p[i]
      /\ \A k \in 1 .. Len(b) : s[Len(p) + k] = b[k]
      /\ s \in Seq(T)
  OBVIOUS
<1>2. n \in Nat /\ DOMAIN SubSeq(s, 1, n) = 1 .. n /\ \A i \in 1 .. n : SubSeq(s, 1, n)[i] = s[i]
  BY <1>1
<1>3. \A x : x \in names <=> \E i \in 1 .. n : x = s[i]
  BY <1>2 DEF ToSet
<1>4. PICK i \in 1 .. n : b[j] = s[i]
  BY <1>3
<1>5. ~(i <= Len(p))
  <2> SUFFICES ASSUME i <= Len(p) PROVE FALSE
    OBVIOUS
  <2>1. i \in 1 .. Len(p)
    BY <1>1, <1>2
  <2>2. b[j] = p[i] /\ i \in DOMAIN p
    BY <1>1, <1>4, <2>1
  <2> QED BY <2>2 DEF ToSet
<1>6. i - Len(p) \in 1 .. Len(b) /\ Len(p) + (i - Len(p)) = i
  BY <1>1, <1>2, <1>5
<1>7. i - Len(p) = j
  BY <1>1, <1>4, <1>6 DEF Once
<1>8. ASSUME NEW k \in 1 .. j
      PROVE  b[k] \in names
  <2>1. k \in 1 .. Len(b) /\ Len(p) + k \in 1 .. n
    BY <1>1, <1>2, <1>7
  <2> QED BY <1>1, <1>3, <2>1
<1> QED
  BY <1>8

\* Only files of the list are written.
LEMMA WrittenOf ==
  ASSUME NEW T, NEW s \in Seq(T), NEW n \in 0 .. Len(s)
  PROVE  ToSet(SubSeq(s, 1, n)) \subseteq ToSet(s)
<1>1. n \in Nat /\ DOMAIN SubSeq(s, 1, n) = 1 .. n /\ DOMAIN s = 1 .. Len(s) /\ Len(s) \in Nat
      /\ \A i \in 1 .. n : SubSeq(s, 1, n)[i] = s[i]
  OBVIOUS
<1> QED
  BY <1>1 DEF ToSet

\* The claims, their evidence and the findings come before the brief in the
\* order of run_paper, and the files of a failed run are not in it.
LEMMA BriefComesLate ==
  ASSUME NEW n \in 0 .. Len(Artifacts), NEW names, names = ToSet(SubSeq(Artifacts, 1, n)),
         "paper.md" \in names
  PROVE  /\ {"claims.jsonl", "evidence.jsonl", "review_findings.jsonl"} \subseteq names
         /\ {"run_error.json", "localization_error.json"} \cap names = {}
<1> DEFINE p == <<"manifest.json", "sources.jsonl", "artifacts.jsonl", "paper_sections.jsonl",
                  "paper_reading_input.md", "reader_attempts.jsonl", "readings.jsonl">>
           l == IF setup.language = "zh"
                THEN <<"localized_readings.jsonl", "localization_attempts.jsonl">> ELSE <<>>
           b == <<"anchor_resolution.jsonl", "anchor_repair.jsonl", "claims.jsonl",
                  "evidence.jsonl", "review_findings.jsonl", "verification_actions.jsonl",
                  "deep_reading.md", "paper.md", "review_report.md", "runtime_summary.json">>
<1>1. Artifacts = (p \o l) \o b
  BY DEF Artifacts
<1> DEFINE T == {"manifest.json", "sources.jsonl", "artifacts.jsonl",
                 "paper_sections.jsonl", "paper_reading_input.md",
                 "reader_attempts.jsonl", "readings.jsonl", "localized_readings.jsonl",
                 "localization_attempts.jsonl", "anchor_resolution.jsonl",
                 "anchor_repair.jsonl", "claims.jsonl", "evidence.jsonl",
                 "review_findings.jsonl", "verification_actions.jsonl",
                 "deep_reading.md", "paper.md", "review_report.md",
                 "runtime_summary.json"}
<1>2. p \in Seq(T) /\ b \in Seq(T) /\ l \in Seq(T)
  <2>1. /\ "manifest.json" \in T /\ "sources.jsonl" \in T
          /\ "artifacts.jsonl" \in T /\ "paper_sections.jsonl" \in T
          /\ "paper_reading_input.md" \in T /\ "reader_attempts.jsonl" \in T
          /\ "readings.jsonl" \in T
    OBVIOUS
  <2>2. /\ "anchor_resolution.jsonl" \in T /\ "anchor_repair.jsonl" \in T
          /\ "claims.jsonl" \in T /\ "evidence.jsonl" \in T
          /\ "review_findings.jsonl" \in T /\ "verification_actions.jsonl" \in T
          /\ "deep_reading.md" \in T /\ "paper.md" \in T
          /\ "review_report.md" \in T /\ "runtime_summary.json" \in T
    OBVIOUS
  <2>3. /\ "localized_readings.jsonl" \in T /\ "localization_attempts.jsonl" \in T
    OBVIOUS
  <2> HIDE DEF T
  <2>4. p \in Seq(T)
    BY <2>1, SevenListed
  <2>5. b \in Seq(T)
    BY <2>2, TenListed
  <2>6. l \in Seq(T)
    BY <2>3, TwoListed
  <2> QED BY <2>4, <2>5, <2>6
<1>4. ToSet(p) = {"manifest.json", "sources.jsonl", "artifacts.jsonl", "paper_sections.jsonl",
                  "paper_reading_input.md", "reader_attempts.jsonl", "readings.jsonl"}
  BY DEF ToSet
<1>5. ToSet(l) \subseteq {"localized_readings.jsonl", "localization_attempts.jsonl"}
  BY DEF ToSet
<1>6. /\ Len(b) = 10 /\ b[8] = "paper.md" /\ b[3] = "claims.jsonl" /\ b[4] = "evidence.jsonl"
      /\ b[5] = "review_findings.jsonl" /\ b[1] = "anchor_resolution.jsonl"
      /\ b[2] = "anchor_repair.jsonl" /\ b[6] = "verification_actions.jsonl"
      /\ b[7] = "deep_reading.md" /\ b[9] = "review_report.md" /\ b[10] = "runtime_summary.json"
      /\ DOMAIN b = 1 .. 10
  OBVIOUS
<1> HIDE DEF p, l, b, T
<1>7. \A k \in 1 .. 10 : b[k] = b[8] => k = 8
  BY <1>6
<1>8. \A k \in 1 .. 10 : b[k] \notin {"run_error.json", "localization_error.json"}
  BY <1>6
<1>9. (p \o l) \in Seq(T) /\ ToSet(p \o l) \subseteq ToSet(p) \cup ToSet(l)
  <2>1. IsList(p) /\ IsList(l)
    BY <1>2, SeqIsList
  <2>2. ToSet(p \o l) \subseteq ToSet(p) \cup ToSet(l)
    BY <2>1, ConcatList
  <2> QED BY <1>2, <2>2
<1>10. b[8] \notin ToSet(p \o l)
  BY <1>4, <1>5, <1>6, <1>9
<1> DEFINE q == p \o l
<1>11. \A k \in 1 .. 8 : b[k] \in names
  <2>1. q \in Seq(T) /\ Artifacts = q \o b /\ b[8] \notin ToSet(q)
    BY <1>1, <1>9, <1>10
  <2> HIDE DEF q
  <2>2. 8 \in 1 .. Len(b)
    BY <1>6
  <2>3. Once(b, 8)
    BY <1>6, <1>7 DEF Once
  <2>4. b[8] \in names
    BY <1>6
  <2>5. n \in 0 .. Len(q \o b) /\ names = ToSet(SubSeq(q \o b, 1, n))
    BY <2>1
  <2> HIDE DEF b
  <2>6. \A k \in 1 .. 8 : b[k] \in names
    BY <1>2, <2>1, <2>2, <2>3, <2>4, <2>5, TailWritten
  <2> QED BY <2>6
<1>12. names \subseteq ToSet(q) \cup ToSet(b)
  <2>1. q \in Seq(T) /\ Artifacts = q \o b
    BY <1>1, <1>9
  <2> HIDE DEF q
  <2>2. Artifacts \in Seq(T) /\ IsList(q) /\ IsList(b)
    BY <1>2, <2>1, SeqIsList
  <2>3. ToSet(Artifacts) \subseteq ToSet(q) \cup ToSet(b)
    BY <2>1, <2>2, ConcatList
  <2>4. names \subseteq ToSet(Artifacts)
    BY <2>2, WrittenOf
  <2> QED BY <2>3, <2>4
<1>13. {"claims.jsonl", "evidence.jsonl", "review_findings.jsonl"} \subseteq names
  BY <1>6, <1>11
<1>14. ToSet(b) \cap {"run_error.json", "localization_error.json"} = {}
  BY <1>6, <1>8 DEF ToSet
<1>15. ToSet(q) \cap {"run_error.json", "localization_error.json"} = {}
  BY <1>4, <1>5, <1>9
<1> HIDE DEF q
<1> QED
  BY <1>12, <1>13, <1>14, <1>15

-----------------------------------------------------------------------------
(* Every step keeps the invariant.                                         *)

\* The reader answers.
LEMMA ReaderStep ==
  ASSUME IInv, NEW a \in ReaderReply, ReaderAnswers(a), Recorded(FailedRun)
  PROVE  IInv'
<1>1. CASE ParseFails(a)
  <2>1. stage = "reading" /\ stage' \in {"failed", "reading"} /\ entry' = entry
    BY <1>1 DEF ReaderAnswers
  <2>2. "paper.md" \notin files'.names
    BY <2>1, NoBriefYet DEF Recorded
  <2> QED BY <2>1, <2>2, Stopped DEF Claimed, Joined, Composed
<1>2. CASE ~ParseFails(a)
  <2>1. /\ stage = "reading" /\ stage' = "validated" /\ entry' = entry /\ answer' = a
        /\ claims' = ValidatedClaims(Paper, a)
    BY <1>2 DEF ReaderAnswers
  <2>2. files' = files
    BY <2>1 DEF Recorded
  <2>3. AreClaims(claims') /\ \A i \in DOMAIN claims' : Validated(a.units, claims'[i])
    BY <1>2, <2>1, ReadingValidated
  <2>4. ClaimsEarned' /\ AnswerParsed' /\ CopyAgrees'
    BY <2>1, <2>3 DEF ClaimsEarned, AnswerParsed, CopyAgrees, Claimed, Joined, Composed
  <2> QED BY <2>1, <2>2, <2>4, Onward
<1> QED
  BY <1>1, <1>2

\* The anchors are resolved without a repair.
LEMMA AnchorsStep ==
  ASSUME IInv, AnchorsHold, files' = files
  PROVE  IInv'
<1>1. /\ stage = "validated" /\ stage' = "read" /\ entry' = entry /\ answer' = answer
      /\ claims' = ApplyAnchorResolution(claims)
  BY DEF AnchorsHold
<1>2. /\ AreClaims(claims) /\ \A i \in DOMAIN claims : Validated(answer.units, claims[i])
      /\ answer \in ReaderReply
  BY <1>1 DEF IInv, ClaimsEarned, AnswerParsed, Claimed
<1>3. AreClaims(claims') /\ \A i \in DOMAIN claims' : Earned(answer.units, claims'[i])
  BY <1>1, <1>2, ResolvedEarned
<1>4. ClaimsEarned' /\ AnswerParsed' /\ CopyAgrees'
  BY <1>1, <1>2, <1>3 DEF ClaimsEarned, AnswerParsed, CopyAgrees, Claimed, Joined, Composed
<1> QED
  BY <1>1, <1>4, Onward

\* The repairer answers.
LEMMA RepairStep ==
  ASSUME IInv, NEW repairs \in RepairReply, RepairAnswers(repairs), files' = files
  PROVE  IInv'
<1>1. /\ stage = "validated" /\ stage' = "read" /\ entry' = entry /\ answer' = answer
      /\ claims' = ApplyAnchorRepair(Paper, claims, repairs)
  BY DEF RepairAnswers
<1>2. /\ AreClaims(claims) /\ \A i \in DOMAIN claims : Validated(answer.units, claims[i])
      /\ answer \in ReaderReply /\ IsList(repairs)
  BY <1>1, ReadingAssumption DEF IInv, ClaimsEarned, AnswerParsed, Claimed
<1>3. AreClaims(claims') /\ \A i \in DOMAIN claims' : Earned(answer.units, claims'[i])
  BY <1>1, <1>2, RepairedEarned
<1>4. ClaimsEarned' /\ AnswerParsed' /\ CopyAgrees'
  BY <1>1, <1>2, <1>3 DEF ClaimsEarned, AnswerParsed, CopyAgrees, Claimed, Joined, Composed
<1> QED
  BY <1>1, <1>4, Onward

\* The claims are reviewed, or there is no verifier.
LEMMA ReviewStep ==
  ASSUME IInv, files' = files,
         \/ NoReview
         \/ \E review \in ReviewReply : VerifierAnswers(review) \/ PaperReviewed(review)
  PROVE  IInv'
<1>1. /\ stage = "read" /\ stage' = "reviewed" /\ entry' = entry /\ answer' = answer
      /\ setup' = setup
  BY DEF NoReview, VerifierAnswers, PaperReviewed
<1>2. /\ AreClaims(claims) /\ \A i \in DOMAIN claims : Earned(answer.units, claims[i])
      /\ answer \in ReaderReply
  BY <1>1 DEF IInv, ClaimsEarned, AnswerParsed, Claimed
<1>3. AreClaims(AllClaims) /\ \A i \in DOMAIN AllClaims : Stands(answer.units, FALSE, AllClaims[i])
  BY <1>2, AllStand DEF AllClaims
<1>4. AreClaims(claims')
      /\ \A i \in DOMAIN claims' : Stands(answer.units, setup.single, claims'[i])
  <2>1. CASE NoReview
    <3>1. claims' = AllClaims /\ ~setup.single
      BY <2>1 DEF NoReview
    <3> QED BY <1>3, <3>1 DEF Stands
  <2>2. CASE \E review \in ReviewReply : VerifierAnswers(review)
    <3>1. PICK review \in ReviewReply : VerifierAnswers(review)
      BY <2>2
    <3>2. /\ claims' = EnforceEvidencePolicy(ModelReviewPublishableClaims(AllClaims, review).claims)
          /\ ~setup.single /\ IsList(review.decisions)
      BY <3>1, ReadingAssumption DEF VerifierAnswers
    <3>3. AreClaims(claims') /\ \A i \in DOMAIN claims' : Stands(answer.units, FALSE, claims'[i])
      BY <1>3, <3>2, ReviewedStand
    <3> QED BY <3>2, <3>3 DEF Stands
  <2>3. CASE \E review \in ReviewReply : PaperReviewed(review)
    <3>1. PICK review \in ReviewReply : PaperReviewed(review)
      BY <2>3
    <3>2. /\ claims' = EnforceEvidencePolicy(ModelReviewPublishableClaims(claims, review).claims)
          /\ IsList(review.decisions)
      BY <3>1, ReadingAssumption DEF PaperReviewed
    <3>3. \A i \in DOMAIN claims : Stands(answer.units, setup.single, claims[i])
      BY <1>2 DEF Stands
    <3> QED BY <1>2, <3>2, <3>3, ReviewedStand
  <2> QED BY <2>1, <2>2, <2>3
<1>5. ClaimsEarned' /\ AnswerParsed' /\ CopyAgrees'
  BY <1>1, <1>2, <1>4 DEF ClaimsEarned, AnswerParsed, CopyAgrees, Claimed, Joined, Composed
<1> QED
  BY <1>1, <1>5, Onward

\* The figures are extracted.
LEMMA FiguresStep ==
  ASSUME IInv, NEW doc \in Documents, ExtractFigures(doc), files' = files
  PROVE  IInv'
<1>1. CASE ExtractionRaises(doc)
  <2>1. stage = "reviewed" /\ stage' = "failed" /\ entry' = entry
    BY <1>1 DEF ExtractFigures
  <2>2. "paper.md" \notin files'.names
    BY <2>1, NoBriefYet
  <2> QED BY <2>1, <2>2, Stopped DEF Claimed, Joined, Composed
<1>2. CASE ~ExtractionRaises(doc)
  <2>1. /\ stage = "reviewed" /\ stage' = "illustrated" /\ entry' = entry /\ answer' = answer
        /\ setup' = setup /\ claims' = claims
    BY <1>2 DEF ExtractFigures
  <2>2. ClaimsEarned' /\ AnswerParsed' /\ CopyAgrees'
    BY <2>1 DEF IInv, ClaimsEarned, AnswerParsed, CopyAgrees, Claimed, Joined, Composed
  <2> QED BY <2>1, <2>2, Onward
<1> QED
  BY <1>1, <1>2

\* Whatever puts the same claims and lists on display keeps the invariant.
LEMMA DisplayedStep ==
  ASSUME IInv, ReadyToDisplay, stage' = "displayed", entry' = entry, answer' = answer,
         setup' = setup, claims' = claims, files' = files,
         AreClaims(claims) => /\ AreClaims(copy'.claims) /\ DOMAIN copy'.claims = DOMAIN claims
                              /\ \A i \in DOMAIN claims : SameStanding(copy'.claims[i], claims[i]),
         (\A key \in DOMAIN answer.explanation : IsList(answer.explanation[key]))
           => \A key \in DOMAIN copy'.explanation : IsList(copy'.explanation[key])
  PROVE  IInv'
<1>1. stage \in {"reviewed", "illustrated"}
  BY DEF ReadyToDisplay
<1>2. /\ AreClaims(claims) /\ answer \in ReaderReply
      /\ \A i \in DOMAIN claims : Stands(answer.units, setup.single, claims[i])
  BY <1>1 DEF IInv, ClaimsEarned, AnswerParsed, Claimed, Joined
<1>3. \A key \in DOMAIN answer.explanation : IsList(answer.explanation[key])
  BY <1>2, ReadingAssumption
<1>4. ClaimsEarned' /\ AnswerParsed'
  BY <1>2 DEF ClaimsEarned, AnswerParsed, Claimed, Joined, Composed
<1>5. CopyAgrees'
  BY <1>2, <1>3 DEF CopyAgrees, Composed
<1> QED
  BY <1>1, <1>4, <1>5, Onward

\* Nothing is localized.
LEMMA PlainStep ==
  ASSUME IInv, NotLocalized, files' = files
  PROVE  IInv'
<1>1. /\ ReadyToDisplay /\ stage' = "displayed" /\ entry' = entry /\ answer' = answer
      /\ setup' = setup /\ claims' = claims
      /\ copy'.explanation = answer.explanation /\ copy'.claims = claims
  BY DEF NotLocalized
<1>2. \A i \in DOMAIN claims : SameStanding(copy'.claims[i], claims[i])
  BY <1>1 DEF SameStanding, SameClaim
<1> QED
  BY <1>1, <1>2, DisplayedStep

\* The localizer answers.
LEMMA LocalizerStep ==
  ASSUME IInv, NEW reading, NEW display, LocalizerAnswers(reading, display),
         Recorded(FailedLocalization)
  PROVE  IInv'
<1> DEFINE localized == LocalizeReportContent(answer.explanation, claims, figures, reading, display)
<1>1. /\ ReadyToDisplay /\ stage \in {"reviewed", "illustrated"} /\ entry' = entry
      /\ answer' = answer /\ setup' = setup /\ claims' = claims
  BY DEF LocalizerAnswers, ReadyToDisplay
<1>2. CASE LocalizationFailed(localized.attempts)
  <2>1. stage' = "failed"
    BY <1>2 DEF LocalizerAnswers
  <2>2. "paper.md" \notin files'.names
    BY <1>1, NoBriefYet DEF Recorded
  <2> QED BY <1>1, <2>1, <2>2, Stopped DEF Claimed, Joined, Composed
<1>3. CASE ~LocalizationFailed(localized.attempts)
  <2>1. /\ stage' = "displayed" /\ copy'.explanation = localized.explanation
        /\ copy'.claims = localized.claims
    BY <1>3 DEF LocalizerAnswers
  <2>2. files' = files
    BY <2>1 DEF Recorded
  <2>3. copy'.claims = claims \/ copy'.claims = LocalizedClaims(claims, display.claims)
    BY <2>1 DEF LocalizeReportContent
  <2>4. \/ copy'.explanation = answer.explanation
        \/ copy'.explanation = LocalizedExplanation(answer.explanation, reading)
    BY <2>1 DEF LocalizeReportContent
  <2>5. AreClaims(claims) => /\ AreClaims(copy'.claims) /\ DOMAIN copy'.claims = DOMAIN claims
                             /\ \A i \in DOMAIN claims : SameStanding(copy'.claims[i], claims[i])
    BY <2>3, LocalizedStanding DEF SameStanding, SameClaim
  <2>6. (\A key \in DOMAIN answer.explanation : IsList(answer.explanation[key]))
          => \A key \in DOMAIN copy'.explanation : IsList(copy'.explanation[key])
    BY <2>4, LocalizedLists
  <2> QED BY <1>1, <2>1, <2>2, <2>5, <2>6, DisplayedStep
<1> QED
  BY <1>2, <1>3

\* Composing leaves claims, answer and copy as they are.
LEMMA ComposedKeeps ==
  ASSUME IInv, stage = "displayed", stage' \in {"published", "broken"}, answer' = answer,
         setup' = setup, claims' = claims, copy' = copy
  PROVE  ClaimsEarned' /\ AnswerParsed' /\ CopyAgrees'
  BY DEF IInv, ClaimsEarned, AnswerParsed, CopyAgrees, Claimed, Joined, Composed

\* The entry of a daily report is composed.
LEMMA ComposeStep ==
  ASSUME IInv, Compose, files' = files
  PROVE  IInv'
<1>1. /\ stage = "displayed" /\ ~setup.single /\ stage' = "published" /\ answer' = answer
      /\ setup' = setup /\ claims' = claims /\ copy' = copy /\ entry' = DeepReadEntry
  BY DEF Compose
<1>2. DeepReadEntry' = DeepReadEntry
  BY <1>1 DEF DeepReadEntry, ClaimsForReading
<1>3. EntryOrigin'
  BY <1>1, <1>2 DEF EntryOrigin
<1>4. "paper.md" \notin files'.names
  BY <1>1, NoBriefYet
<1> QED
  BY <1>1, <1>3, <1>4, ComposedKeeps DEF IInv, FilesBacked

\* The files of a single paper are written, all or some of them.
LEMMA ComposePaperStep ==
  ASSUME IInv, NEW n \in 0 .. Len(Artifacts), ComposePaper(n)
  PROVE  IInv'
<1> DEFINE names == ToSet(SubSeq(Artifacts, 1, n))
<1>1. /\ stage = "displayed" /\ setup.single /\ stage' \in {"published", "broken"}
      /\ answer' = answer /\ setup' = setup /\ claims' = claims /\ copy' = copy
      /\ entry' = IF "paper.md" \in names THEN PaperBrief ELSE NoEntry
  BY DEF ComposePaper
<1>2. \/ n = 0 /\ files' = files
      \/ files'.manifest = "complete" /\ files'.counted = Len(PublishableClaims(claims))
         /\ files'.names = names
  BY DEF ComposePaper
<1>3. PaperBrief' = PaperBrief /\ NoEntry' = NoEntry
  BY <1>1 DEF PaperBrief, NoEntry
<1>4. EntryOrigin'
  BY <1>1, <1>3 DEF EntryOrigin
<1>5. ASSUME "paper.md" \in names
      PROVE  /\ {"claims.jsonl", "evidence.jsonl", "review_findings.jsonl"} \subseteq names
             /\ {"run_error.json", "localization_error.json"} \cap names = {}
  BY <1>5, BriefComesLate
<1>6. "paper.md" \notin files.names
  BY <1>1, NoBriefYet
<1> HIDE DEF names
<1>7. FilesBacked'
  BY <1>1, <1>2, <1>3, <1>5, <1>6 DEF FilesBacked
<1> QED
  BY <1>1, <1>4, <1>7, ComposedKeeps DEF IInv

\* A step before there are claims, or the failure of a request.
LEMMA EarlyStep ==
  ASSUME IInv,
         \/ \E address \in Address, localizer \in BOOLEAN : RefusePaper(address, localizer)
         \/ \E address \in Address, answers, parses \in BOOLEAN :
              StartPaper(address, answers, parses)
         \/ BuildPacket /\ UNCHANGED files
         \/ AskReader /\ UNCHANGED files
         \/ ReaderUnavailable /\ Recorded(FailedRun)
         \/ RepairUnavailable /\ Recorded(FailedRun)
         \/ VerifierUnavailable /\ Recorded(FailedRun)
  PROVE  IInv'
<1>1. /\ stage \notin {"published", "broken"} /\ entry' = entry
      /\ stage' \in {"refused", "ingested", "failed", "packed", "reading"}
      /\ files' \in {files, Created, FailedRun}
  BY DEF RefusePaper, StartPaper, BuildPacket, AskReader, ReaderUnavailable,
         RepairUnavailable, VerifierUnavailable, Recorded
<1>2. "paper.md" \notin files'.names
  BY <1>1, NoBriefYet
<1> QED
  BY <1>1, <1>2, Stopped DEF Claimed, Joined, Composed

\* Every step keeps the invariant.
LEMMA Preserved ==
  ASSUME IInv, [Next]_vars
  PROVE  IInv'
<1>1. CASE UNCHANGED vars
  BY <1>1 DEF vars, IInv, ClaimsEarned, AnswerParsed, CopyAgrees, EntryOrigin, FilesBacked,
              Claimed, Joined, Composed, DeepReadEntry, ClaimsForReading, PaperBrief, NoEntry
<1>2. CASE Next
  BY <1>2, EarlyStep, ReaderStep, AnchorsStep, RepairStep, ReviewStep, FiguresStep, PlainStep,
     LocalizerStep, ComposeStep, ComposePaperStep DEF Next, PaperReviewed
<1> QED
  BY <1>1, <1>2

\* The claims of a reading are earned stage by stage, and entry and files were
\* made from them.
THEOREM ReadingInvariant == Spec => []IInv
  BY Initially, Preserved, PTL DEF Spec

\* Every claim of the entry about this paper has all of its quotes in the text
\* and every number and every name it states around one of them, with no table
\* row that lacks its method among them, for every text, every answer of
\* reader, repairer and verifier, and every match of quotes.
THEOREM PublishedIsAnchored == Spec => []PublishedAnchored
  BY ReadingInvariant, IsAnchored, PTL

\* A claim that the reader or the lint held back although it had quotes is not
\* in the entry, whatever was repaired and decided since.
THEOREM HeldBackIsNotPublished == Spec => []HeldBackStaysBack
  BY ReadingInvariant, IsHeldBack, PTL

\* A paragraph of the entry names claims, and all of them are publishable and
\* about this paper or the title the reader gave it.
THEOREM ProseRestsOnClaims == Spec => []ExplanationSupported
  BY ReadingInvariant, IsSupported, PTL

\* paper.md never stands without claims.jsonl, evidence.jsonl and
\* review_findings.jsonl, under a manifest that is complete and counts the
\* claims it shows, and beside no file of a failed run, wherever it broke off.
THEOREM BriefIsBacked == Spec => []BriefBacked
  BY ReadingInvariant, IsBacked, PTL

-----------------------------------------------------------------------------
(* The packet: no role that a reading needs is crowded out.                *)

\* What the reader is shown so far: chunks of the paper, each of a page of its
\* own, cut to what is left of the budget.
Picked(acc, chunks) ==
  /\ acc.remaining \in Nat /\ IsList(acc.chunks)
  /\ acc.pages = {c.page : c \in ToSet(acc.chunks)}
  /\ \A c \in ToSet(acc.chunks) : \E d \in ToSet(chunks) : d.page = c.page /\ d.role = c.role

\* A list of the chunks of a paper: no page has two.
AreChunks(chunks) ==
  /\ IsList(chunks)
  /\ \A c \in ToSet(chunks) : c.role \in SectionRole /\ c.size \in Nat /\ c.size > 0
  /\ \A c, d \in ToSet(chunks) : c.page = d.page => c = d

HasRole(acc, role) == \E c \in ToSet(acc.chunks) : c.role = role

\* Nothing is taken back, and at most n chunks of 4500 characters are added.
Grown(next, acc, n) ==
  /\ next.remaining + 4500 * n >= acc.remaining
  /\ \A role \in SectionRole : HasRole(acc, role) => HasRole(next, role)

\* A chunk cut to a budget: at most that, and no stump when the budget is not one.
LEMMA CutToBudget ==
  ASSUME NEW size \in Nat, size > 0, NEW budget \in Nat
  PROVE  /\ BoundedSize(size, budget) \in Nat /\ BoundedSize(size, budget) <= budget
         /\ budget >= 88 => BoundedSize(size, budget) >= 80 \/ BoundedSize(size, budget) = size
  BY DEF BoundedSize

\* What a role may take.
LEMMA RoleBudget ==
  ASSUME NEW role \in SectionRole, NEW budget \in Nat
  PROVE  /\ ChunkCharLimit(role, budget) \in Nat
         /\ ChunkCharLimit(role, budget) >= 800 /\ ChunkCharLimit(role, budget) <= 4500
<1> DEFINE half == Max({800, budget \div 2})
           lim  == RoleLimit[role]
<1>1. budget \div 2 \in Nat
  OBVIOUS
<1>2. half \in Nat /\ half >= 800
  <2> DEFINE h == budget \div 2
  <2>1. {800, h} \in SUBSET Nat /\ {800, h} # {} /\ \A x \in {800, h} : x <= h + 800
    <3> HIDE DEF h
    <3> QED BY <1>1 DEF h
  <2>2. h + 800 \in Nat
    BY <1>1
  <2> HIDE DEF h
  <2>3. Max({800, h}) \in {800, h} /\ \A x \in {800, h} : x <= Max({800, h})
    <3> DEFINE P == {800, h}
    <3>1. P \in SUBSET Nat /\ P # {} /\ h + 800 \in Nat /\ \A x \in P : x <= h + 800
      BY <2>1, <2>2
    <3> HIDE DEF P
    <3>2. Max(P) \in P /\ \A x \in P : x <= Max(P)
      BY <3>1, MaxIsLargest
    <3> QED BY <3>2 DEF P
  <2> QED BY <2>1, <2>3 DEF h
<1>3. lim \in Nat /\ lim >= 1500 /\ lim <= 4500
  BY DEF RoleLimit, SectionRole
<1> HIDE DEF half, lim
<1>4. Min({lim, half}) \in {lim, half} /\ \A x \in {lim, half} : Min({lim, half}) <= x
  <2>1. {lim, half} \in SUBSET Nat /\ {lim, half} # {}
    BY <1>2, <1>3
  <2> QED BY <2>1, MinIsLeast
<1> QED
  BY <1>2, <1>3, <1>4 DEF ChunkCharLimit, half, lim

\* One more chunk: it is taken when its page is not and the budget is no stump.
LEMMA OneMore ==
  ASSUME NEW chunks, AreChunks(chunks), NEW acc, Picked(acc, chunks),
         NEW chunk \in ToSet(chunks), NEW budget \in Nat
  PROVE  LET next == AddChunk(acc, chunk, budget)
         IN /\ Picked(next, chunks) /\ Grown(next, acc, 1)
            /\ (/\ chunk.page \notin acc.pages /\ chunk.role # "references"
                /\ acc.remaining >= 88) => HasRole(next, chunk.role)
<1> DEFINE lim   == Min({acc.remaining, ChunkCharLimit(chunk.role, budget)})
           taken == BoundedSize(chunk.size, lim)
           stump == taken < 80 /\ chunk.size > taken
           no    == \/ chunk.page \in acc.pages \/ chunk.role = "references"
                    \/ acc.remaining <= 0 \/ taken = 0 \/ stump
           cut   == [chunk EXCEPT !.size = taken]
           more  == [pages |-> acc.pages \cup {chunk.page}, remaining |-> acc.remaining - taken,
                     chunks |-> Append(acc.chunks, cut)]
           next  == AddChunk(acc, chunk, budget)
<1>1. chunk.role \in SectionRole /\ chunk.size \in Nat /\ chunk.size > 0 /\ acc.remaining \in Nat
  BY DEF AreChunks, Picked
<1>2. lim \in Nat /\ lim <= acc.remaining /\ lim <= 4500 /\ (acc.remaining >= 88 => lim >= 88)
  <2> DEFINE r == acc.remaining
             m == ChunkCharLimit(chunk.role, budget)
  <2>1. m \in Nat /\ m >= 800 /\ m <= 4500
    BY <1>1, RoleBudget
  <2>2. r \in Nat
    BY <1>1
  <2> HIDE DEF r, m
  <2>3. Min({r, m}) \in {r, m} /\ \A x \in {r, m} : Min({r, m}) <= x
    <3>1. {r, m} \in SUBSET Nat /\ {r, m} # {}
      BY <2>1, <2>2
    <3> QED BY <3>1, MinIsLeast
  <2>4. Min({r, m}) \in Nat /\ Min({r, m}) <= r /\ Min({r, m}) <= 4500
        /\ (r >= 88 => Min({r, m}) >= 88)
    BY <2>1, <2>2, <2>3
  <2> QED BY <2>4 DEF r, m
<1>3. taken \in Nat /\ taken <= lim /\ (lim >= 88 => taken >= 80 \/ taken = chunk.size)
  <2> HIDE DEF lim
  <2> QED BY <1>1, <1>2, CutToBudget
<1> HIDE DEF lim, taken
<1>4. next = IF no THEN acc ELSE more
  BY DEF AddChunk, lim, taken
<1>5. cut.page = chunk.page /\ cut.role = chunk.role
  OBVIOUS
<1>6. IsList(more.chunks) /\ ToSet(more.chunks) = ToSet(acc.chunks) \cup {cut}
  <2> HIDE DEF cut
  <2> QED BY AppendList DEF Picked
<1>7. CASE no
  <2>1. next = acc
    BY <1>4, <1>7
  <2>2. ~(chunk.page \notin acc.pages /\ chunk.role # "references" /\ acc.remaining >= 88)
    BY <1>1, <1>2, <1>3, <1>7
  <2>3. Grown(acc, acc, 1)
    BY <1>1 DEF Grown
  <2> HIDE DEF no
  <2> QED BY <2>1, <2>2, <2>3
<1>8. CASE ~no
  <2>1. next = more
    BY <1>4, <1>8
  <2>2. more.remaining \in Nat /\ more.remaining + 4500 >= acc.remaining
    BY <1>1, <1>2, <1>3
  <2>3. more.pages = {c.page : c \in ToSet(more.chunks)}
    <3> HIDE DEF cut
    <3>1. acc.pages = {c.page : c \in ToSet(acc.chunks)}
      BY DEF Picked
    <3> QED BY <1>5, <1>6, <3>1
  <2>4. Picked(more, chunks)
    <3> HIDE DEF cut, more
    <3> QED BY <1>5, <1>6, <2>2, <2>3 DEF Picked
  <2>5. HasRole(more, chunk.role) /\ Grown(more, acc, 1)
    <3> HIDE DEF cut, more
    <3> QED BY <1>5, <1>6, <2>2 DEF Grown, HasRole
  <2> HIDE DEF more, no
  <2> QED BY <2>1, <2>4, <2>5
<1> QED
  BY <1>7, <1>8

\* a[n] is what there is after the first n chunks.
Added(a, acc, cs, budget) ==
  /\ a[0] = acc
  /\ \A n \in 1 .. Len(cs) : a[n] = AddChunk(a[n - 1], cs[n], budget)

\* AddChunks is the last step of such an a.
LEMMA AddChunksUnfolds ==
  ASSUME NEW acc, NEW cs, IsList(cs), NEW budget
  PROVE  \E a : Added(a, acc, cs, budget) /\ AddChunks(acc, cs, budget) = a[Len(cs)]
<1> DEFINE N == Len(cs)
           Def(n, f) == [i \in 0 .. n |->
             IF i = 0 THEN acc ELSE AddChunk(f[i - 1], cs[i], budget)]
           k == CHOOSE k : k = Def(N, k)
           S == {n \in Nat : \E f : f = Def(n, f)}
<1>1. N \in Nat
  BY ListShape
<1>2. 0 \in S
  <2> DEFINE f == [i \in 0 .. 0 |-> acc]
  <2>1. f = Def(0, f)
    OBVIOUS
  <2> QED BY <2>1
<1>3. ASSUME NEW n \in Nat, n \in S PROVE n + 1 \in S
  <2>1. PICK f : f = Def(n, f)
    BY <1>3
  <2> DEFINE last == AddChunk(f[n], cs[n + 1], budget)
             h == [i \in 0 .. n + 1 |-> IF i = n + 1 THEN last ELSE f[i]]
  <2>2. h[n + 1] = last /\ \A i \in 0 .. n : h[i] = f[i]
    OBVIOUS
  <2>3. ASSUME NEW i \in 0 .. n + 1
        PROVE  h[i] = IF i = 0 THEN acc ELSE AddChunk(h[i - 1], cs[i], budget)
    <3>1. CASE i = n + 1
      <4>1. i - 1 = n /\ n \in 0 .. n /\ i # 0
        BY <3>1
      <4> HIDE DEF h
      <4> QED BY <2>2, <3>1, <4>1
    <3>2. CASE i \in 0 .. n
      <4>1. f[i] = IF i = 0 THEN acc ELSE AddChunk(f[i - 1], cs[i], budget)
        BY <2>1, <3>2
      <4>2. i = 0 \/ i - 1 \in 0 .. n
        BY <3>2
      <4> HIDE DEF h
      <4> QED BY <2>2, <3>2, <4>1, <4>2
    <3> QED BY <3>1, <3>2
  <2>4. h = Def(n + 1, h)
    BY <2>3
  <2> HIDE DEF h, Def
  <2> QED BY <2>4
<1>4. \E f : f = Def(N, f)
  <2> HIDE DEF Def, N
  <2>1. \A n \in Nat : n \in S
    <3> HIDE DEF S
    <3> QED BY <1>2, <1>3, InductionOverNat
  <2> QED BY <1>1, <2>1
<1>5. k = Def(N, k)
  <2> HIDE DEF Def
  <2> QED BY <1>4
<1>6. AddChunks(acc, cs, budget) = k[N]
  BY DEF AddChunks
<1>7. Added(k, acc, cs, budget)
  <2> HIDE DEF k
  <2>1. k[0] = acc
    BY <1>1, <1>5, 0 \in 0 .. N
  <2>2. ASSUME NEW n \in 1 .. N PROVE k[n] = AddChunk(k[n - 1], cs[n], budget)
    <3>1. n \in 0 .. N /\ n # 0
      BY <1>1
    <3> QED BY <1>5, <3>1
  <2> QED BY <2>1, <2>2 DEF Added
<1> QED
  BY <1>6, <1>7

\* Several more: the first of them is taken when its page is not.
LEMMA SeveralMore ==
  ASSUME NEW chunks, AreChunks(chunks), NEW acc, Picked(acc, chunks), NEW budget \in Nat,
         NEW cs, IsList(cs), \A c \in ToSet(cs) : c \in ToSet(chunks)
  PROVE  LET next == AddChunks(acc, cs, budget)
         IN /\ Picked(next, chunks) /\ Grown(next, acc, Len(cs))
            /\ (/\ Len(cs) >= 1 /\ cs[1].page \notin acc.pages /\ cs[1].role # "references"
                /\ acc.remaining >= 88) => HasRole(next, cs[1].role)
<1> DEFINE begun == /\ Len(cs) >= 1 /\ cs[1].page \notin acc.pages
                    /\ cs[1].role # "references" /\ acc.remaining >= 88
<1>1. Len(cs) \in Nat /\ \A i \in 1 .. Len(cs) : cs[i] \in ToSet(chunks)
  BY ListShape
<1>2. PICK a : Added(a, acc, cs, budget) /\ AddChunks(acc, cs, budget) = a[Len(cs)]
  BY AddChunksUnfolds
<1> DEFINE Good(n) == /\ Picked(a[n], chunks) /\ Grown(a[n], acc, n)
                      /\ begun /\ n >= 1 => HasRole(a[n], cs[1].role)
           S == {n \in Nat : n <= Len(cs) => Good(n)}
<1>3. 0 \in S
  <2>1. a[0] = acc
    BY <1>2 DEF Added
  <2>2. Grown(acc, acc, 0)
    BY DEF Grown, Picked
  <2> QED BY <2>1, <2>2
<1>4. ASSUME NEW n \in Nat, n \in S PROVE n + 1 \in S
  <2>1. SUFFICES ASSUME n + 1 <= Len(cs) PROVE Good(n + 1)
    OBVIOUS
  <2>2. Good(n) /\ n + 1 \in 1 .. Len(cs)
    BY <1>1, <1>4, <2>1
  <2>3. a[n + 1] = AddChunk(a[n], cs[n + 1], budget)
    <3>1. (n + 1) - 1 = n
      OBVIOUS
    <3> QED BY <1>2, <2>2, <3>1 DEF Added
  <2>4. cs[n + 1] \in ToSet(chunks)
    BY <1>1, <2>2
  <2>5. /\ Picked(a[n + 1], chunks) /\ Grown(a[n + 1], a[n], 1)
        /\ (/\ cs[n + 1].page \notin a[n].pages /\ cs[n + 1].role # "references"
            /\ a[n].remaining >= 88) => HasRole(a[n + 1], cs[n + 1].role)
    <3> HIDE DEF begun, S
    <3> QED BY <2>2, <2>3, <2>4, OneMore
  <2>6. Grown(a[n + 1], acc, n + 1)
    <3>1. /\ a[n].remaining \in Nat /\ a[n + 1].remaining \in Nat /\ acc.remaining \in Nat
      BY <2>2, <2>5 DEF Picked
    <3>2. /\ a[n + 1].remaining + 4500 * 1 >= a[n].remaining
          /\ a[n].remaining + 4500 * n >= acc.remaining
      BY <2>2, <2>5 DEF Grown
    <3>3. ASSUME NEW x \in Nat, NEW y \in Nat, NEW z \in Nat,
                 z + 4500 * 1 >= y, y + 4500 * n >= x
          PROVE  z + 4500 * (n + 1) >= x
      BY <3>3
    <3>4. a[n + 1].remaining + 4500 * (n + 1) >= acc.remaining
      BY <3>1, <3>2, <3>3
    <3> QED BY <2>2, <2>5, <3>4 DEF Grown
  <2>7. begun => HasRole(a[n + 1], cs[1].role)
    <3>1. CASE n = 0
      <4>1. a[0] = acc
        BY <1>2 DEF Added
      <4> QED BY <2>5, <3>1, <4>1
    <3>2. CASE n # 0
      <4>1. begun => HasRole(a[n], cs[1].role)
        BY <2>2, <3>2
      <4>2. begun => cs[1].role \in SectionRole
        BY <1>1 DEF AreChunks
      <4> HIDE DEF begun
      <4> QED BY <2>5, <4>1, <4>2 DEF Grown
    <3> QED BY <3>1, <3>2
  <2> QED BY <2>5, <2>6, <2>7
<1>5. Good(Len(cs))
  <2>1. \A n \in Nat : n \in S
    <3> HIDE DEF S
    <3> QED BY <1>3, <1>4, InductionOverNat
  <2> QED BY <1>1, <2>1
<1> QED
  BY <1>2, <1>5

\* What is not selected of some roles is of those roles, and on other pages.
LEMMA UnselectedListed ==
  ASSUME NEW chunks, IsList(chunks), NEW acc, NEW roles
  PROVE  /\ IsList(Unselected(acc, chunks, roles))
         /\ ToSet(Unselected(acc, chunks, roles)) =
              {c \in ToSet(chunks) : c.role \in roles /\ c.page \notin acc.pages}
<1> DEFINE W    == {c \in ToSet(chunks) : c.role \in roles /\ c.page \notin acc.pages}
           left == Sift(chunks, W)
           keys == [i \in DOMAIN left |-> <<left[i].score, -left[i].page>>]
<1>1. IsList(left) /\ ToSet(left) = W
  <2>1. IsList(left) /\ ToSet(left) = ToSet(chunks) \cap W
    <3> HIDE DEF W
    <3> QED BY SiftList
  <2> QED BY <2>1
<1>2. Unselected(acc, chunks, roles) = RankedBy(left, keys)
  BY DEF Unselected
<1> HIDE DEF left, keys
<1>3. IsList(RankedBy(left, keys)) /\ ToSet(RankedBy(left, keys)) = W
  <2> HIDE DEF W
  <2> QED BY <1>1, RankedList
<1> QED
  BY <1>2, <1>3

\* A pass over a role: a role the paper has a page for is there afterwards,
\* unless no budget is left.
LEMMA PassAdds ==
  ASSUME NEW chunks, AreChunks(chunks), NEW acc, Picked(acc, chunks), NEW budget \in Nat,
         NEW role \in SectionRole, NEW most \in Nat, most >= 1
  PROVE  LET next == AddPass(acc, chunks, <<role, most>>, budget)
         IN /\ Picked(next, chunks) /\ Grown(next, acc, most)
            /\ (/\ role # "references" /\ acc.remaining >= 88
                /\ \E c \in ToSet(chunks) : c.role = role) => HasRole(next, role)
<1> DEFINE left == Unselected(acc, chunks, {role})
           cs   == [i \in 1 .. Min({most, Len(left)}) |-> left[i]]
           next == AddChunks(acc, cs, budget)
<1>1. AddPass(acc, chunks, <<role, most>>, budget) = next
  BY DEF AddPass
<1>2. IsList(left) /\ ToSet(left) = {c \in ToSet(chunks) : c.role = role /\ c.page \notin acc.pages}
  <2>1. IsList(left) /\ ToSet(left) = {c \in ToSet(chunks) : c.role \in {role} /\ c.page \notin acc.pages}
    BY UnselectedListed DEF AreChunks
  <2> HIDE DEF left
  <2> QED BY <2>1
<1> HIDE DEF left
<1>3. /\ IsList(cs) /\ Len(cs) \in Nat /\ Len(cs) <= most /\ ToSet(cs) \subseteq ToSet(left)
      /\ left # <<>> => Len(cs) >= 1 /\ cs[1] = left[1] /\ left[1] \in ToSet(left)
  BY <1>2, Prefix
<1> HIDE DEF cs
<1>4. /\ Picked(next, chunks) /\ Grown(next, acc, Len(cs))
      /\ (/\ Len(cs) >= 1 /\ cs[1].page \notin acc.pages /\ cs[1].role # "references"
          /\ acc.remaining >= 88) => HasRole(next, cs[1].role)
  <2>1. \A c \in ToSet(cs) : c \in ToSet(chunks)
    BY <1>2, <1>3
  <2> QED BY <1>3, <2>1, SeveralMore
<1> HIDE DEF next
<1>5. Grown(next, acc, most)
  <2>1. acc.remaining \in Nat /\ next.remaining \in Nat
    BY <1>4 DEF Picked
  <2>2. ASSUME NEW x \in Nat, NEW y \in Nat, NEW l \in Nat, l <= most, y + 4500 * l >= x
        PROVE  y + 4500 * most >= x
    BY <2>2
  <2>3. next.remaining + 4500 * Len(cs) >= acc.remaining
    BY <1>4 DEF Grown
  <2>4. next.remaining + 4500 * most >= acc.remaining
    BY <1>3, <2>1, <2>2, <2>3
  <2> QED BY <1>4, <2>4 DEF Grown
<1>6. ASSUME role # "references", acc.remaining >= 88, NEW c \in ToSet(chunks), c.role = role
      PROVE  HasRole(next, role)
  <2>1. CASE left # <<>>
    <3>1. cs[1].role = role /\ cs[1].page \notin acc.pages
      BY <1>2, <1>3, <2>1
    <3> QED BY <1>3, <1>4, <1>6, <2>1, <3>1
  <2>2. CASE left = <<>>
    <3>1. ToSet(left) = {}
      BY <1>2, <2>2, EmptyList
    <3>2. c.page \in acc.pages
      BY <1>2, <1>6, <3>1
    <3>3. PICK d \in ToSet(acc.chunks) : d.page = c.page
      BY <3>2 DEF Picked
    <3>4. PICK e \in ToSet(chunks) : e.page = d.page /\ e.role = d.role
      BY DEF Picked
    <3>5. e = c
      BY <3>3, <3>4 DEF AreChunks
    <3>6. HasRole(acc, role)
      BY <1>6, <3>4, <3>5 DEF HasRole
    <3> QED BY <1>5, <3>6 DEF Grown
  <2> QED BY <2>1, <2>2
<1> QED
  BY <1>1, <1>4, <1>5, <1>6

\* The passes, and what they leave of a budget.
Passes == CoveragePass \o ExtraPass
Unpicked(budget) == [pages |-> {}, remaining |-> budget, chunks |-> <<>>]

LEMMA PassesListed ==
  /\ IsList(Passes) /\ Len(Passes) = 10
  /\ Passes[1] = <<"abstract", 1>> /\ Passes[2] = <<"introduction", 1>>
  /\ Passes[3] = <<"method", 1>> /\ Passes[4] = <<"experiments_results", 2>>
  /\ Passes[5] = <<"limitations_conclusion", 1>>
  /\ \A n \in 1 .. 10 : \E role \in SectionRole, most \in {1, 2} : Passes[n] = <<role, most>>
<1> DEFINE T == SectionRole \X {1, 2}
<1>1. {"abstract", "introduction", "method", "experiments_results", "limitations_conclusion",
       "related_work"} \subseteq SectionRole
  BY DEF SectionRole
<1>2. /\ CoveragePass \in Seq(T) /\ Len(CoveragePass) = 6
      /\ CoveragePass[1] = <<"abstract", 1>> /\ CoveragePass[2] = <<"introduction", 1>>
      /\ CoveragePass[3] = <<"method", 1>> /\ CoveragePass[4] = <<"experiments_results", 2>>
      /\ CoveragePass[5] = <<"limitations_conclusion", 1>>
  BY <1>1 DEF CoveragePass
<1>3. ExtraPass \in Seq(T) /\ Len(ExtraPass) = 4
  BY <1>1 DEF ExtraPass
<1> HIDE DEF T
<1>4. IsList(CoveragePass) /\ IsList(ExtraPass)
  BY <1>2, <1>3, SeqIsList
<1>5. /\ IsList(Passes) /\ Len(Passes) = 10
      /\ \A i \in 1 .. 6 : Passes[i] = CoveragePass[i]
  <2>1. /\ IsList(Passes) /\ Len(Passes) = Len(CoveragePass) + Len(ExtraPass)
        /\ \A i \in 1 .. Len(CoveragePass) : Passes[i] = CoveragePass[i]
    BY <1>4, ConcatPlaces DEF Passes
  <2> QED BY <1>2, <1>3, <2>1
<1>6. Passes \in Seq(T)
  BY <1>2, <1>3 DEF Passes
<1>7. \A n \in 1 .. 10 : Passes[n] \in T
  <2>1. DOMAIN Passes = 1 .. 10
    BY <1>5, ListShape
  <2>2. \A n \in 1 .. Len(Passes) : Passes[n] \in T
    BY <1>6
  <2> QED BY <1>5, <2>2
<1>8. \A x \in T : \E role \in SectionRole, most \in {1, 2} : x = <<role, most>>
  BY DEF T
<1>9. \A n \in 1 .. 10 : \E role \in SectionRole, most \in {1, 2} : Passes[n] = <<role, most>>
  BY <1>7, <1>8
<1> HIDE DEF T
<1> QED
  BY <1>2, <1>5, <1>9

\* p[n] is what is picked after the first n passes.
PickedBy(p, chunks, budget) ==
  /\ p[0] = Unpicked(budget)
  /\ \A n \in 1 .. Len(Passes) : p[n] = AddPass(p[n - 1], chunks, Passes[n], budget)

Filled(most, chunks, budget) == AddChunks(most, Unselected(most, chunks, SectionRole), budget).chunks

\* SelectChunks puts in order what fills up the last step of such a p.
LEMMA SelectUnfolds ==
  ASSUME NEW chunks, NEW budget
  PROVE  \E p : /\ PickedBy(p, chunks, budget)
                /\ \E keys : SelectChunks(chunks, budget)
                               = RankedBy(Filled(p[Len(Passes)], chunks, budget), keys)
<1> DEFINE N == Len(Passes)
           Def(n, f) == [i \in 0 .. n |->
             IF i = 0 THEN Unpicked(budget) ELSE AddPass(f[i - 1], chunks, Passes[i], budget)]
           k == CHOOSE k : k = Def(N, k)
           S == {n \in Nat : \E f : f = Def(n, f)}
<1>1. N \in Nat
  BY PassesListed
<1>2. 0 \in S
  <2> DEFINE f == [i \in 0 .. 0 |-> Unpicked(budget)]
  <2>1. f = Def(0, f)
    OBVIOUS
  <2> QED BY <2>1
<1>3. ASSUME NEW n \in Nat, n \in S PROVE n + 1 \in S
  <2>1. PICK f : f = Def(n, f)
    BY <1>3
  <2> DEFINE last == AddPass(f[n], chunks, Passes[n + 1], budget)
             h == [i \in 0 .. n + 1 |-> IF i = n + 1 THEN last ELSE f[i]]
  <2>2. h[n + 1] = last /\ \A i \in 0 .. n : h[i] = f[i]
    OBVIOUS
  <2>3. ASSUME NEW i \in 0 .. n + 1
        PROVE  h[i] = IF i = 0 THEN Unpicked(budget)
                      ELSE AddPass(h[i - 1], chunks, Passes[i], budget)
    <3>1. CASE i = n + 1
      <4>1. i - 1 = n /\ n \in 0 .. n /\ i # 0
        BY <3>1
      <4> HIDE DEF h
      <4> QED BY <2>2, <3>1, <4>1
    <3>2. CASE i \in 0 .. n
      <4>1. f[i] = IF i = 0 THEN Unpicked(budget)
                   ELSE AddPass(f[i - 1], chunks, Passes[i], budget)
        BY <2>1, <3>2
      <4>2. i = 0 \/ i - 1 \in 0 .. n
        BY <3>2
      <4> HIDE DEF h
      <4> QED BY <2>2, <3>2, <4>1, <4>2
    <3> QED BY <3>1, <3>2
  <2>4. h = Def(n + 1, h)
    BY <2>3
  <2> HIDE DEF h, Def
  <2> QED BY <2>4
<1>4. \E f : f = Def(N, f)
  <2> HIDE DEF Def, N
  <2>1. \A n \in Nat : n \in S
    <3> HIDE DEF S
    <3> QED BY <1>2, <1>3, InductionOverNat
  <2> QED BY <1>1, <2>1
<1>5. k = Def(N, k)
  <2> HIDE DEF Def
  <2> QED BY <1>4
<1>6. \E keys : SelectChunks(chunks, budget) = RankedBy(Filled(k[N], chunks, budget), keys)
  <2> DEFINE filled == Filled(k[N], chunks, budget)
  <2>1. SelectChunks(chunks, budget)
          = RankedBy(filled, [i \in DOMAIN filled |-> <<-filled[i].page>>])
    BY DEF SelectChunks, Filled, Passes, Unpicked
  <2> HIDE DEF filled
  <2> QED BY <2>1 DEF filled
<1>7. PickedBy(k, chunks, budget)
  <2> HIDE DEF k
  <2>1. k[0] = Unpicked(budget)
    BY <1>1, <1>5, 0 \in 0 .. N
  <2>2. ASSUME NEW n \in 1 .. N PROVE k[n] = AddPass(k[n - 1], chunks, Passes[n], budget)
    <3>1. n \in 0 .. N /\ n # 0
      BY <1>1
    <3> QED BY <1>5, <3>1
  <2> QED BY <2>1, <2>2 DEF PickedBy
<1> HIDE DEF k
<1> QED
  BY <1>6, <1>7

\* The roles that a reading needs.
RequiredRoles == {"abstract", "introduction", "method", "experiments_results",
                  "limitations_conclusion"}

\* Each of them is selected when the paper has a page for it: no pass before
\* takes so much that nothing is left for it.
LEMMA SelectCovers ==
  ASSUME NEW chunks, AreChunks(chunks), NEW budget \in Nat, budget >= 5 * 4500 + 88,
         NEW role \in RequiredRoles, \E c \in ToSet(chunks) : c.role = role
  PROVE  \E c \in ToSet(SelectChunks(chunks, budget)) : c.role = role
<1>1. PICK p : /\ PickedBy(p, chunks, budget)
               /\ \E keys : SelectChunks(chunks, budget)
                              = RankedBy(Filled(p[Len(Passes)], chunks, budget), keys)
  BY SelectUnfolds
<1>2. Len(Passes) = 10 /\ p[0] = Unpicked(budget)
      /\ \A n \in 1 .. 10 : p[n] = AddPass(p[n - 1], chunks, Passes[n], budget)
  BY <1>1, PassesListed DEF PickedBy
<1>3. Picked(p[0], chunks) /\ p[0].remaining = budget
  BY <1>2, EmptyList DEF Picked, Unpicked
<1>4. ASSUME NEW n \in 1 .. 10, NEW r \in SectionRole, NEW most \in {1, 2},
             Passes[n] = <<r, most>>, Picked(p[n - 1], chunks)
      PROVE  /\ Picked(p[n], chunks) /\ Grown(p[n], p[n - 1], most)
             /\ (/\ r # "references" /\ p[n - 1].remaining >= 88
                 /\ \E c \in ToSet(chunks) : c.role = r) => HasRole(p[n], r)
  <2>1. p[n] = AddPass(p[n - 1], chunks, <<r, most>>, budget)
    BY <1>2, <1>4
  <2>2. most \in Nat /\ most >= 1
    OBVIOUS
  <2> QED BY <1>4, <2>1, <2>2, PassAdds
<1>5. /\ RequiredRoles \subseteq SectionRole /\ "references" \notin RequiredRoles
      /\ role \in SectionRole
  BY DEF RequiredRoles, SectionRole
<1>6. /\ Picked(p[1], chunks) /\ p[1].remaining + 4500 >= budget
      /\ role = "abstract" => HasRole(p[1], role)
  <2>1. /\ Picked(p[1], chunks) /\ Grown(p[1], p[0], 1)
        /\ p[0].remaining >= 88 /\ role = "abstract" => HasRole(p[1], role)
    <3>1. "abstract" \in SectionRole /\ 1 \in 1 .. 10 /\ 1 - 1 = 0 /\ 1 \in {1, 2}
      BY DEF SectionRole
    <3> QED BY <1>3, <1>4, <3>1, PassesListed
  <2> QED BY <1>3, <2>1 DEF Grown
<1>7. /\ Picked(p[2], chunks) /\ p[2].remaining + 9000 >= budget
      /\ role \in {"abstract", "introduction"} => HasRole(p[2], role)
  <2>1. /\ Picked(p[2], chunks) /\ Grown(p[2], p[1], 1)
        /\ p[1].remaining >= 88 /\ role = "introduction" => HasRole(p[2], role)
    <3>1. "introduction" \in SectionRole /\ 2 \in 1 .. 10 /\ 2 - 1 = 1 /\ 1 \in {1, 2}
      BY DEF SectionRole
    <3> QED BY <1>4, <1>6, <3>1, PassesListed
  <2>2. p[1].remaining \in Nat /\ p[2].remaining \in Nat
    BY <1>6, <2>1 DEF Picked
  <2> QED BY <1>5, <1>6, <2>1, <2>2 DEF Grown
<1>8. /\ Picked(p[3], chunks) /\ p[3].remaining + 13500 >= budget
      /\ role \in {"abstract", "introduction", "method"} => HasRole(p[3], role)
  <2>1. /\ Picked(p[3], chunks) /\ Grown(p[3], p[2], 1)
        /\ p[2].remaining >= 88 /\ role = "method" => HasRole(p[3], role)
    <3>1. "method" \in SectionRole /\ 3 \in 1 .. 10 /\ 3 - 1 = 2 /\ 1 \in {1, 2}
      BY DEF SectionRole
    <3> QED BY <1>4, <1>7, <3>1, PassesListed
  <2>2. p[2].remaining \in Nat /\ p[3].remaining \in Nat
    BY <1>7, <2>1 DEF Picked
  <2> QED BY <1>5, <1>7, <2>1, <2>2 DEF Grown
<1>9. /\ Picked(p[4], chunks) /\ p[4].remaining + 22500 >= budget
      /\ role \in {"abstract", "introduction", "method", "experiments_results"}
           => HasRole(p[4], role)
  <2>1. /\ Picked(p[4], chunks) /\ Grown(p[4], p[3], 2)
        /\ p[3].remaining >= 88 /\ role = "experiments_results" => HasRole(p[4], role)
    <3>1. "experiments_results" \in SectionRole /\ 4 \in 1 .. 10 /\ 4 - 1 = 3 /\ 2 \in {1, 2}
      BY DEF SectionRole
    <3> QED BY <1>4, <1>8, <3>1, PassesListed
  <2>2. p[3].remaining \in Nat /\ p[4].remaining \in Nat
    BY <1>8, <2>1 DEF Picked
  <2> QED BY <1>5, <1>8, <2>1, <2>2 DEF Grown
<1>10. Picked(p[5], chunks) /\ HasRole(p[5], role)
  <2>1. /\ Picked(p[5], chunks) /\ Grown(p[5], p[4], 1)
        /\ p[4].remaining >= 88 /\ role = "limitations_conclusion" => HasRole(p[5], role)
    <3>1. "limitations_conclusion" \in SectionRole /\ 5 \in 1 .. 10 /\ 5 - 1 = 4 /\ 1 \in {1, 2}
      BY DEF SectionRole
    <3> QED BY <1>4, <1>9, <3>1, PassesListed
  <2>2. p[4].remaining \in Nat
    BY <1>9 DEF Picked
  <2> QED BY <1>5, <1>9, <2>1, <2>2 DEF Grown, RequiredRoles
<1>11. \A n \in 5 .. 10 : Picked(p[n], chunks) /\ HasRole(p[n], role)
  <2> DEFINE S == {m \in Nat : m <= 5 => Picked(p[5 + m], chunks) /\ HasRole(p[5 + m], role)}
  <2>1. 0 \in S
    BY <1>10
  <2>2. ASSUME NEW m \in Nat, m \in S PROVE m + 1 \in S
    <3>1. SUFFICES ASSUME m + 1 <= 5
                   PROVE  Picked(p[5 + (m + 1)], chunks) /\ HasRole(p[5 + (m + 1)], role)
      OBVIOUS
    <3>2. Picked(p[5 + m], chunks) /\ HasRole(p[5 + m], role)
      BY <2>2, <3>1
    <3>3. 5 + (m + 1) \in 1 .. 10 /\ (5 + (m + 1)) - 1 = 5 + m
      BY <3>1
    <3>4. PICK r \in SectionRole, most \in {1, 2} : Passes[5 + (m + 1)] = <<r, most>>
      BY <3>3, PassesListed
    <3>5. Picked(p[5 + (m + 1)], chunks) /\ Grown(p[5 + (m + 1)], p[5 + m], most)
      BY <1>4, <3>2, <3>3, <3>4
    <3> QED BY <1>5, <3>2, <3>5 DEF Grown
  <2>3. \A m \in Nat : m \in S
    <3> HIDE DEF S
    <3> QED BY <2>1, <2>2, InductionOverNat
  <2> QED
    <3>1. TAKE n \in 5 .. 10
    <3>2. n - 5 \in Nat /\ n - 5 <= 5 /\ 5 + (n - 5) = n
      OBVIOUS
    <3> QED BY <2>3, <3>2
<1>12. Picked(p[10], chunks) /\ HasRole(p[10], role)
  BY <1>11
<1> DEFINE more == Unselected(p[10], chunks, SectionRole)
           next == AddChunks(p[10], more, budget)
<1>13. Picked(next, chunks) /\ HasRole(next, role)
  <2>1. IsList(more) /\ \A c \in ToSet(more) : c \in ToSet(chunks)
    BY UnselectedListed DEF AreChunks
  <2> HIDE DEF more
  <2>2. Picked(next, chunks) /\ Grown(next, p[10], Len(more))
    BY <1>12, <2>1, SeveralMore
  <2> HIDE DEF next
  <2> QED BY <1>5, <1>12, <2>2 DEF Grown
<1> DEFINE filled == Filled(p[10], chunks, budget)
<1>14. IsList(filled) /\ \E c \in ToSet(filled) : c.role = role
  BY <1>13 DEF Filled, Picked, HasRole
<1>15. PICK keys : SelectChunks(chunks, budget) = RankedBy(filled, keys)
  BY <1>1, <1>2
<1> HIDE DEF filled
<1> QED
  BY <1>14, <1>15, RankedList

\* What a page is classified as is a role.
LEMMA RoleOfPage ==
  ASSUME NEW n, NEW page, page.keywords \in SectionRole
  PROVE  ClassifyRole(n, page) \in SectionRole
<1> DEFINE named == Sift(HeadingOrder, page.headings)
<1>1. HeadingOrder \in Seq(SectionRole)
  BY DEF HeadingOrder, SectionRole
<1>2. IsList(HeadingOrder) /\ \A x \in ToSet(HeadingOrder) : x \in SectionRole
  BY <1>1, SeqIsList
<1>3. IsList(named) /\ \A x \in ToSet(named) : x \in SectionRole
  BY <1>2, SiftList
<1> HIDE DEF named
<1>4. named # <<>> => named[1] \in SectionRole
  BY <1>3, FirstPlace, ListShape
<1>5. "abstract" \in SectionRole
  BY DEF SectionRole
<1> QED
  BY <1>4, <1>5 DEF ClassifyRole, named

\* What a text comes to are chunks, no two of one page.
LEMMA SectionsAreChunks ==
  ASSUME NEW pages, IsText(pages)
  PROVE  AreChunks(BuildPaperSections(pages))
<1> DEFINE inReferences[n \in 0 .. Len(pages)] ==
             CASE n = 0 -> FALSE
               [] n > 0 /\ pages[n].size = 0 -> inReferences[n - 1]
               [] OTHER -> \/ pages[n].starts = "references"
                           \/ inReferences[n - 1] /\ pages[n].starts # "appendix"
           role(n) == IF inReferences[n] THEN "references" ELSE ClassifyRole(n, pages[n])
           chunk(n) == [role |-> role(n), page |-> n, size |-> pages[n].size,
                        score |-> PriorityScore(role(n), pages[n])]
           W       == {n \in DOMAIN pages : pages[n].size > 0}
           told    == Sift([n \in DOMAIN pages |-> n], W)
           chunks  == [k \in DOMAIN told |-> chunk(told[k])]
<1>1. BuildPaperSections(pages) = chunks
  BY DEF BuildPaperSections
<1>2. IsList(told) /\ \A n \in ToSet(told) : n \in W
  <2> HIDE DEF W
  <2> QED BY Numbered DEF IsText
<1> HIDE DEF told, inReferences
<1>3. IsList(chunks) /\ \A c \in ToSet(chunks) : \E n \in W : c = chunk(n)
  <2>1. chunks = [k \in DOMAIN told |-> chunks[k]]
    OBVIOUS
  <2>2. DOMAIN chunks = DOMAIN told /\ \A k \in DOMAIN told : chunks[k] = chunk(told[k])
    OBVIOUS
  <2>3. \A k \in DOMAIN told : told[k] \in W
    BY <1>2 DEF ToSet
  <2> HIDE DEF chunks, chunk, W
  <2>4. IsList(chunks)
    BY <1>2, <2>1, ListOver
  <2> QED BY <2>2, <2>3, <2>4 DEF ToSet
<1>4. ASSUME NEW n \in W PROVE role(n) \in SectionRole /\ pages[n].size \in Nat /\ pages[n].size > 0
  <2>1. pages[n] \in ToSet(pages)
    BY ListShape DEF IsText
  <2>2. pages[n].size \in Nat /\ pages[n].keywords \in SectionRole
    BY <2>1 DEF IsText
  <2>3. "references" \in SectionRole
    BY DEF SectionRole
  <2> QED BY <2>2, <2>3, RoleOfPage
<1>5. \A n \in W : /\ chunk(n).page = n /\ chunk(n).size = pages[n].size
                   /\ chunk(n).role = role(n)
  OBVIOUS
<1> HIDE DEF chunks, chunk, W, role
<1> QED
  BY <1>1, <1>3, <1>4, <1>5 DEF AreChunks

\* What the packet of a text covers.
Covered(shown) ==
  \A group \in RequiredGroups :
    group \in shown.warnings \/ \E c \in ToSet(shown.chunks) : c.role \in group

LEMMA PacketCovers ==
  ASSUME NEW pages, IsText(pages), NEW budget \in Nat, budget >= 5 * 4500 + 88
  PROVE  Covered(BuildReadingPacket(pages, budget))
<1> DEFINE chunks == BuildPaperSections(pages)
<1>1. AreChunks(chunks)
  BY SectionsAreChunks
<1> HIDE DEF chunks
<1>2. SUFFICES ASSUME NEW group \in RequiredGroups, group \notin CoverageWarnings(chunks)
               PROVE  \E c \in ToSet(SelectChunks(chunks, budget)) : c.role \in group
  BY DEF Covered, BuildReadingPacket, chunks
<1>3. PICK c \in ToSet(chunks) : c.role \in group
  BY <1>2 DEF CoverageWarnings
<1>4. c.role \in RequiredRoles
  BY <1>3 DEF RequiredGroups, RequiredRoles
<1> QED
  BY <1>1, <1>3, <1>4, SelectCovers

\* The text is one until it is packed, and then the packet covers it.
TextRead ==
  /\ stage \in {"requested", "ingested"} => IsText(text)
  /\ stage = "packed" => Covered(packet)

\* The packet holds what its text has, step by step.
LEMMA TextInitially ==
  ASSUME Init
  PROVE  TextRead
  BY TextsAssumption DEF Init, ReadingInit, TextRead

LEMMA TextPreserved ==
  ASSUME TextRead, [Next]_vars
  PROVE  TextRead'
<1>1. CASE UNCHANGED vars
  BY <1>1 DEF vars, TextRead, IsText, Covered
<1>2. ASSUME stage' \notin {"requested", "ingested", "packed"} PROVE TextRead'
  BY <1>2 DEF TextRead
<1>3. ASSUME NEW address \in Address, NEW answers \in BOOLEAN, NEW parses \in BOOLEAN,
             StartPaper(address, answers, parses)
      PROVE  TextRead'
  <2>1. stage = "requested" /\ \/ stage' = "ingested" /\ text' = text
                               \/ stage' = "failed"
    BY <1>3 DEF StartPaper
  <2> QED BY <2>1 DEF TextRead, IsText
<1>4. ASSUME BuildPacket PROVE TextRead'
  <2>1. stage = "ingested" /\ stage' = "packed" /\ packet' = BuildReadingPacket(text, Budget)
    BY <1>4 DEF BuildPacket
  <2>2. Covered(BuildReadingPacket(text, Budget))
    BY <2>1, TextsAssumption, PacketCovers DEF TextRead
  <2> QED BY <2>1, <2>2 DEF TextRead, Covered
<1>5. ASSUME Next PROVE TextRead'
  <2>1. ASSUME NEW a, ReaderAnswers(a) PROVE TextRead'
    <3>1. stage' \in {"failed", "reading", "validated"}
      BY <2>1 DEF ReaderAnswers
    <3> QED BY <1>2, <3>1
  <2>2. ASSUME NEW doc, ExtractFigures(doc) PROVE TextRead'
    BY <1>2, <2>2 DEF ExtractFigures
  <2>3. ASSUME NEW reading, NEW display, LocalizerAnswers(reading, display) PROVE TextRead'
    BY <1>2, <2>3 DEF LocalizerAnswers
  <2>4. ASSUME NEW n, ComposePaper(n) PROVE TextRead'
    BY <1>2, <2>4 DEF ComposePaper
  <2>5. ASSUME \/ \E address \in Address, localizer \in BOOLEAN : RefusePaper(address, localizer)
               \/ AskReader \/ ReaderUnavailable \/ AnchorsHold
               \/ \E repairs \in RepairReply : RepairAnswers(repairs)
               \/ RepairUnavailable \/ NoReview
               \/ \E review \in ReviewReply : VerifierAnswers(review) \/ PaperReviewed(review)
               \/ VerifierUnavailable \/ NotLocalized \/ Compose
        PROVE  TextRead'
    <3>1. stage' \in {"refused", "reading", "failed", "read", "reviewed", "displayed", "published"}
      BY <2>5 DEF RefusePaper, AskReader, ReaderUnavailable, AnchorsHold, RepairAnswers,
         RepairUnavailable, NoReview, VerifierAnswers, PaperReviewed, VerifierUnavailable,
         NotLocalized, Compose
    <3> QED BY <1>2, <3>1
  <2> QED BY <1>3, <1>4, <1>5, <2>1, <2>2, <2>3, <2>4, <2>5 DEF Next
<1> QED
  BY <1>1, <1>5

\* No role that a reading needs and the paper has a page for is missing in the
\* packet, for every text: none of the passes before it can use up the budget.
THEOREM CoverageIsKept == Spec => []CoverageHolds
<1>1. TextRead => CoverageHolds
  BY DEF TextRead, Covered, CoverageHolds
<1> QED
  BY <1>1, TextInitially, TextPreserved, PTL DEF Spec

-----------------------------------------------------------------------------
(* The figures: each is bound to a claim, and cropped above its caption.   *)

\* The claim a figure is bound to is publishable, and speaks of the source.
LEMMA BestIsPublishable ==
  ASSUME NEW cs, IsList(cs), NEW words, NEW url, NEW arxiv,
         BestMatchingClaim(words, cs, url, arxiv) # <<>>
  PROVE  LET c == BestMatchingClaim(words, cs, url, arxiv)[1]
         IN c \in ToSet(cs) /\ IsPublishable(c) /\ ClaimMatchesSource(c, url, arxiv)
<1> DEFINE published == PublishableClaims(cs)
           verified  == {c \in ToSet(published) : ClaimMatchesSource(c, url, arxiv)}
           shared(c) == Cardinality(words \cap WordsOf(c))
           W == {c \in verified : /\ shared(c) >= 2
                                  /\ \A d \in verified : shared(d) <= shared(c)}
           best == Sift(published, W)
<1>1. BestMatchingClaim(words, cs, url, arxiv) = IF best = <<>> THEN <<>> ELSE <<best[1]>>
  BY DEF BestMatchingClaim
<1>2. /\ IsList(published)
      /\ ToSet(published) = {c \in ToSet(cs) : IsPublishable(c)}
  BY PublishableListed
<1>3. IsList(best) /\ ToSet(best) \subseteq W
  <2> HIDE DEF W, published
  <2> QED BY <1>2, SiftList
<1> HIDE DEF best
<1>4. best # <<>> /\ BestMatchingClaim(words, cs, url, arxiv)[1] = best[1]
  BY <1>1
<1>5. best[1] \in W
  <2> HIDE DEF W
  <2> QED BY <1>3, <1>4, FirstPlace, ListShape
<1> HIDE DEF published
<1> QED
  BY <1>2, <1>4, <1>5

\* The crop of a page lies on it, above the line that names the figure, with
\* no other caption and no paragraph in it.
CropStands(page, box, number) ==
  /\ box.x >= 0 /\ box.x + box.width <= page.width
  /\ box.y >= 0 /\ box.y + box.height < CaptionLine(page, number)[1].top
  /\ CropTextIsPublishable(page, box, number)

\* What stands above a caption.
Above(l, captionTop) ==
  l.top \in Nat /\ l.bottom \in Nat /\ l.top <= l.bottom /\ l.bottom < captionTop - 4

\* There is a widest gap, and it has a place on the page.
LEMMA TopOfCrop ==
  ASSUME NEW page, page.height \in Nat, NEW captionTop \in Nat,
         NEW lines, IsList(lines), \A l \in ToSet(lines) : Above(l, captionTop)
  PROVE  LET top == CropTopFromTextGap(page, lines, captionTop)
         IN top = -1 \/ top \in Nat
<1> DEFINE below(i) == IF i = Len(lines) THEN captionTop ELSE lines[i + 1].top
           bottom(i) == CHOOSE b \in {lines[j].bottom : j \in 1 .. i} :
                          \A j \in 1 .. i : lines[j].bottom <= b
           gap(i) == below(i) - bottom(i)
           widest == CHOOSE i \in DOMAIN lines : \A j \in DOMAIN lines :
                       gap(j) < gap(i) \/ (gap(j) = gap(i) /\ i <= j)
           least  == IF page.height > 800 THEN page.height \div 40 ELSE 20
           reach  == IF 36 * page.height > 36000 THEN 360 ELSE (36 * page.height) \div 100
           top    == CropTopFromTextGap(page, lines, captionTop)
<1>1. top = IF lines = <<>> THEN IF captionTop > reach THEN captionTop - reach ELSE 0
            ELSE IF gap(widest) < least THEN -1 ELSE bottom(widest) + 4
  BY DEF CropTopFromTextGap
<1>2. reach \in Nat
  OBVIOUS
<1>3. Len(lines) \in Nat /\ DOMAIN lines = 1 .. Len(lines)
      /\ \A i \in DOMAIN lines : Above(lines[i], captionTop)
  BY ListShape
<1>6. ASSUME NEW i \in DOMAIN lines PROVE bottom(i) \in Nat
  <2> DEFINE B == {lines[j].bottom : j \in 1 .. i}
             D == {captionTop - b : b \in B}
  <2>1. \A j \in 1 .. i : lines[j].bottom \in Nat /\ captionTop - lines[j].bottom \in Nat
    BY <1>3 DEF Above
  <2>2. D \in SUBSET Nat /\ D # {} /\ B \subseteq Nat
    BY <1>3, <2>1
  <2>3. PICK m \in D : \A n \in D : m <= n
    <3> HIDE DEF D
    <3> QED BY <2>2, LeastExists
  <2>4. PICK b \in B : m = captionTop - b
    BY <2>3
  <2>5. \A j \in 1 .. i : lines[j].bottom <= b
    <3>1. ASSUME NEW j \in 1 .. i PROVE lines[j].bottom <= b
      <4>1. captionTop - lines[j].bottom \in D
        OBVIOUS
      <4>2. m <= captionTop - lines[j].bottom
        BY <2>3, <4>1
      <4>3. b \in Nat /\ lines[j].bottom \in Nat
        BY <2>1, <2>2, <2>4
      <4> QED BY <2>4, <4>2, <4>3
    <3> QED BY <3>1
  <2>6. bottom(i) \in B
    <3> HIDE DEF B
    <3>1. \E c \in B : \A j \in 1 .. i : lines[j].bottom <= c
      BY <2>5
    <3> QED BY <3>1 DEF B
  <2> QED BY <2>2, <2>6
<1>4. ASSUME lines # <<>> PROVE widest \in DOMAIN lines
  <2>1. 1 \in DOMAIN lines
    BY <1>4, FirstPlace
  <2>2. ASSUME NEW i \in DOMAIN lines PROVE gap(i) \in Int /\ captionTop - gap(i) \in Nat
    <3>1. bottom(i) \in Nat
      BY <1>6
    <3>2. below(i) \in Nat /\ below(i) <= captionTop
      <4>1. CASE i = Len(lines)
        BY <4>1
      <4>2. CASE i # Len(lines)
        <5>1. i + 1 \in DOMAIN lines
          BY <1>3, <4>2
        <5>2. Above(lines[i + 1], captionTop)
          BY <1>3, <5>1
        <5> QED BY <4>2, <5>2 DEF Above
      <4> QED BY <4>1, <4>2
    <3> HIDE DEF below, bottom
    <3> QED BY <3>1, <3>2
  <2> HIDE DEF gap
  <2> DEFINE G == {captionTop - gap(i) : i \in DOMAIN lines}
  <2>3. PICK m \in G : \A n \in G : m <= n
    <3>1. G \in SUBSET Nat /\ G # {}
      BY <2>1, <2>2
    <3> HIDE DEF G
    <3> QED BY <3>1, LeastExists
  <2> DEFINE J == {j \in DOMAIN lines : captionTop - gap(j) = m}
  <2>4. PICK i \in J : \A j \in J : i <= j
    <3>1. J \in SUBSET Nat /\ J # {}
      BY <1>3, <2>3
    <3> HIDE DEF J
    <3> QED BY <3>1, LeastExists
  <2>5. ASSUME NEW j \in DOMAIN lines PROVE gap(j) < gap(i) \/ (gap(j) = gap(i) /\ i <= j)
    <3>1. captionTop - gap(i) <= captionTop - gap(j)
      BY <2>3, <2>4
    <3>2. gap(i) \in Int /\ gap(j) \in Int
      BY <2>2, <2>4
    <3>3. gap(j) = gap(i) => i <= j
      BY <2>4
    <3> QED BY <3>1, <3>2, <3>3
  <2>6. i \in DOMAIN lines
    BY <2>4
  <2> QED BY <2>5, <2>6
<1> HIDE DEF widest
<1>5. lines # <<>> => bottom(widest) \in Nat
  BY <1>4, <1>6
<1> HIDE DEF gap, bottom, reach, least, top
<1> QED
  BY <1>1, <1>2, <1>5 DEF top

\* What stands above a caption in a column are lines above it.
LEMMA LinesAboveListed ==
  ASSUME NEW page, IsPage(page), NEW left, NEW right, NEW captionTop
  PROVE  LET lines == LinesAbove(page, left, right, captionTop)
         IN IsList(lines) /\ \A l \in ToSet(lines) : Above(l, captionTop)
<1> DEFINE W == {l \in ToSet(page.lines) :
                   l.right >= left /\ l.left <= right /\ l.bottom < captionTop - 4}
           above == Sift(page.lines, W)
           tops  == [i \in DOMAIN above |-> [top |-> above[i].top, bottom |-> above[i].bottom]]
           spans == Unrepeated(tops)
           keys  == [i \in DOMAIN spans |-> <<-spans[i].top>>]
<1>1. LinesAbove(page, left, right, captionTop) = RankedBy(spans, keys)
  BY DEF LinesAbove
<1>2. IsList(above) /\ \A l \in ToSet(above) : Above(l, captionTop)
  <2>1. IsList(above) /\ ToSet(above) \subseteq W
    <3> HIDE DEF W
    <3> QED BY SiftList DEF IsPage
  <2>2. \A l \in W : Above(l, captionTop)
    BY DEF IsPage, Above
  <2> HIDE DEF above, W
  <2> QED BY <2>1, <2>2
<1> HIDE DEF above
<1>3. IsList(tops) /\ \A l \in ToSet(tops) : Above(l, captionTop)
  <2>1. tops = [i \in DOMAIN above |-> tops[i]]
    OBVIOUS
  <2>2. IsList(tops)
    <3> HIDE DEF tops
    <3> QED BY <1>2, <2>1, ListOver
  <2>3. ASSUME NEW i \in DOMAIN above PROVE Above(tops[i], captionTop)
    <3>1. Above(above[i], captionTop)
      BY <1>2, ListShape
    <3>2. tops[i].top = above[i].top /\ tops[i].bottom = above[i].bottom
      OBVIOUS
    <3> QED BY <3>1, <3>2 DEF Above
  <2>4. DOMAIN tops = DOMAIN above
    OBVIOUS
  <2> HIDE DEF tops
  <2> QED BY <2>2, <2>3, <2>4 DEF ToSet
<1> HIDE DEF tops
<1>4. IsList(spans) /\ ToSet(spans) = ToSet(tops)
  BY <1>3, UnrepeatedList
<1> HIDE DEF spans, keys
<1>5. IsList(RankedBy(spans, keys)) /\ ToSet(RankedBy(spans, keys)) = ToSet(tops)
  BY <1>4, RankedList
<1> QED
  BY <1>1, <1>3, <1>5

\* The column of a caption lies on the page.
LEMMA ColumnOnPage ==
  ASSUME NEW page, page.width \in Nat, NEW caption
  PROVE  LET column == CaptionColumn(page, caption)
         IN /\ column.x \in Int /\ column.width \in Int /\ column.x >= 0
            /\ column.x + column.width <= page.width
<1> DEFINE half == page.width \div 2
           gap  == page.width \div 50
<1>1. half \in Nat /\ gap \in Nat /\ 2 * half <= page.width
  OBVIOUS
<1>2. CaptionColumn(page, caption) =
        IF 100 * (caption.right - caption.left) >= 45 * page.width
        THEN [x |-> 0, width |-> page.width]
        ELSE [x |-> IF caption.left + caption.right < page.width THEN 0 ELSE half + gap,
              width |-> half - gap]
  BY DEF CaptionColumn
<1> HIDE DEF half, gap
<1>3. CASE 100 * (caption.right - caption.left) >= 45 * page.width
  BY <1>2, <1>3
<1>4. CASE ~(100 * (caption.right - caption.left) >= 45 * page.width)
  <2>1. CASE caption.left + caption.right < page.width
    <3>1. CaptionColumn(page, caption) = [x |-> 0, width |-> half - gap]
      BY <1>2, <1>4, <2>1
    <3> QED BY <1>1, <3>1
  <2>2. CASE ~(caption.left + caption.right < page.width)
    <3>1. CaptionColumn(page, caption) = [x |-> half + gap, width |-> half - gap]
      BY <1>2, <1>4, <2>2
    <3> QED BY <1>1, <3>1
  <2> QED BY <2>1, <2>2
<1> QED
  BY <1>3, <1>4

\* A crop that is one stands.
LEMMA CropIsBacked ==
  ASSUME NEW page, IsPage(page), page.text # "none", NEW number,
         CaptionCropBox(page, number) # NoBox
  PROVE  CropStands(page, CaptionCropBox(page, number), number)
<1> DEFINE box == CaptionCropBox(page, number)
           found   == CaptionLine(page, number)
           caption == found[1]
           column  == CaptionColumn(page, caption)
           padding == IF 15 * page.width >= 9000 THEN (15 * page.width) \div 1000 ELSE 8
           left    == column.x + padding
           width   == column.width - 2 * padding
           top     == CropTopFromTextGap(page,
                        LinesAbove(page, left, left + width, caption.top), caption.top)
           height  == caption.top - 8 - top
<1>1. box = CaptionCropBoxFromText(page, number) /\ CropTextIsPublishable(page, box, number)
  BY DEF CaptionCropBox, UnlessText
<1>2. found # <<>> /\ box = CropAbove(page, caption, left, width)
  BY <1>1 DEF CaptionCropBoxFromText
<1>3. top # -1 /\ box = [x |-> left, y |-> top, width |-> width, height |-> height]
  <2>1. box = CropBetween(page, caption, left, width, top)
    BY <1>2 DEF CropAbove
  <2> HIDE DEF top, left, width
  <2> QED BY <2>1 DEF CropBetween
<1>4. caption.top \in Nat
  <2> DEFINE W == {l \in ToSet(page.lines) : l.names = number}
  <2>1. IsList(found) /\ ToSet(found) = ToSet(page.lines) \cap W
    <3>1. found = Sift(page.lines, W)
      BY DEF CaptionLine
    <3> HIDE DEF W, found
    <3> QED BY <3>1, SiftList DEF IsPage
  <2>2. caption \in ToSet(found)
    <3> HIDE DEF found
    <3> QED BY <1>2, <2>1, FirstPlace, ListShape
  <2> HIDE DEF found
  <2> QED BY <2>1, <2>2 DEF IsPage
<1>5. top \in Nat
  <2> DEFINE lines == LinesAbove(page, left, left + width, caption.top)
  <2>1. IsList(lines) /\ \A l \in ToSet(lines) : Above(l, caption.top)
    BY LinesAboveListed
  <2> HIDE DEF lines
  <2>2. LET t == CropTopFromTextGap(page, lines, caption.top) IN t = -1 \/ t \in Nat
    <3>1. page.height \in Nat
      BY DEF IsPage
    <3> HIDE DEF caption
    <3> QED BY <1>4, <2>1, <3>1, TopOfCrop
  <2> QED BY <1>3, <2>2 DEF lines
<1>6. padding \in Nat
  BY DEF IsPage
<1>7. /\ column.x \in Int /\ column.width \in Int /\ column.x >= 0
      /\ column.x + column.width <= page.width /\ page.width \in Nat
  <2>1. page.width \in Nat
    BY DEF IsPage
  <2> HIDE DEF caption
  <2> QED BY <2>1, ColumnOnPage
<1> HIDE DEF column, padding, top, box, caption
<1>8. left >= 0 /\ left + width <= page.width /\ top >= 0 /\ top + height < caption.top
  BY <1>4, <1>5, <1>6, <1>7
<1> HIDE DEF left, width, height
<1>9. /\ box.x >= 0 /\ box.x + box.width <= page.width
      /\ box.y >= 0 /\ box.y + box.height < caption.top
  BY <1>3, <1>8
<1> QED
  BY <1>1, <1>9 DEF CropStands, caption, box

\* A figure as it is taken: bound to a publishable claim of the paper, shown
\* only as an image that can be, and cropped where it is.
FigureStands(f, cs) ==
  /\ f = [title |-> f.title, claim |-> f.claim, suffix |-> f.suffix,
          renderable |-> f.renderable, page |-> f.page, crop |-> f.crop,
          located |-> f.located, lang |-> f.lang]
  /\ \E c \in ToSet(cs), doc \in Documents :
       /\ IsPublishable(c) /\ ClaimMatchesSource(c, Paper.url, doc.arxiv)
       /\ f.claim = [id |-> c.id, section |-> c.section,
                     sources |-> {a.source : a \in c.evidence}]
  /\ IsPublicImage(f) => f.renderable
  /\ \A k \in ToSet(f.crop) : k.page.text = "boxes" => CropStands(k.page, k.box, f.title)

\* The figures of an entry: no more than a channel shows.
AreFigures(fs, cs) ==
  IsList(fs) /\ Len(fs) <= MaxFigures /\ \A f \in ToSet(fs) : FigureStands(f, cs)

LEMMA NoFigures ==
  ASSUME NEW cs PROVE AreFigures(<<>>, cs)
<1>1. Len(<<>>) = 0
  OBVIOUS
<1> QED
  BY <1>1, EmptyList DEF AreFigures, MaxFigures

LEMMA OneFigureMore ==
  ASSUME NEW cs, NEW fs, AreFigures(fs, cs), ~(Len(fs) >= MaxFigures),
         NEW f, FigureStands(f, cs)
  PROVE  AreFigures(Append(fs, f), cs)
<1>1. Len(fs) \in Nat /\ Len(Append(fs, f)) = Len(fs) + 1
  BY ListShape, AppendList DEF AreFigures
<1>2. IsList(Append(fs, f)) /\ ToSet(Append(fs, f)) = ToSet(fs) \cup {f}
  BY AppendList DEF AreFigures
<1> QED
  BY <1>1, <1>2 DEF AreFigures, MaxFigures

\* What the figure of a candidate and its claim is.
LEMMA FigureMade ==
  ASSUME NEW cs, IsList(cs), NEW doc \in Documents, NEW words,
         NEW claim, claim = BestMatchingClaim(words, cs, Paper.url, doc.arxiv), claim # <<>>,
         NEW c, NEW suffix, NEW renderable, NEW page, NEW crop,
         suffix \in RasterExtensions => renderable,
         \A k \in ToSet(crop) : k.page.text = "boxes" => CropStands(k.page, k.box, c.title)
  PROVE  FigureStands(Figure(c, claim[1], suffix, renderable, page, crop, doc), cs)
<1> DEFINE f == Figure(c, claim[1], suffix, renderable, page, crop, doc)
<1>1. /\ claim[1] \in ToSet(cs) /\ IsPublishable(claim[1])
      /\ ClaimMatchesSource(claim[1], Paper.url, doc.arxiv)
  BY BestIsPublishable
<1>2. /\ f.title = c.title /\ f.suffix = suffix /\ f.renderable = renderable /\ f.crop = crop
      /\ f.claim = [id |-> claim[1].id, section |-> claim[1].section,
                    sources |-> {a.source : a \in claim[1].evidence}]
  BY DEF Figure
<1>3. f = [title |-> f.title, claim |-> f.claim, suffix |-> f.suffix,
           renderable |-> f.renderable, page |-> f.page, crop |-> f.crop,
           located |-> f.located, lang |-> f.lang]
  BY DEF Figure
<1>4. IsPublicImage(f) => f.renderable
  <2> HIDE DEF f
  <2> QED BY <1>2 DEF IsPublicImage, RasterExtensions
<1> HIDE DEF f
<1>5. \A k \in ToSet(f.crop) : k.page.text = "boxes" => CropStands(k.page, k.box, f.title)
  BY <1>2
<1> QED
  BY <1>1, <1>2, <1>3, <1>4, <1>5 DEF FigureStands, f

NoneTaken == [figures |-> <<>>, failed |-> FALSE]

\* f[n] is what is taken of the first n candidates out of a PDF.
PdfTaken(f, doc, cs, url, ranked) ==
  /\ f[0] = NoneTaken
  /\ \A n \in 1 .. Len(ranked) :
       f[n] = CropNext(doc, f[n - 1], ranked[n],
                BestMatchingClaim(ranked[n].words, cs, url, doc.arxiv))

LEMMA PdfTakenUnfolds ==
  ASSUME NEW doc, NEW cs, NEW url, NEW ranked, ranked = Ranked(ParsePdfFigureCandidates(doc.pages)),
         Len(ranked) \in Nat
  PROVE  \E f : /\ PdfTaken(f, doc, cs, url, ranked)
                /\ ExtractPdfCroppedFigures(doc, cs, url)
                     = IF doc.pdf THEN f[Len(ranked)] ELSE NoneTaken
<1> DEFINE N == Len(ranked)
           Best(i) == BestMatchingClaim(ranked[i].words, cs, url, doc.arxiv)
           Def(n, f) == [i \in 0 .. n |->
             IF i = 0 THEN NoneTaken ELSE CropNext(doc, f[i - 1], ranked[i], Best(i))]
           k == CHOOSE k : k = Def(N, k)
           S == {n \in Nat : \E f : f = Def(n, f)}
<1>1. 0 \in S
  <2> DEFINE f == [i \in 0 .. 0 |-> NoneTaken]
  <2>1. f = Def(0, f)
    OBVIOUS
  <2> QED BY <2>1
<1>2. ASSUME NEW n \in Nat, n \in S PROVE n + 1 \in S
  <2>1. PICK f : f = Def(n, f)
    BY <1>2
  <2> DEFINE last == CropNext(doc, f[n], ranked[n + 1], Best(n + 1))
             h == [i \in 0 .. n + 1 |-> IF i = n + 1 THEN last ELSE f[i]]
  <2>2. h[n + 1] = last /\ \A i \in 0 .. n : h[i] = f[i]
    <3> HIDE DEF last
    <3> QED OBVIOUS
  <2>3. ASSUME NEW i \in 0 .. n + 1
        PROVE  h[i] = IF i = 0 THEN NoneTaken ELSE CropNext(doc, h[i - 1], ranked[i], Best(i))
    <3>1. CASE i = n + 1
      <4>1. i - 1 = n /\ n \in 0 .. n /\ i # 0
        BY <3>1
      <4> HIDE DEF h
      <4> QED BY <2>2, <3>1, <4>1
    <3>2. CASE i \in 0 .. n
      <4>1. f[i] = IF i = 0 THEN NoneTaken ELSE CropNext(doc, f[i - 1], ranked[i], Best(i))
        BY <2>1, <3>2
      <4>2. i = 0 \/ i - 1 \in 0 .. n
        BY <3>2
      <4> HIDE DEF h
      <4> QED BY <2>2, <3>2, <4>1, <4>2
    <3> QED BY <3>1, <3>2
  <2>4. h = Def(n + 1, h)
    BY <2>3
  <2> HIDE DEF h, Def
  <2> QED BY <2>4
<1>3. \E f : f = Def(N, f)
  <2> HIDE DEF Def, N
  <2>1. \A n \in Nat : n \in S
    <3> HIDE DEF S
    <3> QED BY <1>1, <1>2, InductionOverNat
  <2>2. N \in Nat
    BY DEF N
  <2> QED BY <2>1, <2>2
<1>4. k = Def(N, k)
  <2> HIDE DEF Def
  <2> QED BY <1>3
<1>5. ExtractPdfCroppedFigures(doc, cs, url) = IF doc.pdf THEN k[N] ELSE NoneTaken
  BY DEF ExtractPdfCroppedFigures, NoneTaken
<1>6. PdfTaken(k, doc, cs, url, ranked)
  <2> HIDE DEF k
  <2>1. k[0] = NoneTaken
    BY <1>4, 0 \in 0 .. N
  <2>2. ASSUME NEW n \in 1 .. N PROVE k[n] = CropNext(doc, k[n - 1], ranked[n], Best(n))
    <3>1. n \in 0 .. N /\ n # 0
      OBVIOUS
    <3> QED BY <1>4, <3>1
  <2> QED BY <2>1, <2>2 DEF PdfTaken
<1> HIDE DEF k
<1> QED
  BY <1>5, <1>6

\* The same out of LaTeX sources.
LatexTaken(f, doc, cs, url, ranked) ==
  /\ f[0] = <<>>
  /\ \A n \in 1 .. Len(ranked) :
       f[n] = IllustrateNext(doc, f[n - 1], ranked[n],
                BestMatchingClaim(ranked[n].words, cs, url, doc.arxiv))

LEMMA LatexTakenUnfolds ==
  ASSUME NEW doc, NEW cs, NEW url, NEW ranked, ranked = Ranked(ParseFigureCandidates(doc.blocks)),
         Len(ranked) \in Nat
  PROVE  \E f : /\ LatexTaken(f, doc, cs, url, ranked)
                /\ ExtractLatexFigures(doc, cs, url) = f[Len(ranked)]
<1> DEFINE N == Len(ranked)
           Best(i) == BestMatchingClaim(ranked[i].words, cs, url, doc.arxiv)
           Def(n, f) == [i \in 0 .. n |->
             IF i = 0 THEN <<>> ELSE IllustrateNext(doc, f[i - 1], ranked[i], Best(i))]
           k == CHOOSE k : k = Def(N, k)
           S == {n \in Nat : \E f : f = Def(n, f)}
<1>1. 0 \in S
  <2> DEFINE f == [i \in 0 .. 0 |-> <<>>]
  <2>1. f = Def(0, f)
    OBVIOUS
  <2> QED BY <2>1
<1>2. ASSUME NEW n \in Nat, n \in S PROVE n + 1 \in S
  <2>1. PICK f : f = Def(n, f)
    BY <1>2
  <2> DEFINE last == IllustrateNext(doc, f[n], ranked[n + 1], Best(n + 1))
             h == [i \in 0 .. n + 1 |-> IF i = n + 1 THEN last ELSE f[i]]
  <2>2. h[n + 1] = last /\ \A i \in 0 .. n : h[i] = f[i]
    <3> HIDE DEF last
    <3> QED OBVIOUS
  <2>3. ASSUME NEW i \in 0 .. n + 1
        PROVE  h[i] = IF i = 0 THEN <<>> ELSE IllustrateNext(doc, h[i - 1], ranked[i], Best(i))
    <3>1. CASE i = n + 1
      <4>1. i - 1 = n /\ n \in 0 .. n /\ i # 0
        BY <3>1
      <4> HIDE DEF h
      <4> QED BY <2>2, <3>1, <4>1
    <3>2. CASE i \in 0 .. n
      <4>1. f[i] = IF i = 0 THEN <<>> ELSE IllustrateNext(doc, f[i - 1], ranked[i], Best(i))
        BY <2>1, <3>2
      <4>2. i = 0 \/ i - 1 \in 0 .. n
        BY <3>2
      <4> HIDE DEF h
      <4> QED BY <2>2, <3>2, <4>1, <4>2
    <3> QED BY <3>1, <3>2
  <2>4. h = Def(n + 1, h)
    BY <2>3
  <2> HIDE DEF h, Def
  <2> QED BY <2>4
<1>3. \E f : f = Def(N, f)
  <2> HIDE DEF Def, N
  <2>1. \A n \in Nat : n \in S
    <3> HIDE DEF S
    <3> QED BY <1>1, <1>2, InductionOverNat
  <2>2. N \in Nat
    BY DEF N
  <2> QED BY <2>1, <2>2
<1>4. k = Def(N, k)
  <2> HIDE DEF Def
  <2> QED BY <1>3
<1>5. ExtractLatexFigures(doc, cs, url) = k[N]
  BY DEF ExtractLatexFigures
<1>6. LatexTaken(k, doc, cs, url, ranked)
  <2> HIDE DEF k
  <2>1. k[0] = <<>>
    BY <1>4, 0 \in 0 .. N
  <2>2. ASSUME NEW n \in 1 .. N PROVE k[n] = IllustrateNext(doc, k[n - 1], ranked[n], Best(n))
    <3>1. n \in 0 .. N /\ n # 0
      OBVIOUS
    <3> QED BY <1>4, <3>1
  <2> QED BY <2>1, <2>2 DEF LatexTaken
<1> HIDE DEF k
<1> QED
  BY <1>5, <1>6

\* The candidates, best first, are a list; those of a PDF are on its pages.
LEMMA PdfCandidates ==
  ASSUME NEW doc, IsDocument(doc)
  PROVE  LET ranked == Ranked(ParsePdfFigureCandidates(doc.pages))
         IN IsList(ranked) /\ \A c \in ToSet(ranked) : c.page \in DOMAIN doc.pages
<1> DEFINE pages == doc.pages
           Text(p) == pages[p].body
           Starts(p) == Sift([i \in DOMAIN Text(p) |-> i],
                             {i \in DOMAIN Text(p) : Text(p)[i].kind = "caption"})
           Part(p) == [k \in DOMAIN Starts(p) |->
             [title |-> Text(p)[Starts(p)[k]].number, page |-> p,
              words |-> PdfCaptionFromLines(Text(p), Starts(p)[k])]]
           parts == [p \in DOMAIN pages |-> Part(p)]
           cands == FlattenSeq(parts)
           keys  == [i \in DOMAIN cands |-> <<FigureScore(cands[i].words)>>]
<1>1. Ranked(ParsePdfFigureCandidates(pages)) = RankedBy(cands, keys)
  BY DEF Ranked, ParsePdfFigureCandidates
<1>2. IsList(pages)
  BY DEF IsDocument
<1>3. ASSUME NEW p \in DOMAIN pages
      PROVE  IsList(Part(p)) /\ \A c \in ToSet(Part(p)) : c.page = p
  <2>1. IsList(Text(p))
    <3>1. pages[p] \in ToSet(pages)
      BY <1>2, ListShape
    <3> QED BY <3>1 DEF IsDocument, IsPage
  <2>2. IsList(Starts(p))
    <3> HIDE DEF Text
    <3> QED BY <2>1, Numbered
  <2> HIDE DEF Starts, Text
  <2>3. Part(p) = [k \in DOMAIN Starts(p) |-> Part(p)[k]]
    OBVIOUS
  <2>4. DOMAIN Part(p) = DOMAIN Starts(p) /\ \A k \in DOMAIN Starts(p) : Part(p)[k].page = p
    OBVIOUS
  <2> HIDE DEF Part
  <2>5. IsList(Part(p))
    BY <2>2, <2>3, ListOver
  <2> QED BY <2>4, <2>5 DEF ToSet
<1> HIDE DEF Part
<1>4. IsList(parts) /\ \A s \in ToSet(parts) : \E p \in DOMAIN pages : s = Part(p)
  <2>1. parts = [p \in DOMAIN pages |-> parts[p]]
    OBVIOUS
  <2>2. DOMAIN parts = DOMAIN pages /\ \A p \in DOMAIN pages : parts[p] = Part(p)
    OBVIOUS
  <2> HIDE DEF parts, pages
  <2>3. IsList(parts)
    BY <1>2, <2>1, ListOver
  <2> QED BY <2>2, <2>3 DEF ToSet
<1> HIDE DEF parts
<1>5. IsList(cands) /\ \A c \in ToSet(cands) : \E s \in ToSet(parts) : c \in ToSet(s)
  <2>1. \A s \in ToSet(parts) : IsList(s)
    BY <1>3, <1>4
  <2> QED BY <1>4, <2>1, FlattenList
<1> HIDE DEF cands, keys
<1>6. IsList(RankedBy(cands, keys)) /\ ToSet(RankedBy(cands, keys)) = ToSet(cands)
  BY <1>5, RankedList
<1>7. \A c \in ToSet(cands) : c.page \in DOMAIN pages
  BY <1>3, <1>4, <1>5
<1> QED
  BY <1>1, <1>6, <1>7

LEMMA LatexCandidates ==
  ASSUME NEW doc, IsDocument(doc)
  PROVE  IsList(Ranked(ParseFigureCandidates(doc.blocks)))
<1> DEFINE blocks == doc.blocks
           Images(b) == Sift(blocks[b].images,
                             {i \in ToSet(blocks[b].images) : ResolveImagePath(i) # ""})
           Part(b) == [k \in DOMAIN Images(b) |->
             [title |-> blocks[b].title, words |-> blocks[b].words,
              suffix |-> ResolveImagePath(Images(b)[k])]]
           parts == [b \in DOMAIN blocks |-> Part(b)]
           cands == FlattenSeq(parts)
           keys  == [i \in DOMAIN cands |-> <<FigureScore(cands[i].words)>>]
<1>1. Ranked(ParseFigureCandidates(blocks)) = RankedBy(cands, keys)
  BY DEF Ranked, ParseFigureCandidates
<1>2. IsList(blocks)
  BY DEF IsDocument
<1>3. ASSUME NEW b \in DOMAIN blocks PROVE IsList(Part(b))
  <2>1. IsList(blocks[b].images)
    <3>1. blocks[b] \in ToSet(blocks)
      BY <1>2, ListShape
    <3> QED BY <3>1 DEF IsDocument
  <2>2. IsList(Images(b))
    <3> DEFINE images == blocks[b].images
               W == {i \in ToSet(images) : ResolveImagePath(i) # ""}
    <3>1. IsList(Sift(images, W))
      <4> HIDE DEF W, images
      <4> QED BY <2>1, SiftList DEF images
    <3> QED BY <3>1
  <2> HIDE DEF Images
  <2>3. Part(b) = [k \in DOMAIN Images(b) |-> Part(b)[k]]
    OBVIOUS
  <2> HIDE DEF Part
  <2> QED BY <2>2, <2>3, ListOver
<1> HIDE DEF Part
<1>4. IsList(parts) /\ \A s \in ToSet(parts) : \E b \in DOMAIN blocks : s = Part(b)
  <2>1. parts = [b \in DOMAIN blocks |-> parts[b]]
    OBVIOUS
  <2>2. DOMAIN parts = DOMAIN blocks /\ \A b \in DOMAIN blocks : parts[b] = Part(b)
    OBVIOUS
  <2> HIDE DEF parts, blocks
  <2>3. IsList(parts)
    BY <1>2, <2>1, ListOver
  <2> QED BY <2>2, <2>3 DEF ToSet
<1> HIDE DEF parts
<1>5. IsList(cands)
  <2>1. \A s \in ToSet(parts) : IsList(s)
    BY <1>3, <1>4
  <2> QED BY <1>4, <2>1, FlattenList
<1> HIDE DEF cands, keys
<1> QED
  BY <1>1, <1>5, RankedList

\* A crop that is taken makes a figure that stands.
LEMMA CroppedStands ==
  ASSUME NEW cs, IsList(cs), NEW doc \in Documents, IsDocument(doc), NEW state,
         state = [figures |-> state.figures, failed |-> state.failed],
         AreFigures(state.figures, cs),
         NEW c, c.page \in DOMAIN doc.pages
  PROVE  LET next == CropNext(doc, state, c, BestMatchingClaim(c.words, cs, Paper.url, doc.arxiv))
         IN /\ next = [figures |-> next.figures, failed |-> next.failed]
            /\ AreFigures(next.figures, cs)
<1> DEFINE claim == BestMatchingClaim(c.words, cs, Paper.url, doc.arxiv)
           page  == doc.pages[c.page]
           box   == CaptionCropBox(page, c.title)
           f     == Figure(c, claim[1], "png", TRUE, c.page, <<[box |-> box, page |-> page]>>, doc)
           next  == CropNext(doc, state, c, claim)
           fails == [state EXCEPT !.failed = TRUE]
           takes == [state EXCEPT !.figures = Append(@, f)]
<1>1. \/ next = state \/ next = fails
      \/ claim # <<>> /\ ~(Len(state.figures) >= MaxFigures) /\ box # NoBox /\ next = takes
  <2> HIDE DEF claim, box, page
  <2>1. next = IF \/ state.failed \/ claim = <<>> \/ Len(state.figures) >= MaxFigures
                  \/ c.page \in {state.figures[k].page : k \in DOMAIN state.figures}
               THEN state ELSE Cropped(doc, state, c, claim[1], page, box)
    BY DEF CropNext, page, box
  <2>2. \/ Cropped(doc, state, c, claim[1], page, box) = state
        \/ Cropped(doc, state, c, claim[1], page, box) = fails
        \/ box # NoBox /\ Cropped(doc, state, c, claim[1], page, box) = takes
    BY DEF Cropped
  <2> HIDE DEF next, takes, fails
  <2> QED BY <2>1, <2>2
<1>2. /\ fails = [figures |-> state.figures, failed |-> TRUE]
      /\ takes = [figures |-> Append(state.figures, f), failed |-> state.failed]
  <2> DEFINE a == state.figures
             b == state.failed
  <2>1. state = [figures |-> a, failed |-> b]
    OBVIOUS
  <2>2. ASSUME NEW s, NEW x, NEW y, NEW z, s = [figures |-> x, failed |-> y]
        PROVE  /\ [s EXCEPT !.failed = TRUE] = [figures |-> x, failed |-> TRUE]
               /\ [s EXCEPT !.figures = Append(@, z)] = [figures |-> Append(x, z), failed |-> y]
    <3>1. \A w : [s EXCEPT !.failed = w] = [figures |-> x, failed |-> w]
      BY <2>2
    <3>2. s.figures = x
      BY <2>2
    <3>3. \A w : [s EXCEPT !.figures = w] = [figures |-> w, failed |-> y]
      BY <2>2
    <3> QED BY <3>1, <3>2, <3>3
  <2> HIDE DEF f, a, b
  <2> QED BY <2>1, <2>2 DEF a, b
<1>3. ASSUME claim # <<>>, box # NoBox PROVE FigureStands(f, cs)
  <2>1. IsPage(page)
    <3>1. page \in ToSet(doc.pages)
      BY ListShape DEF IsDocument
    <3> QED BY <3>1 DEF IsDocument
  <2> DEFINE crop == <<[box |-> box, page |-> page]>>
  <2>2. \A k \in ToSet(crop) : k.page.text = "boxes" => CropStands(k.page, k.box, c.title)
    <3> HIDE DEF box, page
    <3>1. ToSet(crop) = {[box |-> box, page |-> page]}
      BY Single
    <3>2. page.text = "boxes" => CropStands(page, box, c.title)
      BY <1>3, <2>1, CropIsBacked DEF box
    <3> HIDE DEF crop
    <3> QED BY <3>1, <3>2
  <2> HIDE DEF crop, claim
  <2> QED BY <1>3, <2>2, FigureMade DEF claim, crop
<1>4. claim # <<>> /\ ~(Len(state.figures) >= MaxFigures) /\ box # NoBox
        => AreFigures(Append(state.figures, f), cs)
  <2> HIDE DEF f, box, claim
  <2> QED BY <1>3, OneFigureMore
<1> HIDE DEF f, box, claim, next, fails, takes
<1>5. /\ next = [figures |-> next.figures, failed |-> next.failed]
      /\ AreFigures(next.figures, cs)
  <2>1. CASE next = state
    BY <2>1
  <2>2. CASE next = fails
    BY <1>2, <2>2
  <2>3. CASE /\ claim # <<>> /\ ~(Len(state.figures) >= MaxFigures) /\ box # NoBox
             /\ next = takes
    BY <1>2, <1>4, <2>3
  <2> QED BY <1>1, <2>1, <2>2, <2>3
<1> QED
  BY <1>5 DEF next, claim

\* So does one that is taken out of LaTeX sources.
LEMMA IllustratedStands ==
  ASSUME NEW cs, IsList(cs), NEW doc \in Documents, NEW figs, AreFigures(figs, cs), NEW c
  PROVE  AreFigures(IllustrateNext(doc, figs, c,
                      BestMatchingClaim(c.words, cs, Paper.url, doc.arxiv)), cs)
<1> DEFINE claim == BestMatchingClaim(c.words, cs, Paper.url, doc.arxiv)
           asset == CopyOrConvertAsset(c.suffix, doc.tools)
           f     == Figure(c, claim[1], asset.suffix, asset.renderable, 0, <<>>, doc)
<1>1. \/ IllustrateNext(doc, figs, c, claim) = figs
      \/ /\ claim # <<>> /\ ~(Len(figs) >= MaxFigures)
         /\ IllustrateNext(doc, figs, c, claim) = Append(figs, f)
  <2> HIDE DEF claim
  <2> QED BY DEF IllustrateNext
<1>2. asset.suffix \in RasterExtensions => asset.renderable
  BY DEF CopyOrConvertAsset
<1>3. ASSUME claim # <<>> PROVE FigureStands(f, cs)
  <2>1. \A k \in ToSet(<<>>) : k.page.text = "boxes" => CropStands(k.page, k.box, c.title)
    BY EmptyList
  <2> HIDE DEF asset, claim
  <2> QED BY <1>2, <1>3, <2>1, FigureMade DEF claim
<1> HIDE DEF f
<1>4. claim # <<>> /\ ~(Len(figs) >= MaxFigures) => AreFigures(Append(figs, f), cs)
  BY <1>3, OneFigureMore
<1> HIDE DEF claim
<1> QED
  BY <1>1, <1>4 DEF claim

\* Whatever is taken from a paper are figures that stand.
LEMMA ExtractedStand ==
  ASSUME NEW cs, IsList(cs), NEW doc \in Documents
  PROVE  AreFigures(ExtractDeepReadFigures(doc, cs, Paper.url), cs)
<1>1. IsDocument(doc)
  BY DocumentsAssumption
<1>2. AreFigures(ExtractLatexFigures(doc, cs, Paper.url), cs)
  <2> DEFINE ranked == Ranked(ParseFigureCandidates(doc.blocks))
  <2>1. Len(ranked) \in Nat
    <3>1. IsList(ranked)
      BY <1>1, LatexCandidates
    <3> HIDE DEF ranked
    <3> QED BY <3>1, ListShape
  <2>2. PICK f : /\ LatexTaken(f, doc, cs, Paper.url, ranked)
                 /\ ExtractLatexFigures(doc, cs, Paper.url) = f[Len(ranked)]
    <3>1. ranked = Ranked(ParseFigureCandidates(doc.blocks))
      OBVIOUS
    <3> HIDE DEF ranked
    <3> QED BY <2>1, <3>1, LatexTakenUnfolds
  <2> HIDE DEF ranked
  <2> DEFINE S == {n \in Nat : n <= Len(ranked) => AreFigures(f[n], cs)}
  <2>3. 0 \in S
    BY <2>2, NoFigures DEF LatexTaken
  <2>4. ASSUME NEW n \in Nat, n \in S PROVE n + 1 \in S
    <3>1. SUFFICES ASSUME n + 1 <= Len(ranked) PROVE AreFigures(f[n + 1], cs)
      OBVIOUS
    <3>2. AreFigures(f[n], cs) /\ n + 1 \in 1 .. Len(ranked) /\ (n + 1) - 1 = n
      BY <2>1, <2>4, <3>1
    <3>3. f[n + 1] = IllustrateNext(doc, f[n], ranked[n + 1],
                       BestMatchingClaim(ranked[n + 1].words, cs, Paper.url, doc.arxiv))
      BY <2>2, <3>2 DEF LatexTaken
    <3> QED BY <3>2, <3>3, IllustratedStands
  <2>5. \A n \in Nat : n \in S
    <3> HIDE DEF S
    <3> QED BY <2>3, <2>4, InductionOverNat
  <2> QED BY <2>1, <2>2, <2>5
<1>3. AreFigures(ExtractPdfCroppedFigures(doc, cs, Paper.url).figures, cs)
  <2> DEFINE ranked == Ranked(ParsePdfFigureCandidates(doc.pages))
  <2>1. /\ Len(ranked) \in Nat
        /\ \A n \in 1 .. Len(ranked) : ranked[n].page \in DOMAIN doc.pages
    <3>1. IsList(ranked) /\ \A c \in ToSet(ranked) : c.page \in DOMAIN doc.pages
      BY <1>1, PdfCandidates
    <3> HIDE DEF ranked
    <3> QED BY <3>1, ListShape
  <2>2. PICK f : /\ PdfTaken(f, doc, cs, Paper.url, ranked)
                 /\ ExtractPdfCroppedFigures(doc, cs, Paper.url)
                      = IF doc.pdf THEN f[Len(ranked)] ELSE NoneTaken
    <3>1. ranked = Ranked(ParsePdfFigureCandidates(doc.pages))
      OBVIOUS
    <3> HIDE DEF ranked
    <3> QED BY <2>1, <3>1, PdfTakenUnfolds
  <2> HIDE DEF ranked
  <2> DEFINE Good(state) == /\ state = [figures |-> state.figures, failed |-> state.failed]
                            /\ AreFigures(state.figures, cs)
             S == {n \in Nat : n <= Len(ranked) => Good(f[n])}
  <2>3. Good(NoneTaken)
    BY NoFigures DEF NoneTaken
  <2>4. 0 \in S
    <3> HIDE DEF Good
    <3> QED BY <2>2, <2>3 DEF PdfTaken
  <2>5. ASSUME NEW n \in Nat, n \in S PROVE n + 1 \in S
    <3>1. SUFFICES ASSUME n + 1 <= Len(ranked) PROVE Good(f[n + 1])
      OBVIOUS
    <3>2. Good(f[n]) /\ n + 1 \in 1 .. Len(ranked) /\ (n + 1) - 1 = n
      BY <2>1, <2>5, <3>1
    <3>3. f[n + 1] = CropNext(doc, f[n], ranked[n + 1],
                       BestMatchingClaim(ranked[n + 1].words, cs, Paper.url, doc.arxiv))
      BY <2>2, <3>2 DEF PdfTaken
    <3>4. ranked[n + 1].page \in DOMAIN doc.pages
      BY <2>1, <3>2
    <3> QED BY <1>1, <3>2, <3>3, <3>4, CroppedStands
  <2>6. \A n \in Nat : n \in S
    <3> HIDE DEF S
    <3> QED BY <2>4, <2>5, InductionOverNat
  <2> HIDE DEF Good
  <2>7. Good(ExtractPdfCroppedFigures(doc, cs, Paper.url))
    BY <2>1, <2>2, <2>3, <2>6
  <2> QED BY <2>7 DEF Good
<1> QED
  BY <1>2, <1>3, NoFigures DEF ExtractDeepReadFigures, ExtractPaperFigures

\* Nothing is taken before the review, and what is taken and displayed stands.
FiguresTaken ==
  /\ stage \in {"requested", "ingested", "packed", "reading", "validated", "read", "reviewed"}
       => figures = <<>>
  /\ stage \in {"illustrated"} \cup Composed => AreFigures(figures, claims)
  /\ stage \in Composed => AreFigures(copy.figures, claims)

\* A translation leaves them standing.
LEMMA LocalizedStand ==
  ASSUME NEW cs, NEW fs, AreFigures(fs, cs), NEW titles
  PROVE  AreFigures(LocalizedFigures(fs, titles), cs)
<1> DEFINE gs == LocalizedFigures(fs, titles)
<1>1. IsList(fs) /\ Len(fs) <= MaxFigures /\ \A i \in DOMAIN fs : FigureStands(fs[i], cs)
  BY ListShape DEF AreFigures
<1>2. ASSUME NEW f, FigureStands(f, cs)
      PROVE  FigureStands([f EXCEPT !.lang = "zh"], cs)
  <2> DEFINE g == [f EXCEPT !.lang = "zh"]
  <2>1. g = [title |-> f.title, claim |-> f.claim, suffix |-> f.suffix,
             renderable |-> f.renderable, page |-> f.page, crop |-> f.crop,
             located |-> f.located, lang |-> "zh"]
    <3>1. ASSUME NEW h, NEW t, NEW c, NEW s, NEW r, NEW p, NEW k, NEW l, NEW e,
                 h = [title |-> t, claim |-> c, suffix |-> s, renderable |-> r, page |-> p,
                      crop |-> k, located |-> l, lang |-> e]
          PROVE  \A z : [h EXCEPT !.lang = z]
                          = [title |-> t, claim |-> c, suffix |-> s, renderable |-> r,
                             page |-> p, crop |-> k, located |-> l, lang |-> z]
      BY <3>1
    <3>2. f = [title |-> f.title, claim |-> f.claim, suffix |-> f.suffix,
               renderable |-> f.renderable, page |-> f.page, crop |-> f.crop,
               located |-> f.located, lang |-> f.lang]
      BY <1>2 DEF FigureStands
    <3> QED BY <3>1, <3>2
  <2> HIDE DEF g
  <2>2. /\ g.title = f.title /\ g.claim = f.claim /\ g.suffix = f.suffix /\ g.crop = f.crop
        /\ g.renderable = f.renderable /\ g.page = f.page /\ g.located = f.located
        /\ g.lang = "zh"
    BY <2>1
  <2>3. IsPublicImage(g) => g.renderable
    BY <1>2, <2>2 DEF FigureStands, IsPublicImage
  <2> QED BY <1>2, <2>1, <2>2, <2>3 DEF FigureStands, g
<1>3. DOMAIN gs = DOMAIN fs /\ gs = [i \in DOMAIN fs |-> gs[i]]
  BY DEF LocalizedFigures
<1>4. ASSUME NEW i \in DOMAIN fs PROVE FigureStands(gs[i], cs)
  <2>1. gs[i] = fs[i] \/ gs[i] = [fs[i] EXCEPT !.lang = "zh"]
    BY DEF LocalizedFigures
  <2> HIDE DEF gs
  <2> QED BY <1>1, <1>2, <2>1
<1> HIDE DEF gs
<1>5. IsList(gs) /\ Len(gs) = Len(fs)
  <2>1. Len(fs) \in Nat /\ gs = [i \in 1 .. Len(fs) |-> gs[i]]
    BY <1>1, <1>3, ListShape
  <2> QED BY <2>1, ListOf
<1>6. \A f \in ToSet(gs) : FigureStands(f, cs)
  BY <1>3, <1>4 DEF ToSet
<1> QED
  BY <1>1, <1>5, <1>6 DEF AreFigures, gs

\* The figures stand, step by step.
LEMMA FiguresInitially ==
  ASSUME Init
  PROVE  FiguresTaken
  BY DEF Init, ReadingInit, FiguresTaken, Composed

\* The stages before anything is taken.
Untaken == {"requested", "ingested", "packed", "reading", "validated", "read", "reviewed"}

LEMMA NotTakenYet ==
  ASSUME FiguresTaken, figures' = figures,
         stage \in Untaken, stage' \in Untaken \cup {"failed", "refused"}
  PROVE  FiguresTaken'
  BY DEF FiguresTaken, Untaken, Composed

LEMMA TakenStep ==
  ASSUME IInv, FiguresTaken, NEW doc \in Documents, ExtractFigures(doc)
  PROVE  FiguresTaken'
<1>1. CASE ExtractionRaises(doc)
  <2>1. stage = "reviewed" /\ stage' = "failed" /\ figures' = figures
    BY <1>1 DEF ExtractFigures
  <2> QED BY <2>1, NotTakenYet DEF Untaken
<1>2. CASE ~ExtractionRaises(doc)
  <2>1. /\ stage = "reviewed" /\ stage' = "illustrated" /\ claims' = claims
        /\ figures' = ExtractDeepReadFigures(doc, claims, Paper.url)
    BY <1>2 DEF ExtractFigures
  <2>2. IsList(claims)
    BY <2>1 DEF IInv, ClaimsEarned, Claimed, Joined, AreClaims
  <2>3. AreFigures(figures', claims')
    BY <2>1, <2>2, ExtractedStand
  <2> QED BY <2>1, <2>3 DEF FiguresTaken, Composed
<1> QED
  BY <1>1, <1>2

LEMMA ShownStep ==
  ASSUME FiguresTaken,
         NotLocalized \/ \E reading, display : LocalizerAnswers(reading, display)
  PROVE  FiguresTaken'
<1> DEFINE Shown == \/ stage' = "failed"
                    \/ /\ stage' = "displayed"
                       /\ \/ copy'.figures = figures
                          \/ \E titles : copy'.figures = LocalizedFigures(figures, titles)
<1>1. /\ stage \in {"reviewed", "illustrated"} /\ figures' = figures /\ claims' = claims
      /\ Shown
  <2>1. CASE NotLocalized
    BY <2>1 DEF NotLocalized, ReadyToDisplay
  <2>2. ASSUME NEW reading, NEW display, LocalizerAnswers(reading, display)
        PROVE  /\ stage \in {"reviewed", "illustrated"} /\ figures' = figures
               /\ claims' = claims /\ Shown
    <3> DEFINE localized == LocalizeReportContent(answer.explanation, claims, figures, reading, display)
    <3>1. \/ localized.figures = figures
          \/ localized.figures = LocalizedFigures(figures, display.figures)
      BY DEF LocalizeReportContent
    <3>2. /\ stage \in {"reviewed", "illustrated"} /\ figures' = figures /\ claims' = claims
          /\ \/ stage' = "failed"
             \/ stage' = "displayed" /\ copy'.figures = localized.figures
      <4> HIDE DEF localized
      <4> QED BY <2>2 DEF LocalizerAnswers, ReadyToDisplay, localized
    <3> HIDE DEF localized
    <3> QED BY <3>1, <3>2
  <2> QED BY <2>1, <2>2
<1>2. CASE stage' = "failed"
  BY <1>1, <1>2 DEF FiguresTaken, Composed
<1>3. CASE stage' = "displayed"
  <2>1. AreFigures(figures, claims)
    BY <1>1, NoFigures DEF FiguresTaken
  <2>2. AreFigures(copy'.figures, claims)
    BY <1>1, <1>3, <2>1, LocalizedStand
  <2> QED BY <1>1, <1>3, <2>1, <2>2 DEF FiguresTaken, Composed
<1> QED
  BY <1>1, <1>2, <1>3

LEMMA FiguresPreserved ==
  ASSUME IInv, FiguresTaken, [Next]_vars
  PROVE  FiguresTaken'
<1>1. CASE UNCHANGED vars
  BY <1>1 DEF vars, FiguresTaken, AreFigures, FigureStands, Composed
<1>2. ASSUME NEW address, NEW answers, NEW parses, StartPaper(address, answers, parses)
      PROVE  FiguresTaken'
  <2>1. stage = "requested" /\ stage' \in {"ingested", "failed"} /\ figures' = figures
    BY <1>2 DEF StartPaper
  <2> QED BY <2>1, NotTakenYet DEF Untaken
<1>3. ASSUME NEW a, ReaderAnswers(a) PROVE FiguresTaken'
  <2>1. stage = "reading" /\ stage' \in {"failed", "reading", "validated"} /\ figures' = figures
    BY <1>3 DEF ReaderAnswers
  <2> QED BY <2>1, NotTakenYet DEF Untaken
<1>4. ASSUME \/ \E address, localizer : RefusePaper(address, localizer)
             \/ BuildPacket \/ AskReader \/ ReaderUnavailable \/ AnchorsHold
             \/ \E repairs : RepairAnswers(repairs)
             \/ RepairUnavailable \/ NoReview
             \/ \E review : VerifierAnswers(review) \/ PaperReviewed(review)
             \/ VerifierUnavailable
      PROVE  FiguresTaken'
  <2>1. /\ stage \in Untaken /\ figures' = figures
        /\ stage' \in {"refused", "packed", "reading", "failed", "read", "reviewed"}
    BY <1>4 DEF Untaken, RefusePaper, BuildPacket, AskReader, ReaderUnavailable, AnchorsHold,
       RepairAnswers, RepairUnavailable, NoReview, VerifierAnswers, PaperReviewed,
       VerifierUnavailable
  <2> QED BY <2>1, NotTakenYet DEF Untaken
<1>5. ASSUME Compose \/ \E n : ComposePaper(n) PROVE FiguresTaken'
  <2>1. /\ stage = "displayed" /\ stage' \in {"published", "broken"}
        /\ figures' = figures /\ claims' = claims /\ copy' = copy
    BY <1>5 DEF Compose, ComposePaper
  <2> QED BY <2>1 DEF FiguresTaken, Composed
<1> QED
  BY <1>1, <1>2, <1>3, <1>4, <1>5, TakenStep, ShownStep DEF Next

\* A figure of the entry is bound to a claim of the entry.
LEMMA IsFigureBacked ==
  ASSUME IInv, FiguresTaken
  PROVE  FigureBacked
<1>1. SUFFICES ASSUME NEW f \in ToSet(entry.figures)
      PROVE  /\ f.claim.sources = {Paper.url}
             /\ \E c \in ToSet(entry.claims) :
                  c.id = f.claim.id /\ c.section = f.claim.section
                  /\ {a.source : a \in c.evidence} = f.claim.sources
             /\ \A k \in ToSet(f.crop) :
                  k.page.text = "boxes" => CropStands(k.page, k.box, f.title)
  BY DEF FigureBacked, CropStands
<1>2. entry.figures # <<>>
  BY EmptyList
<1>3. stage = "published" /\ entry = DeepReadEntry
  BY <1>2 DEF IInv, EntryOrigin, NoEntry, PaperBrief
<1> DEFINE verified == PublishableClaims(copy.claims)
           W == {c \in ToSet(verified) : \E a \in c.evidence :
                   a.source = Paper.url \/ a.title \in {Paper.title, answer.title}}
           own == Sift(verified, W)
<1>4. entry.claims = own /\ entry.figures = copy.figures
  <2>1. entry.claims = own /\ entry.figures \in {<<>>, copy.figures}
    BY <1>3 DEF DeepReadEntry, ClaimsForReading
  <2> QED BY <1>2, <2>1
<1>5. AreClaims(claims) /\ AreClaims(copy.claims) /\ DOMAIN copy.claims = DOMAIN claims
      /\ \A i \in DOMAIN claims : /\ SameStanding(copy.claims[i], claims[i])
                                  /\ Stands(answer.units, setup.single, claims[i])
  BY <1>3 DEF IInv, ClaimsEarned, CopyAgrees, Claimed, Joined, Composed
<1>6. ToSet(own) = W /\ ToSet(verified) = {c \in ToSet(copy.claims) : IsPublishable(c)}
  <2>1. IsList(verified) /\ ToSet(verified) = {c \in ToSet(copy.claims) : IsPublishable(c)}
    BY <1>5, PublishableListed DEF AreClaims
  <2>2. ToSet(own) = ToSet(verified) \cap W
    <3> HIDE DEF W, verified
    <3> QED BY <2>1, SiftList
  <2> HIDE DEF own, verified
  <2> QED BY <2>1, <2>2
<1> HIDE DEF own, verified
<1>7. FigureStands(f, claims)
  BY <1>3, <1>4 DEF FiguresTaken, AreFigures, Composed
<1>8. PICK c \in ToSet(claims), doc \in Documents :
        /\ IsPublishable(c) /\ ClaimMatchesSource(c, Paper.url, doc.arxiv)
        /\ f.claim = [id |-> c.id, section |-> c.section,
                      sources |-> {a.source : a \in c.evidence}]
  BY <1>7 DEF FigureStands
<1>9. PICK i \in DOMAIN claims : c = claims[i]
  BY DEF ToSet
<1>10. PICK a \in c.evidence : ClaimMatchesSource([evidence |-> {a}], Paper.url, doc.arxiv)
  BY <1>8 DEF ClaimMatchesSource
<1>11. Ours(c)
  <2>1. ~OtherPaper(a.source)
    BY <1>10 DEF ClaimMatchesSource, OtherPaper
  <2>2. ~Theirs(c)
    BY <2>1 DEF Theirs
  <2> QED BY <1>5, <1>9, <2>2 DEF Stands, Earned, Validated
<1>12. {b.source : b \in c.evidence} = {Paper.url}
  BY <1>11 DEF Ours
<1> DEFINE d == copy.claims[i]
<1>13. d.id = c.id /\ d.section = c.section /\ d.evidence = c.evidence /\ IsPublishable(d)
  BY <1>5, <1>8, <1>9 DEF SameStanding, SameClaim, IsPublishable
<1>14. d \in ToSet(own)
  <2>1. d \in ToSet(copy.claims)
    BY <1>5 DEF ToSet
  <2>2. a.source = Paper.url /\ a \in d.evidence
    BY <1>11, <1>13 DEF Ours
  <2> HIDE DEF d
  <2> QED BY <1>6, <1>13, <2>1, <2>2
<1>15. \A k \in ToSet(f.crop) : k.page.text = "boxes" => CropStands(k.page, k.box, f.title)
  BY <1>7 DEF FigureStands
<1> HIDE DEF d
<1> QED
  BY <1>4, <1>8, <1>12, <1>13, <1>14, <1>15

\* A list of no more than three is shown as it is.
LEMMA AllOfThree ==
  ASSUME NEW s, IsList(s), Len(s) <= 3
  PROVE  FirstThree(s) = s
<1>1. s \in Seq(ToSet(s)) /\ Len(s) \in Nat
  BY ListShape DEF IsList
<1>2. SubSeq(s, 1, Len(s)) = s
  <2> HIDE DEF ToSet
  <2> QED BY <1>1
<1>3. (IF Len(s) < 3 THEN Len(s) ELSE 3) = Len(s)
  <2>1. ASSUME NEW n \in Nat, n <= 3 PROVE (IF n < 3 THEN n ELSE 3) = n
    BY <2>1
  <2> QED BY <1>1, <2>1
<1> QED
  BY <1>2, <1>3 DEF FirstThree

\* What the channels show of figures that all can show or none.
LEMMA ImagesShown ==
  ASSUME NEW figs, IsList(figs), Len(figs) <= 3,
         \A i \in DOMAIN figs : IsPublicImage(figs[i]) => figs[i].renderable
  PROVE  LET fine(i) == figs[i].located /\ figs[i].renderable
         IN /\ \A i \in ToSet(ArchiveGallery(figs) \o EmailGallery(figs) \o ZhihuGallery(figs)) :
                 fine(i)
            /\ ToSet(EmailGallery(figs)) \subseteq ToSet(ArchiveGallery(figs))
            /\ ToSet(EmailGallery(figs)) \subseteq ToSet(ZhihuGallery(figs))
            /\ \A uploads \in [DOMAIN figs -> UploadEnds], offends \in BOOLEAN :
                 WeChatOutcome(figs, uploads, offends) = "ready"
                   <=> ~offends /\ \A i \in DOMAIN figs : fine(i) /\ uploads[i] = "hosted"
<1> DEFINE all  == Positions(figs)
           good == {i \in DOMAIN figs : /\ figs[i].renderable
                                        /\ SafeRunAssetPath(figs[i]) /\ IsPublicImage(figs[i])}
           fine(i) == figs[i].located /\ figs[i].renderable
<1>1. IsList(all) /\ ToSet(all) = DOMAIN figs /\ FirstThree(all) = all /\ Len(all) <= 3
  <2>1. Len(figs) \in Nat /\ DOMAIN figs = 1 .. Len(figs)
    BY ListShape
  <2>2. DOMAIN all = DOMAIN figs /\ \A i \in DOMAIN figs : all[i] = i
    BY DEF Positions
  <2>3. all = [i \in 1 .. Len(figs) |-> all[i]]
    BY <2>1 DEF Positions
  <2> HIDE DEF all
  <2>4. IsList(all) /\ Len(all) = Len(figs)
    BY <2>1, <2>3, ListOf
  <2>5. ToSet(all) = DOMAIN figs
    BY <2>2 DEF ToSet
  <2> QED BY <2>1, <2>4, <2>5, AllOfThree
<1> HIDE DEF all
<1>2. ASSUME NEW W
      PROVE  /\ IsList(Sift(all, W)) /\ ToSet(Sift(all, W)) = DOMAIN figs \cap W
             /\ FirstThree(Sift(all, W)) = Sift(all, W)
  <2>1. IsList(Sift(all, W)) /\ ToSet(Sift(all, W)) = DOMAIN figs \cap W
    BY <1>1, SiftList
  <2>2. Len(Sift(all, W)) <= 3
    <3>1. Len(Sift(all, W)) <= Len(all) /\ Len(Sift(all, W)) \in Nat /\ Len(all) \in Nat
      BY <1>1, <2>1, SiftShort, ListShape
    <3> QED BY <1>1, <3>1
  <2> QED BY <2>1, <2>2, AllOfThree
<1>3. /\ IsList(ArchiveGallery(figs))
      /\ ToSet(ArchiveGallery(figs)) = DOMAIN figs \cap CopyArchiveAssets(figs)
  BY <1>1, <1>2 DEF ArchiveGallery, all
<1>4. /\ IsList(EmailGallery(figs))
      /\ ToSet(EmailGallery(figs)) = DOMAIN figs \cap PrepareEmailAssets(figs)
  BY <1>1, <1>2 DEF EmailGallery, all
<1>5. IsList(ZhihuGallery(figs)) /\ ToSet(ZhihuGallery(figs)) = good
  <2>1. CopyZhihuAssets(figs) = ToSet(FirstThree(Sift(all, good)))
    BY DEF CopyZhihuAssets, all
  <2>2. CopyZhihuAssets(figs) = good
    <3>1. ToSet(Sift(all, good)) = DOMAIN figs \cap good
      <4> HIDE DEF good
      <4> QED BY <1>2
    <3>2. FirstThree(Sift(all, good)) = Sift(all, good)
      <4> HIDE DEF good
      <4> QED BY <1>2
    <3> QED BY <2>1, <3>1, <3>2
  <2>3. ZhihuGallery(figs) = FirstThree(Sift(all, good))
    BY <2>2 DEF ZhihuGallery, all
  <2> HIDE DEF good
  <2>4. IsList(ZhihuGallery(figs)) /\ ToSet(ZhihuGallery(figs)) = DOMAIN figs \cap good
    BY <1>2, <2>3
  <2> QED BY <2>4 DEF good
<1>6. \A i \in DOMAIN figs : i \in CopyArchiveAssets(figs) => fine(i)
  BY DEF CopyArchiveAssets, SafeRunAssetPath
<1>7. PrepareEmailAssets(figs) \subseteq CopyArchiveAssets(figs) \cap good
  BY DEF PrepareEmailAssets, CopyArchiveAssets, IsPublicImage
<1>8. \A i \in good : fine(i)
  BY DEF SafeRunAssetPath
<1>9. \A i \in ToSet(ArchiveGallery(figs) \o EmailGallery(figs) \o ZhihuGallery(figs)) : fine(i)
  <2>1. /\ IsList(ArchiveGallery(figs) \o EmailGallery(figs))
        /\ ToSet(ArchiveGallery(figs) \o EmailGallery(figs))
             = ToSet(ArchiveGallery(figs)) \cup ToSet(EmailGallery(figs))
    BY <1>3, <1>4, ConcatList
  <2>2. ToSet(ArchiveGallery(figs) \o EmailGallery(figs) \o ZhihuGallery(figs))
          = ToSet(ArchiveGallery(figs)) \cup ToSet(EmailGallery(figs)) \cup ToSet(ZhihuGallery(figs))
    BY <1>5, <2>1, ConcatList
  <2> HIDE DEF good, fine
  <2> QED BY <1>3, <1>4, <1>5, <1>6, <1>7, <1>8, <2>2
<1>10. ASSUME NEW uploads \in [DOMAIN figs -> UploadEnds], NEW offends \in BOOLEAN
       PROVE  WeChatOutcome(figs, uploads, offends) = "ready"
                <=> ~offends /\ \A i \in DOMAIN figs : fine(i) /\ uploads[i] = "hosted"
  <2> DEFINE hosted  == {i \in LocalMediaPaths(figs) : uploads[i] = "hosted"}
             missing == DOMAIN figs \ hosted
  <2>1. PublishHtmlIssues(figs, uploads, offends) <=> offends \/ missing # {}
    <3>1. PublishFigureGallery(figs, uploads).notices = Sift(all, missing)
      BY <1>1 DEF PublishFigureGallery, all
    <3>2. IsList(Sift(all, missing)) /\ ToSet(Sift(all, missing)) = DOMAIN figs \cap missing
      <4> HIDE DEF missing
      <4> QED BY <1>2
    <3>3. Sift(all, missing) # <<>> <=> missing # {}
      <4>0. DOMAIN figs \cap missing = missing
        OBVIOUS
      <4> DEFINE s == Sift(all, missing)
      <4> HIDE DEF s, missing
      <4>1. s # <<>> => ToSet(s) # {}
        <5>1. s # <<>> => s[1] \in ToSet(s)
          BY <3>2, FirstPlace, ListShape DEF s
        <5> QED BY <5>1
      <4>2. ToSet(s) # {} => s # <<>>
        BY EmptyList
      <4> QED BY <3>2, <4>0, <4>1, <4>2 DEF s
    <3> HIDE DEF missing
    <3> QED BY <3>1, <3>3 DEF PublishHtmlIssues
  <2>2. missing = {} <=> \A i \in DOMAIN figs : figs[i].renderable /\ uploads[i] = "hosted"
    BY DEF LocalMediaPaths
  <2>3. UploadRaises(figs, uploads) <=>
          \E i \in DOMAIN figs :
            figs[i].renderable /\ (~figs[i].located \/ uploads[i] = "failed")
    BY DEF UploadRaises, LocalMediaPaths, SafeRunAssetPath
  <2>4. WeChatOutcome(figs, uploads, offends) = "ready"
          <=> ~UploadRaises(figs, uploads) /\ ~PublishHtmlIssues(figs, uploads, offends)
    BY DEF WeChatOutcome
  <2> HIDE DEF missing
  <2> QED BY <2>1, <2>2, <2>3, <2>4
<1> HIDE DEF good
<1> QED
  BY <1>3, <1>4, <1>5, <1>7, <1>9, <1>10

LEMMA AreImagesThere ==
  ASSUME IInv, FiguresTaken
  PROVE  ImagesThere
<1> DEFINE figs == entry.figures
<1>1. AreFigures(figs, claims)
  <2>1. figs = <<>> \/ (stage = "published" /\ figs = copy.figures)
    BY DEF IInv, EntryOrigin, NoEntry, PaperBrief, DeepReadEntry
  <2>2. CASE figs = <<>>
    BY <2>2, NoFigures
  <2>3. CASE stage = "published" /\ figs = copy.figures
    BY <2>3 DEF FiguresTaken, Composed
  <2> QED BY <2>1, <2>2, <2>3
<1> HIDE DEF figs
<1>2. /\ IsList(figs) /\ Len(figs) <= 3
      /\ \A i \in DOMAIN figs : IsPublicImage(figs[i]) => figs[i].renderable
  BY <1>1, ListShape DEF AreFigures, MaxFigures, FigureStands
<1> QED
  BY <1>2, ImagesShown DEF ImagesThere, figs

THEOREM FiguresInvariant == Spec => [](IInv /\ FiguresTaken)
<1>1. Init => IInv /\ FiguresTaken
  BY Initially, FiguresInitially
<1>2. (IInv /\ FiguresTaken) /\ [Next]_vars => (IInv /\ FiguresTaken)'
  BY Preserved, FiguresPreserved
<1> QED
  BY <1>1, <1>2, PTL DEF Spec

\* Every figure of an entry is bound to a claim of that entry about this very
\* paper, and its crop lies above the line that names it with no other caption
\* and no paragraph in it, for every page, every caption and every text on it.
THEOREM FigureIsBacked == Spec => []FigureBacked
  BY FiguresInvariant, IsFigureBacked, PTL

\* What a channel shows is there and can be shown, and only WeChat's draft
\* depends on it, for every mixture of formats and converters, every way the
\* uploads end and whatever else is on the page.
THEOREM ShownImagesAreThere == Spec => []ImagesThere
  BY FiguresInvariant, AreImagesThere, PTL
=============================================================================
