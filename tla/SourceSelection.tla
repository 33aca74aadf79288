-------------------------- MODULE SourceSelection --------------------------
(***************************************************************************)
(* Which sources are read in depth, in which order, and which are listed   *)
(* (discovery/source_selection.py, pipeline/public_sources.py,             *)
(* compose/source_groups.py, the report gate of pipeline/daily.py).        *)
(*                                                                         *)
(* Scores are integers, ten thousandths of what the code computes with;    *)
(* the score of a selection is ten thousand times finer, for the score of  *)
(* discovery has a ten thousandth part in it.                              *)
(***************************************************************************)
EXTENDS SourceHistory

RoleRank(role) ==
  CASE role = "primary_paper" -> 50      [] role = "benchmark_paper" -> 40
    [] role = "implementation_repo" -> 30 [] role = "blog_or_web" -> 20
    [] role = "survey_or_list" -> 10      [] OTHER -> 0

LowCentralityFloor == 5500

\* A paper whose signals speak against it and that is not central enough.
LowCentrality(s) == s.negative /\ s.centrality < LowCentralityFloor

SelectionScore(s, intent) ==
  IF intent = "research_brief"
  THEN 10000 * (s.relevance + Min({2200, (3 * s.centrality) \div 10})
                - (IF LowCentrality(s) THEN 1200 ELSE 0) + 10 * RoleRank(s.role)) + s.score
  ELSE 10000 * (s.relevance + 10 * s.priority) + s.score

SelectionKey(s, intent) ==
  IF intent = "research_brief"
  THEN <<SelectionScore(s, intent), RoleRank(s.role), s.centrality, s.relevance, s.score>>
  ELSE <<s.relevance, s.priority, s.score, 0>>

\* _candidate_pool: a brief reads relevant papers only, a scan whatever is
\* no list, and lists when there is nothing else.
CandidatePool(sources, intent) ==
  LET noLists == Sift(sources, {s \in ToSet(sources) : s.role # "survey_or_list"})
  IN CASE intent = "research_brief" ->
            Sift(sources, {s \in ToSet(sources) :
                             /\ s.role \in {"primary_paper", "benchmark_paper"}
                             /\ s.relevance >= 6000})
       [] intent # "research_brief" /\ noLists # <<>> -> noLists
       [] OTHER -> sources

\* ranked_deep_candidates
RankedDeepCandidates(sources, intent) ==
  LET pool == CandidatePool(sources, intent)
  IN RankedBy(pool, [i \in DOMAIN pool |-> SelectionKey(pool[i], intent)])

Urls(sources) == {s.url : s \in ToSet(sources)}

\* The place of the last source with an address: a dictionary by address has
\* the last one.
LastAt(sources, url) == Max({i \in DOMAIN sources : sources[i].url = url})

\* _dedupe_metadata_by_url: among the ranked, the first of a family is its
\* primary; an alias of a duplicate is not added to the family.  Of two sources
\* with one address the second is a duplicate, and that is said of both.
DedupeMetadata(ranked) ==
  LET families[n \in 0 .. Len(ranked)] ==
        IF n = 0 THEN {}
        ELSE LET before == families[n - 1]
                 keys   == ToSet(FamilyKeys(ranked[n]))
             IN IF keys \cap before = {} THEN before \cup keys ELSE before
      metadata(n) ==
        LET keys == ToSet(FamilyKeys(ranked[n]))
        IN [keys   |-> keys,
            status |-> CASE keys = {} -> "unique"
                         [] keys # {} /\ keys \cap families[n - 1] = {} -> "primary"
                         [] OTHER -> "duplicate"]
  IN [url \in Urls(ranked) |-> metadata(LastAt(ranked, url))]

\* _replace_candidates
ReplaceCandidates(candidates, replacements) ==
  [i \in DOMAIN candidates |->
     IF candidates[i].url \in Urls(replacements)
     THEN replacements[LastAt(replacements, candidates[i].url)] ELSE candidates[i]]

\* list({source.url: source ...}.values())
OnePerUrl(sources) ==
  LET firsts == Sift([i \in DOMAIN sources |-> i],
                     {i \in DOMAIN sources : \A j \in 1 .. i - 1 : sources[j].url # sources[i].url})
  IN [k \in DOMAIN firsts |-> sources[LastAt(sources, sources[firsts[k]].url)]]

(***************************************************************************)
(* The report gate of the daily run: a brief lists no lists of repositories. *)
(***************************************************************************)
PassesReportGate(s, intent) ==
  ~(intent = "research_brief" /\ s.type = "repository" /\ s.role = "survey_or_list")

(***************************************************************************)
(* What is listed.                                                         *)
(***************************************************************************)
SourceGroup(s) ==
  CASE s.role = "primary_paper" -> "research_papers"
    [] s.role = "benchmark_paper" -> "benchmarks"
    [] s.role \notin {"primary_paper", "benchmark_paper"}
         /\ (s.type = "repository" \/ s.role = "implementation_repo") -> "implementation_repos"
    [] s.role \notin {"primary_paper", "benchmark_paper", "implementation_repo"}
         /\ s.type = "paper" -> "research_papers"
    [] s.role \notin {"primary_paper", "benchmark_paper", "implementation_repo"}
         /\ (s.type \in {"blog", "web", "rss"} \/ s.role \in {"blog_or_web", "survey_or_list"})
         -> "web_blog_context"
    [] OTHER -> "other"

PublicSourceCaps ==
  [research_papers |-> 8, benchmarks |-> 8, implementation_repos |-> 3,
   web_blog_context |-> 5, other |-> 3]

HasRoom(listed, s) ==
  Cardinality({i \in DOMAIN listed : SourceGroup(listed[i]) = SourceGroup(s)})
    < PublicSourceCaps[SourceGroup(s)]

\* Of what was not read, up to a cap for every group, what is no duplicate and
\* central enough.
JoinsList(listed, s, readUrls, dedupe) ==
  \/ s.url \in readUrls
  \/ /\ ~(s.url \in DOMAIN dedupe /\ dedupe[s.url].status = "duplicate")
     /\ ~(s.type = "paper" /\ LowCentrality(s))
     /\ HasRoom(listed, s)

\* What was read is listed first and always.
SelectPublicReportSources(sources, readUrls, dedupe, intent) ==
  LET ranked == RankedBy(sources, [i \in DOMAIN sources |->
                  <<IF sources[i].url \in readUrls THEN 1 ELSE 0>>
                    \o SelectionKey(sources[i], intent)])
      listed[n \in 0 .. Len(ranked)] ==
        IF n = 0 THEN <<>>
        ELSE IF JoinsList(listed[n - 1], ranked[n], readUrls, dedupe)
             THEN Append(listed[n - 1], ranked[n]) ELSE listed[n - 1]
  IN IF intent # "research_brief" THEN sources ELSE listed[Len(ranked)]
=============================================================================
