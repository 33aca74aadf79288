----------------------------- MODULE Discovery -----------------------------
(***************************************************************************)
(* What a run finds: the plan of queries (analysis/research_plan.py,       *)
(* discovery/query_expansion.py), the connectors (arxiv.py,                *)
(* semantic_scholar.py, openalex.py, web_search.py, github.py, rss.py),    *)
(* their order and what becomes of their failures (orchestrator.py), and   *)
(* the removal of duplicates (dedupe.py).                                  *)
(*                                                                         *)
(* A hit is what an index tells of a source: the source as SourceHistory   *)
(* and SourceSignals know it, without type, name, id and score, which the  *)
(* connector gives it.  ids are its identifiers by registry, rule is the   *)
(* sort of its address, rank the score a search gives it, and whole says   *)
(* that title and address are there.                                       *)
(***************************************************************************)
EXTENDS SourceSignals

CONSTANTS
  Connectors,  \* the enabled connectors, in the order of the configuration
  WebSearch,   \* "tavily", or "generic" for any other search
  Limit        \* results asked of every query

(***************************************************************************)
(* Queries.                                                                *)
(***************************************************************************)
Distinct(seq) ==
  FoldLeft(LAMBDA acc, q : IF q = <<>> \/ q \in ToSet(acc) THEN acc ELSE Append(acc, q), <<>>, seq)

PaperQuerySuffixes == <<"paper", "benchmark", "survey", "arxiv">>

\* paper_query_variants: every query, and with each suffix it does not have.
Variants(query) ==
  LET missing == SelectSeq(PaperQuerySuffixes, LAMBDA w : w \notin ToSet(query))
  IN <<query>> \o [i \in DOMAIN missing |-> Append(query, missing[i])]
PaperQueryVariants(queries) == FlattenSeq([i \in DOMAIN queries |-> Variants(queries[i])])

SiteQueryDomains == {"arxiv.org", "openreview.net", "aclanthology.org", "paperswithcode.com",
  "proceedings.neurips.cc", "dl.acm.org"}

\* build_research_plan
ResearchPlan ==
  LET base  == Distinct(Topic.queries)
      sites == SelectSeq(Topic.trusted, LAMBDA d : d \in SiteQueryDomains)
      of(d) == [i \in DOMAIN base |-> <<"site", d>> \o base[i]]
  IN [paper      |-> Distinct(Topic.paperQueries \o PaperQueryVariants(base)),
      web        |-> Distinct(Topic.webQueries \o base
                              \o FlattenSeq([i \in DOMAIN sites |-> of(sites[i])])),
      repository |-> Distinct(base \o [i \in DOMAIN base |->
                                         base[i] \o <<"benchmark", "implementation">>])]

PaperConnectors == {"arxiv", "semantic_scholar", "openalex"}

\* planned_topic_for_connector: what a connector asks, one request each; the
\* feeds of rss are addresses, not queries.
ConnectorQueries(c) ==
  CASE c \in PaperConnectors -> ResearchPlan.paper
    [] c = "web_search" -> ResearchPlan.web
    [] c = "github" -> ResearchPlan.repository
    [] OTHER -> Topic.feeds

(***************************************************************************)
(* From a hit to a candidate, one way for every connector.                 *)
(***************************************************************************)
\* The first of the registries that knows the source.
IdOf(hit, registries) ==
  LET known == SelectSeq(registries, LAMBDA r : r \in DOMAIN hit.ids)
  IN IF known = <<>> THEN <<>> ELSE <<known[1], hit.ids[known[1]]>>

Told(hit, type, name, id, score) ==
  hit @@ [type |-> type, name |-> name, id |-> id, score |-> score + PriorityScore(hit)]

ArxivCandidate(hit) == Told(hit, "paper", "arxiv", IdOf(hit, <<"arxiv">>), 7000)

SemanticScholarCandidate(hit) ==
  Told(hit, "paper", "semantic_scholar", IdOf(hit, <<"DOI", "ArXiv", "CorpusId">>), 7500)

OpenAlexCandidate(hit) == Told(hit, "paper", "openalex", IdOf(hit, <<"DOI", "OpenAlex">>), 7600)

RepositoryCandidate(hit) == Told(hit, "repository", "github", IdOf(hit, <<"github_repo">>), 5500)

FeedEntry(hit) == Told(hit, "blog", "rss", <<>>, 4500)

\* _canonical_web_source: what the address of a web result gives away.
WebType(hit) ==
  CASE hit.rule \in {"arxiv", "acl_anthology", "openreview"} -> "paper"
    [] hit.rule = "github_repo" -> "repository"
    [] OTHER -> "web"

WebScore(hit) ==
  IF WebSearch = "tavily" THEN 4000 + Min({10000, hit.rank}) \div 5 ELSE 3500

WebCandidate(hit) ==
  Told(hit, WebType(hit), "web_search", IdOf(hit, <<hit.rule>>), WebScore(hit))

Candidate(c, hit) ==
  CASE c = "arxiv" -> ArxivCandidate(hit)
    [] c = "semantic_scholar" -> SemanticScholarCandidate(hit)
    [] c = "openalex" -> OpenAlexCandidate(hit)
    [] c = "github" -> RepositoryCandidate(hit)
    [] c = "web_search" -> WebCandidate(hit)
    [] OTHER -> FeedEntry(hit)

\* A result without a title or an address is passed over; a feed's is not.
Parsed(c, hits) ==
  LET told == IF c = "rss" THEN hits ELSE SelectSeq(hits, LAMBDA h : h.whole)
  IN [i \in DOMAIN told |-> Candidate(c, told[i])]

(***************************************************************************)
(* One connector.  world is what the servers say: hits[c] for every query  *)
(* of a connector, and fails, the requests <<c, i>> that get no answer.    *)
(***************************************************************************)
Unanswered(world, c) == {i \in DOMAIN ConnectorQueries(c) : <<c, i>> \in world.fails}

AllResults(world, c) ==
  LET asked    == DOMAIN ConnectorQueries(c)
      answered == SelectSeq([i \in asked |-> i], LAMBDA i : i \notin Unanswered(world, c))
  IN FlattenSeq([n \in DOMAIN answered |-> Parsed(c, world.hits[c])])

Scores(sources) == [i \in DOMAIN sources |-> <<sources[i].score>>]

\* Only the feeds are cut to the limit as a whole.
FeedEntries(entries) ==
  SubSeq(RankedBy(entries, Scores(entries)), 1, Min({Limit, Len(entries)}))

Found(world, c) ==
  IF c = "rss" THEN FeedEntries(AllResults(world, c)) ELSE AllResults(world, c)

EveryQueryFails(world, c) == Unanswered(world, c) = DOMAIN ConnectorQueries(c)
NothingBrought(world, c)  == AllResults(world, c) = <<>>

\* Who raises a DiscoveryError when a request failed: arxiv, semantic_scholar
\* and github when every one did, openalex and Tavily when none of them
\* brought anything, a generic search and the feeds at once.
Raises(world, c) ==
  /\ Unanswered(world, c) # {}
  /\ CASE c \in {"arxiv", "semantic_scholar", "github"} -> EveryQueryFails(world, c)
       [] c = "openalex" -> NothingBrought(world, c)
       [] c = "web_search" /\ WebSearch = "tavily" -> NothingBrought(world, c)
       [] OTHER -> TRUE

\* Who keeps count of the requests that failed (QueryDiagnostics, Tavily).
CountsFailures(c) ==
  \/ c \in {"arxiv", "semantic_scholar", "github"}
  \/ c = "web_search" /\ WebSearch = "tavily"

\* What the verdict on the run takes for a failure of discovery: the warning
\* of a connector that raised, a query that failed, a count of such queries.
DiscoveryFailed(world) ==
  \E c \in ToSet(Connectors) :
    Raises(world, c) \/ (CountsFailures(c) /\ Unanswered(world, c) # {})

(***************************************************************************)
(* All of them.                                                            *)
(***************************************************************************)
\* discovery_stage_for_connector
StageRank(c) ==
  CASE c \in PaperConnectors -> 0 [] c = "web_search" -> 1 [] c = "github" -> 2
    [] c = "rss" -> 3 [] OTHER -> 4

OrderedConnectors ==
  RankedBy(Connectors, [i \in DOMAIN Connectors |-> <<-StageRank(Connectors[i])>>])

\* The identifier of a candidate, or else its address without the query.
DedupeKey(s) == IF s.id # <<>> THEN s.id ELSE <<"address", s.address>>

\* dedupe_candidates: of several the one with the best score, or found first.
DedupeCandidates(candidates) ==
  FoldLeft(LAMBDA acc, s : IF \E t \in ToSet(acc) : DedupeKey(t) = DedupeKey(s)
                           THEN acc ELSE Append(acc, s),
           <<>>, RankedBy(candidates, Scores(candidates)))

\* What the connectors that do not raise bring, one after the other.
AllFound(world) ==
  LET calm == SelectSeq(OrderedConnectors, LAMBDA c : ~Raises(world, c))
  IN FlattenSeq([n \in DOMAIN calm |-> Found(world, calm[n])])

FoundSources(world) ==
  LET kept == DedupeCandidates(AllFound(world)) IN [i \in DOMAIN kept |-> Judged(kept[i])]

\* DiscoveryOrchestrator.discover, and what a run makes of its findings: a
\* connector that raises is a warning, the others go on.
DiscoverSources(world) ==
  [sources    |-> FoundSources(world),
   failed     |-> DiscoveryFailed(world),
   unanswered |-> {c \in ToSet(Connectors) : Unanswered(world, c) # {}}]
=============================================================================
