--------------------------- MODULE SourceSignals ---------------------------
(***************************************************************************)
(* What a run makes of a source before any model reads it: its relevance   *)
(* to the topic (discovery/relevance.py), its role (source_role.py) and    *)
(* its centrality (source_centrality.py).                                  *)
(*                                                                         *)
(* A text is told by its words and by the phrases that occur in it; a      *)
(* phrase is a sequence of words.  Scores are ten thousandths.             *)
(***************************************************************************)
EXTENDS SourceSelection

CONSTANTS
  Topic,     \* the profile: [id, queries, paperQueries, webQueries, required,
             \*  excluded, groups, against, priority, trusted, feeds, intent]
  Singular   \* a word of the topic's phrases -> the word without a plural s

StopWords    == {"a", "an", "and", "are", "as", "for", "in", "of", "on", "or", "the", "to", "with"}
GenericTerms == {"arxiv", "benchmark", "benchmarks", "eval", "evaluation", "generation",
                 "paper", "papers", "survey", "surveys", "system", "systems"}

BenchmarkAnchors == {<<"locomo">>, <<"longmemeval">>}

\* PHRASE_BOOSTS
PhraseBoosts ==
     <<"agent", "memory">> :> 4500 @@ <<"memory", "system", "for", "agents">> :> 4500
  @@ <<"memory", "systems", "for", "ai", "agents">> :> 4500
  @@ <<"memory", "systems", "for", "agents">> :> 4500
  @@ <<"llm", "memory">> :> 4000 @@ <<"memory", "benchmark">> :> 3500
  @@ <<"persistent", "recall">> :> 3500 @@ <<"context", "management">> :> 2500
  @@ <<"llm", "reasoning">> :> 3500 @@ <<"reasoning", "benchmark">> :> 4000
  @@ <<"reasoning", "evaluation">> :> 4000 @@ <<"test", "time", "scaling">> :> 4000
  @@ <<"rag", "benchmark">> :> 4000 @@ <<"rag", "evaluation">> :> 4000
  @@ <<"retrieval", "augmented", "generation">> :> 4500
  @@ <<"retrieval", "augmented", "generation", "evaluation">> :> 5000

\* The words of a source, of its name and of its type.
Words(s) == s.words \cup {s.type} \cup
  (CASE s.name = "semantic_scholar" -> {"semantic", "scholar"}
     [] s.name = "web_search" -> {"web", "search"}
     [] OTHER -> {s.name})

(***************************************************************************)
(* Relevance.                                                              *)
(***************************************************************************)
TopicQueries == <<Topic.id>> \o Topic.queries \o Topic.paperQueries
TopicTerms   == UNION {ToSet(q) : q \in ToSet(TopicQueries)} \ StopWords
PrimaryTerms == TopicTerms \ GenericTerms

\* _topic_phrases
QueryPhrase(q) == SelectSeq(q, LAMBDA w : w \notin StopWords \cup GenericTerms)
TopicPhrases   == {p \in {QueryPhrase(q) : q \in ToSet(TopicQueries)} : Len(p) >= 2}

Singulars(words) == {Singular[w] : w \in words \cap DOMAIN Singular} \cup (words \ DOMAIN Singular)

\* A phrase counts only when it shares two words with the topic.
PhraseMatchesTopic(p) ==
  Cardinality((Singulars(ToSet(p)) \ GenericTerms) \cap Singulars(PrimaryTerms)) >= 2

MatchedPhrases(s) ==
  {p \in (DOMAIN PhraseBoosts \cup TopicPhrases) \cap s.says : PhraseMatchesTopic(p)}

\* _concept_gate: the groups with an alias in the text, those that speak
\* against the source (their names begin with "negative") set apart.
MatchedGroups(s)  == {g \in DOMAIN Topic.groups : Topic.groups[g] \cap s.says # {}}
NegativeConcept(s) == MatchedGroups(s) \cap Topic.against # {}

ConceptGate(s) ==
  LET matched == MatchedGroups(s) \ Topic.against
  IN \/ \E g \in MatchedGroups(s) : Topic.groups[g] \cap s.says \cap BenchmarkAnchors # {}
     \/ /\ "agent_context" \in matched
        /\ {"memory_mechanism", "evaluation_signal"} \cap matched # {}

\* Papers, and for a brief repositories too, must say what the topic requires.
StrictPolicy(s) ==
  \/ s.type = "paper"
  \/ s.type = "repository" /\ Topic.intent = "research_brief"

\* priority_score: an earlier priority source is worth more.
PriorityScore(s) ==
  LET under == {i \in DOMAIN Topic.priority : Topic.priority[i] \in s.domains}
  IN IF under = {} THEN 0 ELSE Max({0, 10000 - 500 * (Min(under) - 1)})

\* What keeps a source from being relevant whatever else it scores.
Vetoed(s) ==
  LET concepts == DOMAIN Topic.groups # {} /\ StrictPolicy(s)
  IN \/ /\ s.type = "paper" /\ ~ConceptGate(s) /\ MatchedPhrases(s) = {}
        /\ Cardinality(PrimaryTerms \cap Words(s)) < 2
     \/ /\ ~concepts /\ StrictPolicy(s) /\ Topic.required # {}
        /\ Topic.required \cap s.says = {}
     \/ concepts /\ ~ConceptGate(s)
     \/ Topic.excluded \cap s.says # {}
     \/ NegativeConcept(s)
     \/ s.future

RelevantThreshold    == 4500
NeedsReviewThreshold == 2000

RelevanceScore(s) ==
  LET boost(p) == IF p \in DOMAIN PhraseBoosts THEN PhraseBoosts[p] ELSE 3000
      score == Min({5400, 1800 * Cardinality(PrimaryTerms \cap Words(s))})
             + Min({1600, 800 * Cardinality(TopicTerms \cap GenericTerms \cap Words(s))})
             + MapThenSumSet(boost, MatchedPhrases(s))
             + (IF ConceptGate(s) THEN 3500 ELSE 0)
             + (8 * PriorityScore(s)) \div 100 + 300
  IN Min({score, IF Vetoed(s) THEN NeedsReviewThreshold ELSE 10000})

\* The sums that come to the threshold fall just short of it as the floating
\* point numbers they are.
RelevanceStatus(score) ==
  CASE score > RelevantThreshold -> "relevant"
    [] score <= RelevantThreshold /\ score >= NeedsReviewThreshold -> "needs_review"
    [] OTHER -> "irrelevant"

(***************************************************************************)
(* Role.                                                                   *)
(***************************************************************************)
ListTerms           == {"awesome", "curated", "collection", "collections", "list", "lists",
                        "resources", "survey", "surveys"}
BenchmarkTerms      == {"benchmark", "benchmarks", "dataset", "datasets", "evaluation", "eval"}
ImplementationTerms == {"framework", "library", "implementation", "toolkit", "package", "code"}

\* classify_source_role: [role, priority]; wording of a list counts first.
SourceRole(s) ==
  LET has(terms) == Words(s) \cap terms # {}
      is(role, priority) == [role |-> role, priority |-> priority]
  IN IF has(ListTerms) THEN is("survey_or_list", 50)
     ELSE CASE s.type = "paper" ->
                 IF has(BenchmarkTerms) THEN is("benchmark_paper", 450)
                 ELSE is("primary_paper", 500)
            [] s.type = "repository" ->
                 is("implementation_repo",
                    IF has(BenchmarkTerms) THEN 430
                    ELSE IF has(ImplementationTerms) THEN 150 ELSE 120)
            [] s.type \in {"blog", "web", "rss"} -> is("blog_or_web", 200)
            [] OTHER -> is("noise", 0)

(***************************************************************************)
(* Centrality of a paper.                                                  *)
(***************************************************************************)
ResearchTerms == {"architecture", "benchmark", "benchmarks", "dataset", "datasets", "evaluation",
  "framework", "method", "metric", "metrics", "pipeline", "system", "systems"}
DomainTerms == {"biomedical", "clinical", "commerce", "ecommerce", "eating", "finance",
  "financial", "food", "geospatial", "healthcare", "khmer", "law", "legal", "medical", "news",
  "nutrition", "optical", "retail", "russian", "social"}
DomainEquivalents == {{"clinical", "healthcare", "medical"}, {"commerce", "ecommerce", "retail"},
  {"finance", "financial"}, {"law", "legal"}}
CanonicalPaperDomains == {"aclanthology.org", "arxiv.org", "openreview.net", "semanticscholar.org"}

\* The fields the topic asks about, and the names they also go by.
Aliases == UNION {Topic.groups[g] : g \in DOMAIN Topic.groups \ Topic.against}
RequestedDomains ==
  LET asked == DomainTerms \cap UNION {ToSet(p) :
                 p \in ToSet(Topic.queries \o Topic.paperQueries) \cup Topic.required \cup Aliases}
  IN asked \cup UNION {d \in DomainEquivalents : d \cap asked # {}}

UnrequestedDomains(s) == (DomainTerms \cap Words(s)) \ RequestedDomains

CentralityScore(s) ==
  LET queries == Len(SelectSeq(Topic.queries \o Topic.paperQueries, LAMBDA q : q \in s.says))
      aliases == MapThenSumSet(LAMBDA g : Cardinality(Topic.groups[g] \cap s.says),
                               DOMAIN Topic.groups \ Topic.against)
      strange == Cardinality(UnrequestedDomains(s))
      score   == 2000 + Min({2200, 800 * queries}) + Min({2800, 600 * aliases})
               + Min({1600, 400 * Cardinality(ResearchTerms \cap Words(s))})
               + (IF \/ s.domains \cap CanonicalPaperDomains # {}
                     \/ s.name \in {"arxiv", "openreview", "semantic_scholar"} THEN 800 ELSE 0)
               - (IF strange = 0 THEN 0 ELSE Min({3500, 1800 + 600 * strange}))
  IN IF s.type # "paper" THEN 0 ELSE Max({0, Min({score, 10000})})

\* gate_relevant_sources, classify_source_role and score_source_centrality:
\* a candidate with what is looked at from here on.
Judged(s) ==
  [url |-> s.url, type |-> s.type, arxiv |-> s.arxiv, version |-> s.version, doi |-> s.doi,
   canonical |-> s.canonical, repo |-> s.repo, address |-> s.address, title |-> s.title,
   pdf |-> s.pdf, score |-> s.score,
   relevance  |-> RelevanceScore(s),
   relevant   |-> RelevanceStatus(RelevanceScore(s)) = "relevant",
   role       |-> SourceRole(s).role, priority |-> SourceRole(s).priority,
   centrality |-> CentralityScore(s),
   negative   |-> s.type # "paper" \/ UnrequestedDomains(s) # {}]
=============================================================================
