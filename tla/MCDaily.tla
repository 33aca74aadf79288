---- MODULE MCDaily ----
(***************************************************************************)
(* A small world for DailyRun: two versions of one paper, one of them also *)
(* found on the web, the same paper under a DOI in an index with a record  *)
(* that speaks against its topic, one address under two identifiers, and   *)
(* two runs.                                                               *)
(***************************************************************************)
EXTENDS DailyRun

MCTopic ==
  [id |-> <<"agent", "memory">>, queries |-> <<<<"agent", "memory">>>>, paperQueries |-> <<>>,
   webQueries |-> <<>>, required |-> {}, excluded |-> {<<"animal", "memory">>},
   groups |-> [agent_context |-> {<<"agents">>}, memory_mechanism |-> {<<"recall">>}],
   against |-> {}, priority |-> <<"arxiv.org">>, trusted |-> <<"arxiv.org">>, feeds |-> <<>>,
   intent |-> "research_brief"]
MCSingular   == "agents" :> "agent"
MCConnectors == <<"web_search", "arxiv", "openalex">>

Hit(url, words, says) ==
  [url |-> url, arxiv |-> "", version |-> 0, doi |-> "", canonical |-> <<>>, repo |-> "",
   address |-> url, title |-> "x", pdf |-> {}, ids |-> <<>>, rule |-> "none", rank |-> 5000,
   whole |-> TRUE, words |-> words, says |-> says, domains |-> {}, future |-> FALSE]
Version(url, version, says) ==
  [Hit(url, {"agent", "memory", "benchmark"}, says) EXCEPT
     !.arxiv = "a", !.version = version, !.ids = [arxiv |-> url], !.pdf = {"address"},
     !.domains = {"arxiv.org"}, !.rule = "arxiv"]
Central == {<<"agent", "memory">>, <<"agents">>, <<"recall">>}
First   == Version("a1", 1, Central)
Second  == Version("a2", 2, {<<"agents">>, <<"recall">>})
Indexed == [Hit("d", {"agent", "memory", "clinical"}, {<<"agents">>, <<"recall">>}) EXCEPT
              !.doi = "d", !.ids = [DOI |-> "d"]]
\* The second version under its own address, which an index gives a DOI.
Landing == [Second EXCEPT !.doi = "e", !.ids = [DOI |-> "e"]]
Animal  == [Hit("v", {"agent", "memory"}, {<<"animal", "memory">>}) EXCEPT !.ids = [DOI |-> "v"]]
Blank   == [Hit("b", {}, {}) EXCEPT !.whole = FALSE]

World(arxiv, openalex, web, fails) ==
  [hits |-> [arxiv |-> arxiv, openalex |-> openalex, web_search |-> web], fails |-> fails]
SomeFails   == {<<"openalex", 1>>}
ArxivFails  == {<<"arxiv", i>> : i \in 1 .. 5}
MCWorlds ==
  {World(papers, index, <<>>, {}) :
     papers \in {<<>>, <<First>>, <<Second, First>>}, index \in {<<>>, <<Indexed>>}}
  \cup {World(<<>>, index, <<>>, SomeFails) : index \in {<<>>, <<Indexed>>}}
  \cup {World(<<Second>>, <<Indexed, Blank>>, <<First>>, {}),
        World(<<>>, <<Landing>>, <<Second>>, {}),
        World(<<First>>, <<Indexed, Animal>>, <<>>, ArxivFails)}

\* A whole paper, an abstract of one, a page with nothing on it.
Document(pages, chars, signals) ==
  [answers |-> TRUE, parses |-> TRUE, pages |-> pages, chars |-> chars, signals |-> signals]
MCDocuments ==
  {Document(9, 40000, {"abstract", "method", "experiments_results"}),
   Document(1, 8500, {"abstract", "method"}), Document(0, 0, {})}

\* From discovery to the report a run only reads the history once: the steps
\* of the other one that fall in between can as well be taken before or after.
Local(h) == h.stage \in {"discovered", "selecting", "reviewed"}
OneAtATime == \A r \in Run : Local(run[r]) => run'[r] # run[r]

Runs == Permutations(Run)
====
