---- MODULE MCReading ----
(***************************************************************************)
(* A small world for the readings of a daily run and of a single paper:    *)
(* seven texts, quotes of every sort, answers of the models that reach     *)
(* every branch of the code, and documents with figures of every sort.     *)
(***************************************************************************)
EXTENDS PaperRun

MCAddress == [absolute : BOOLEAN, pdf : BOOLEAN]

MCPaper == [url |-> "u1", title |-> "t1"]

Page(headings, keywords, size) ==
  [headings |-> headings, keywords |-> keywords, bonus |-> 0, starts |-> "none", size |-> size]
Experiments == Page({"experiments_results"}, "other", 6000)
Ending      == Page({"limitations_conclusion"}, "other", 4000)
MCTexts ==
  LET front == <<Page({"abstract"}, "introduction", 3000), Page({"introduction"}, "other", 5000),
                 Page({"method"}, "other", 6000)>>
      keyed == [Page({"method", "related_work"}, "method", 3000) EXCEPT !.bonus = 40]
      back  == [Page({}, "experiments_results", 3000) EXCEPT !.starts = "references"]
      extra == [Page({}, "limitations_conclusion", 3000) EXCEPT !.starts = "appendix"]
  IN {front \o <<Experiments, Experiments, Experiments, Experiments, Ending>>,
      front \o <<Page({}, "related_work", 3000), Experiments, Ending, back, back, extra>>,
      <<Page({"method"}, "other", 30000), Page({}, "other", 0), Page({}, "related_work", 60)>>,
      <<keyed, keyed, Experiments, Experiments, keyed, Experiments, Ending, Ending>>,
      <<Page({}, "abstract", 20), Experiments, Experiments, keyed, keyed, keyed, Ending>>,
      front \o <<back, Ending>>, <<>>}

\* A sentence with one number and the system, another with another number and
\* the benchmark, and the row of the system's rival.
MCQuote == {"exact", "other", "loose", "row", "gone"}
MCMethod == {"system", "rival"}
MCMatch == [q \in MCQuote |->
  [reader   |-> q # "gone",
   resolver |-> CASE q \in {"exact", "row"} -> "exact" [] q = "other" -> "normalized"
                  [] OTHER -> "none",
   numbers  |-> CASE q = "exact" -> {1} [] q = "other" -> {2} [] OTHER -> {1, 2},
   entities |-> CASE q = "exact" -> {"system"} [] q = "other" -> {"F1"}
                  [] OTHER -> {"system", "rival", "F1"},
   row      |-> IF q = "row" THEN {{"rival"}} ELSE {},
   window   |-> q]]

Stated(numbers, entities) == [numbers |-> numbers, entities |-> entities]
Nothing == Stated({}, {})

Unit(id, section, quotes, default, marks) ==
  [id |-> id, section |-> section, kind |-> "fact", quotes |-> quotes,
   default |-> default, marks |-> marks, states |-> Nothing]
Stating(unit, numbers, entities) == [unit EXCEPT !.states = Stated(numbers, entities)]
\* Numbers that two quotes have between them, and some that they have not.
Units ==
  {Unit("c1", "problem", {"exact"}, TRUE, {}),
   Stating(Unit("c1", "experiments", {"loose"}, TRUE, {}), {1}, {}),
   Stating(Unit("c1", "experiment", {"exact", "other"}, TRUE, {}), {1, 2}, {"system", "F1"}),
   Stating(Unit("c2", "evaluation", {"exact", "gone"}, TRUE, {}), {1}, {"system"}),
   Stating(Unit("c2", "experiment", {"exact", "row"}, TRUE, {}), {2}, {"system"}),
   Stating(Unit("c2", "motivation", {"exact"}, TRUE, {}), {2}, {}),
   Unit("c2", "mechanism", {"gone"}, TRUE, {"method", "result"}),
   Unit("c3", "novelty", {"gone"}, FALSE, {}),
   Unit("c3", "essence", {}, TRUE, {"superlative"}),
   Unit("c5", "solution", {"exact", "loose"}, TRUE, {}),
   Unit("", "essence", {"exact"}, TRUE, {"two_verbs"}),
   [Unit("c4", "critique", {"exact"}, TRUE, {"replication"}) EXCEPT !.kind = "critique"]}

Story(ids) == [opening_context |-> <<[name |-> "p1", ids |-> ids]>>,
               reader_takeaway |-> <<[name |-> "p2", ids |-> <<"c2">>]>>]
Conclusions == {"problem", "solution", "related_work", "experiment", "limitations",
                "critical_assessment", "essence"}
Answer(units, story) ==
  [shape |-> "object", absent |-> {}, index |-> {"exact"}, told |-> {"experiment", "essence"},
   quotes |-> [s \in ReadingSections \cup {"experiments"} |->
                 IF s = "limitations" THEN {"gone"} ELSE {}],
   states |-> [s \in Conclusions |->
                 CASE s = "experiment" -> Stated({1, 2}, {"system"}) [] s = "solution" -> Stated({1}, {})
                   [] OTHER -> Nothing],
   units |-> units, explanation |-> story, badIds |-> FALSE, rejected |-> 1, title |-> "t1"]
Good == Answer(<<Unit("c1", "problem", {"exact"}, TRUE, {})>>, Story(<<"c1", "c2">>))
MCReaderReply ==
  {Answer(<<u, v>>, Story(<<"c1">>)) : u, v \in Units}
  \cup {Answer(<<>>, Story(<<"c1">>)), [Answer(<<>>, Story(<<"c1">>)) EXCEPT !.index = {"exact", "other"}],
        [Good EXCEPT !.title = "t2"],
        [Good EXCEPT !.shape = "text"], [Good EXCEPT !.absent = {"solution"}],
        [Good EXCEPT !.index = {}], [Good EXCEPT !.badIds = TRUE]}

Fix(index, quote) == [index |-> index, quote |-> quote]
MCRepairReply == {<<>>, <<Fix(3, "exact"), Fix(1, "exact")>>,
  <<Fix(2, "exact"), Fix(2, "loose")>>, <<Fix(1, "row"), Fix(2, "")>>, <<Fix(1, "exact"), Fix(2, "row")>>}

Verdict(index, status) == [index |-> index, status |-> status]
MCReviewReply ==
  {[json |-> json, decisions |-> decisions, actions |-> <<>>] :
     json \in BOOLEAN,
     decisions \in {<<>>, <<Verdict(1, "supported"), Verdict(2, "supported")>>,
                    <<Verdict(2, "speculative"), Verdict(2, "supported"), Verdict(9, "other")>>}}

MCReadingCopy ==
  {[json |-> FALSE, fields |-> {}, explanation |-> <<>>],
   [json |-> TRUE, fields |-> {"essence", "problem"}, explanation |->
      [opening_context |-> <<[ids |-> <<"c1">>, blank |-> FALSE]>>,
       reader_takeaway |-> <<[ids |-> <<"c1">>, blank |-> FALSE]>>]]}
MCDisplayCopy == {[json |-> json, claims |-> {1}, figures |-> {1}] : json \in BOOLEAN}

MCOtherClaims ==
  <<[id |-> "c2", section |-> "problem", status |-> "supported", reason |-> "supported",
     evidence |-> {[source |-> "u2", title |-> "t2", quote |-> "exact"]},
     origin |-> "unit", states |-> Nothing, lang |-> "en"]>>

(***************************************************************************)
(* Both papers are at OpenReview, where the page is one and the same.      *)
(***************************************************************************)
MCIdentity == [u1 |-> [openreview |-> "o1", page |-> "forum", arxiv |-> ""],
               u2 |-> [openreview |-> "o2", page |-> "forum", arxiv |-> ""]]
MCClaimWords == [c1 |-> {"index", "cache", "system"}, c2 |-> {"latency", "result", "system"}]

Tools(pdftoppm, rsvg, sips) == [pdftoppm |-> pdftoppm, rsvg |-> rsvg, sips |-> sips]
Mac   == Tools("absent", "absent", "works")
Linux == Tools("works", "fails", "absent")
Document(arxiv, sources, blocks, pages, tools) ==
  [stored |-> TRUE, pdf |-> pages # <<>>, arxiv |-> arxiv, sources |-> sources,
   blocks |-> blocks, pages |-> pages, tools |-> tools, astray |-> FALSE]

Block(title, words, images) == [title |-> title, words |-> words, images |-> images]
Blocks ==
  <<Block(1, {"latency", "result", "appendix"}, <<<<"", "gif">>>>),
    Block(2, {"cache", "system", "architecture", "fig:"}, <<<<"svg">>, <<"", "", "tex">>, <<"pdf">>>>),
    Block(3, {"index", "cache"}, <<<<"eps">>>>), Block(1, {"latency"}, <<<<"png">>>>)>>

Line(left, right, top, words, starts, names) ==
  [left |-> left, right |-> right, top |-> top, bottom |-> top + 10, words |-> words,
   starts |-> starts, names |-> names]
Plain(left, right, top) == Line(left, right, top, (right - left) \div 30, "text", 0)
Written(kind, number, words, chars, stop) ==
  [kind |-> kind, number |-> number, words |-> words, chars |-> chars, stop |-> stop]
Captioned(number, words) ==
  <<Written("text", 0, {"index"}, 60, TRUE), Written("caption", number, words, 50, FALSE),
    Written("text", 0, {"cache"}, 60, TRUE), Written("text", 0, {"latency"}, 60, TRUE),
    Written("heading", 0, {}, 20, FALSE), Written("text", 0, {"system"}, 60, FALSE)>>
Sheet(kind, lines, body, rendered) ==
  [text |-> kind, width |-> 600, height |-> 800, lines |-> lines, body |-> body,
   mark |-> [top |-> 400, size |-> 10], rendered |-> rendered]
\* A wide figure, one of a column next to a text, one with a table above it
\* in its gap, one the text speaks of before, and a paragraph set apart.
Wide   == <<Plain(60, 540, 100), Line(100, 500, 400, 12, "figure", 1), Plain(60, 540, 500)>>
Column == <<Plain(320, 560, 100), Plain(320, 560, 120), Plain(320, 560, 140), Plain(30, 280, 300),
            Line(40, 270, 600, 7, "figure", 2)>>
Tabled == <<Plain(60, 540, 100), Line(100, 400, 118, 3, "table", 0), Line(100, 500, 400, 12, "figure", 3)>>
Spoken == <<Line(60, 540, 300, 16, "text", 2), Line(100, 500, 600, 12, "figure", 2)>>
Drawn  == <<Plain(60, 540, 100), Plain(60, 540, 250), Plain(60, 540, 265), Plain(60, 540, 280),
            Line(100, 500, 420, 12, "figure", 1)>>
Tables == <<Line(100, 400, 395, 3, "table", 0), Line(100, 500, 410, 12, "figure", 1)>>

\* Mentions of a system and its cache share two words with a claim.
System == {"cache", "system", "architecture"}
MCDocuments ==
  {Document("a1", "source", Blocks, <<>>, Mac), Document("a1", "source", Blocks, <<>>, Linux),
   Document("a1", "broken", <<>>, <<>>, Mac),
   Document("a1", "refused", Blocks,
     <<Sheet("boxes", Wide, Captioned(1, {"result"}), "clean"),
       Sheet("boxes", Column, Captioned(2, System), "clean")>>, Mac),
   Document("", "source", <<>>,
     <<Sheet("boxes", Tabled, Captioned(3, {"system"}), "clean"),
       Sheet("boxes", Spoken, Captioned(2, System), "clean"),
       Sheet("boxes", Drawn, Captioned(1, System), "clipped")>>, Linux),
   Document("", "source", <<>>,
     <<Sheet("none", <<>>, Captioned(1, System), "clean"),
       Sheet("boxes", Tables, Captioned(1, System), "clean")>>, Linux),
   Document("", "source", <<>>,
     <<Sheet("boxes", Wide, Captioned(1, System), "clean"),
       Sheet("error", Wide, Captioned(1, {"system"}), "error")>>, Mac),
   [Document("a1", "source", Blocks, <<>>, Mac) EXCEPT !.astray = TRUE],
   [Document("a1", "source", Blocks, <<>>, Mac) EXCEPT !.stored = FALSE]}
====
