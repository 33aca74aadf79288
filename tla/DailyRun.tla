------------------------------ MODULE DailyRun ------------------------------
(***************************************************************************)
(* The daily run of one topic (pipeline/daily.py, storage/source_history.py, *)
(* compose/draft.py) and the WeChat draft made from it                     *)
(* (application/wechat.py).  The runs share nothing but the history file:  *)
(* they follow one another, or overlap when the App, a schedule and a user *)
(* start them together.  What a model, a server or the disk does is an     *)
(* input: every request may fail and every write may be cut short.         *)
(***************************************************************************)
EXTENDS Discovery, EvidenceReview, Ingestion

CONSTANTS
  Run,         \* identities of the runs
  Worlds,      \* what the servers may answer to a discovery
  Documents,   \* the texts they may have for a source
  DeepLimit,   \* papers to read, 0 without a reader
  Chinese      \* the report is localized

ASSUME DailyAssumption == DeepLimit \in Nat /\ Chinese \in BOOLEAN

ASSUME WorldsAssumption == \A w \in Worlds : IsList(FoundSources(w))

\* A version is read off an arXiv identifier, and that off the address unless
\* the index gives another: no two of them disagree on an address.
ASSUME AddressAssumption ==
  \A v, w \in Worlds : \A s \in ToSet(FoundSources(v)), t \in ToSet(FoundSources(w)) :
    s.url = t.url /\ SourceVersion(s) # 0 => t.arxiv = s.arxiv

VARIABLES
  history,     \* [rows, torn]: the file, and whether its last line is cut
  run          \* run -> what it holds

vars == <<history, run>>

Idle ==
  [stage |-> "idle", found |-> <<>>, warned |-> FALSE, unanswered |-> {}, base |-> 0, notes |-> <<>>,
   dedupe |-> <<>>, families |-> <<>>, pool |-> <<>>, eligible |-> 0, statuses |-> <<>>,
   read |-> <<>>, counts |-> <<>>, listed |-> <<>>, entries |-> {}, seen |-> {}, article |-> {},
   verdict |-> "none"]

Init == history = [rows |-> <<>>, torn |-> FALSE] /\ run = [r \in Run |-> Idle]

Set(r, held) == run' = [run EXCEPT ![r] = held]

\* A run that raises leaves its directory behind and nothing else.
Fail(r) == Set(r, [Idle EXCEPT !.stage = "failed"])

Intent == Topic.intent

\* What a discovery may bring: a connector that fails is a warning, and the
\* others are asked.
Discoveries == {DiscoverSources(w) : w \in Worlds}

Discover(r, d) ==
  /\ run[r].stage = "idle"
  /\ Set(r, [Idle EXCEPT !.stage = "discovered", !.found = d.sources, !.warned = d.failed,
                         !.unanswered = d.unanswered])
  /\ UNCHANGED history

\* An answer that is neither XML nor JSON raises past the connectors that
\* only expect errors of the network, and so does a cancellation.
DiscoveryRaises(r) ==
  /\ run[r].stage = "idle"
  /\ Fail(r)
  /\ UNCHANGED history

(***************************************************************************)
(* The history is read once, before anything is selected; a torn line      *)
(* raises.                                                                 *)
(***************************************************************************)
Relevant(sources) == Sift(sources, {s \in ToSet(sources) : s.relevant})

ReportableAmong(h, sources) ==
  Sift(sources, {s \in ToSet(sources) :
    s.relevant /\ IsReportable(h.notes[s]) /\ PassesReportGate(s, Intent)})

\* The candidates of an address are replaced by what is to be listed of it.
Candidates(h) == ReplaceCandidates(h.found, ReportableAmong(h, h.found))

Reportable(h) == ReportableAmong(h, Candidates(h))

\* Listing history must not prevent the first successful deep read.
SelectionCandidates(h) ==
  Sift(Candidates(h), {s \in ToSet(Candidates(h)) :
    /\ s.relevant /\ PassesReportGate(s, Intent)
    /\ IsReportable(h.notes[s]) \/ IsDeepReadEligible(h.notes[s])})

\* What sources.jsonl tells of.
ToldCandidates(h) == ReplaceCandidates(Candidates(h), SelectionCandidates(h))

\* The ranking, what is to be listed first.
DeepCandidatePool(h) ==
  LET chosen == SelectionCandidates(h)
      ranked == RankedDeepCandidates(
                  Sift(chosen, {s \in ToSet(chosen) : IsDeepReadEligible(h.notes[s])}), Intent)
      new    == {s \in ToSet(ranked) : IsReportable(h.notes[s])}
  IN Sift(ranked, new) \o Sift(ranked, ToSet(ranked) \ new)

\* Annotating, the report gate, the marking of families among what is new,
\* lest a retry of a source that was seen suppresses a new version in the list,
\* and once more among all that may be read.
Selecting(held, rows) ==
  LET records == LatestRecords(rows)
      noted   == [held EXCEPT !.stage = "selecting", !.base = Len(rows),
                    !.notes = [s \in ToSet(held.found) |-> AnnotateSource(s, records)]]
      dedupe  == DedupeMetadata(RankedDeepCandidates(ReportableAmong(noted, noted.found), Intent))
      again   == DedupeMetadata(RankedDeepCandidates(SelectionCandidates(noted), Intent))
      pool    == IF DeepLimit > 0 THEN DeepCandidatePool(noted) ELSE <<>>
  IN [noted EXCEPT !.dedupe = dedupe, !.families = Over(again, dedupe), !.pool = pool,
                   !.eligible = Len(pool)]

Annotate(r) ==
  /\ run[r].stage = "discovered"
  /\ IF history.torn THEN Fail(r) ELSE Set(r, Selecting(run[r], history.rows))
  /\ UNCHANGED history

\* A request for source gists that fails raises, and so does whatever a
\* source's server, the disk or a reader makes go wrong in an unforeseen way.
SelectionRaises(r) ==
  /\ run[r].stage = "selecting"
  /\ Fail(r)
  /\ UNCHANGED history

(***************************************************************************)
(* One candidate after the other until DeepLimit of them are read.         *)
(***************************************************************************)
ReadsOn(h) == h.stage = "selecting" /\ h.pool # <<>> /\ Len(h.read) < DeepLimit

\* deep_selection_dedupe, which is looked up by address
FamilyOf(h, url) ==
  IF url \in DOMAIN h.families THEN h.families[url] ELSE [keys |-> {}, status |-> "none"]

FamilyRead(h, s) ==
  \E t \in ToSet(h.read) : FamilyOf(h, t.url).keys \cap FamilyOf(h, s.url).keys # {}

\* deep_reading_status_by_url
WithStatus(h, url, status) == Over([u \in {url} |-> status], h.statuses)

SkipDuplicate(r) ==
  /\ ReadsOn(run[r])
  /\ LET s == Head(run[r].pool)
     IN /\ FamilyRead(run[r], s)
        /\ Set(r, [run[r] EXCEPT !.pool = Tail(@),
                     !.statuses = WithStatus(run[r], s.url, "deduped_duplicate")])
  /\ UNCHANGED history

\* The document has to be there and whole, and the reader has to succeed.
ReadFails(r, doc, reads) ==
  /\ ReadsOn(run[r])
  /\ LET s      == Head(run[r].pool)
         got    == IngestionStatus(s, doc, Intent)
         status == IF got = "ingested" THEN "reading_failed" ELSE got
     IN /\ ~FamilyRead(run[r], s)
        /\ got = "ingested" => ~reads
        /\ Set(r, [run[r] EXCEPT !.pool = Tail(@), !.statuses = WithStatus(run[r], s.url, status)])
  /\ UNCHANGED history

ReadSucceeds(r, doc) ==
  /\ ReadsOn(run[r])
  /\ LET s == Head(run[r].pool)
     IN /\ ~FamilyRead(run[r], s)
        /\ IngestionStatus(s, doc, Intent) = "ingested"
        /\ Set(r, [run[r] EXCEPT !.pool = Tail(@), !.read = Append(@, s),
                                 !.statuses = WithStatus(run[r], s.url, "succeeded")])
  /\ UNCHANGED history

(***************************************************************************)
(* Claims, verdict and report.                                             *)
(***************************************************************************)
SelectionOver(h) == h.stage = "selecting" /\ ~ReadsOn(h)

\* _mark_successful_duplicate_statuses
MarkedStatuses(h) ==
  LET marked == {s.url : s \in {t \in ToSet(SelectionCandidates(h)) :
                   FamilyOf(h, t.url).status = "duplicate" /\ FamilyRead(h, t)}}
  IN IF DeepLimit > 0 THEN Over(h.statuses, [url \in marked |-> "deduped_duplicate"])
     ELSE h.statuses

\* _deep_read_entries: the papers with a claim of theirs, or of a paper of
\* the same title, that is publishable.
DeepEntries(h) ==
  {s.url : s \in {t \in ToSet(h.read) :
     \E u \in ToSet(h.read) : h.counts[u.url] > 0 /\ (u.url = t.url \/ u.title = t.title)}}

\* counts: how many claims of each paper are publishable in the end.
Review(r, counts, reviewed) ==
  /\ SelectionOver(run[r])
  /\ counts \in [Urls(run[r].read) -> 0 .. 1]
  /\ (\E url \in DOMAIN counts : counts[url] > 0) => reviewed
  /\ run[r].read = <<>> => ~reviewed
  /\ LET h == [run[r] EXCEPT !.stage = "reviewed", !.pool = <<>>, !.families = <<>>,
                             !.counts = counts,
                             !.statuses = MarkedStatuses(run[r])]
         publishable == Cardinality({url \in DOMAIN counts : counts[url] > 0})
         verdict == AssessResearchOutcome(
                      [eligible |-> h.eligible, deepRead |-> Cardinality(DeepEntries(h)),
                       publishable |-> publishable, discoveryFailed |-> h.warned,
                       statuses |-> {h.statuses[u] : u \in DOMAIN h.statuses},
                       reviewed |-> IF reviewed THEN 1 ELSE 0])
     IN Set(r, [h EXCEPT !.verdict = IF DeepLimit > 0 THEN verdict.status ELSE "not_deep"])
  /\ UNCHANGED history

VerifierFails(r) ==
  /\ SelectionOver(run[r]) /\ run[r].read # <<>>
  /\ Fail(r)
  /\ UNCHANGED history

\* Without its Chinese copy a Chinese report is not written at all.
LocalizationFails(r) ==
  /\ run[r].stage = "reviewed" /\ Chinese
  /\ Fail(r)
  /\ UNCHANGED history

\* public_deep_sources and seen_sources
PublicDeep(h) == Sift(h.read, {s \in ToSet(h.read) : h.counts[s.url] > 0})

\* Mutant: the other versions of what is read today stay among the seen.
SeenBeforeToday(h) == {s \in ToSet(h.found) : h.notes[s].status = "seen"}

SeenSources(h) ==
  {s \in ToSet(h.found) :
     /\ h.notes[s].status = "seen"
     /\ ~\E t \in ToSet(PublicDeep(h)) : ToSet(FamilyKeys(t)) \cap ToSet(FamilyKeys(s)) # {}}

ListedSources(h) ==
  SelectPublicReportSources(OnePerUrl(Reportable(h) \o PublicDeep(h)), Urls(h.read), h.dedupe,
                            Intent)

\* The report, from article_draft.json to review_report.md; its article has
\* what is listed, read in depth or was seen before.
Written(h) ==
  LET listed == ListedSources(h)
      seen   == {s.url : s \in SeenSources(h)}
  IN [h EXCEPT !.stage = "written", !.dedupe = <<>>, !.listed = listed, !.entries = DeepEntries(h),
               !.seen = seen, !.article = Urls(listed) \cup DeepEntries(h) \cup seen]

WriteReport(r) ==
  /\ run[r].stage = "reviewed"
  /\ Set(r, Written(run[r]))
  /\ UNCHANGED history

\* A write that raises, or the end of the process.
ReportCut(r) ==
  /\ run[r].stage = "reviewed"
  /\ Fail(r)
  /\ UNCHANGED history

(***************************************************************************)
(* The history, once the report is there.                                  *)
(***************************************************************************)
\* What a row tells of a reading: of the ways not to succeed no reader of the
\* history makes a difference.
Outcome(h, url) ==
  [daily_included |-> TRUE,
   deep_reading_status |-> IF Field(h.statuses, url, "not_selected") = "succeeded"
                           THEN "succeeded" ELSE "not_succeeded",
   publishable_claim_count |-> Field(h.counts, url, 0)]

RowsOf(h, sources) ==
  LET tracked == Sift(sources, {s \in ToSet(sources) : FamilyKeys(s) # <<>>})
  IN [i \in DOMAIN tracked |->
        OutcomeRow(tracked[i], LatestRecords(history.rows), Len(history.rows) + i,
                   Outcome(h, tracked[i].url))]

\* Mutant: the history is told of every source of the run.
RowsOfTheRun(h) == RowsOf(h, h.found)

DailyRows(h) == RowsOf(h, h.listed)

\* What is left of a run whose process is gone, or that has been published.
Article(h, stage) == [Idle EXCEPT !.stage = stage, !.entries = h.entries, !.article = h.article]

\* What is left of a run once its report is written: the article, and what
\* sources.jsonl says of the sources in it.
Report(h, stage) ==
  LET told == Sift(ToldCandidates(h), {s \in ToSet(ToldCandidates(h)) : s.url \in h.article})
  IN [Article(h, stage) EXCEPT !.found = told, !.notes = [s \in ToSet(told) |-> h.notes[s]]]

AppendHistory(r) ==
  /\ run[r].stage = "written" /\ ~history.torn
  /\ history' = [history EXCEPT !.rows = @ \o DailyRows(run[r])]
  /\ Set(r, Report(run[r], "recorded"))

\* An error of the disk is only warned about: nothing may be written, or
\* some of the rows and a part of the next one.
AppendWarned(r, n) ==
  /\ run[r].stage = "written" /\ ~history.torn
  /\ n \in 0 .. Len(DailyRows(run[r])) - 1
  /\ \E cut \in BOOLEAN :
       history' = [rows |-> history.rows \o SubSeq(DailyRows(run[r]), 1, n), torn |-> cut]
  /\ Set(r, Report(run[r], "recorded"))

\* The process ends while it appends.
AppendCut(r, n) ==
  /\ run[r].stage = "written" /\ ~history.torn
  /\ n \in 0 .. Len(DailyRows(run[r])) - 1
  /\ history' = [rows |-> history.rows \o SubSeq(DailyRows(run[r]), 1, n), torn |-> TRUE]
  /\ Set(r, Article(run[r], "failed"))

\* The records are read again before they are appended to, and what is torn
\* by then raises.
AppendRaises(r) ==
  /\ run[r].stage = "written" /\ history.torn
  /\ Set(r, Article(run[r], "failed"))
  /\ UNCHANGED history

\* summary.json and runtime_summary.json are written, or one of them is not.
Finish(r) ==
  /\ run[r].stage = "recorded"
  /\ \/ Set(r, [run[r] EXCEPT !.stage = "done"])
     \/ Set(r, Article(run[r], "failed"))
  /\ UNCHANGED history

(***************************************************************************)
(* A WeChat draft from the run's directory; its rows are appended without  *)
(* looking at the file, and a failure to do so is swallowed.               *)
(***************************************************************************)
DraftRows(h) ==
  LET tracked == Sift(h.found, {s \in ToSet(h.found) : h.notes[s].keys # <<>>})
  IN [i \in DOMAIN tracked |->
        OutcomeRecord(tracked[i], h.notes[tracked[i]], Len(history.rows) + i,
                      [wechat_draft_status |-> "created"])]

HasReport(h) == h.stage = "done"

Drafted(r) == Set(r, Article(run[r], "drafted"))

CreateDraft(r) ==
  /\ HasReport(run[r])
  /\ history' = IF history.torn THEN history
                ELSE [history EXCEPT !.rows = @ \o DraftRows(run[r])]
  /\ Drafted(r)

DraftUnrecorded(r) ==
  /\ HasReport(run[r])
  /\ DraftRows(run[r]) # <<>>
  /\ \E cut \in BOOLEAN : history' = [history EXCEPT !.torn = @ \/ cut]
  /\ Drafted(r)

Next ==
  \E r \in Run :
    \/ \E d \in Discoveries : Discover(r, d)
    \/ DiscoveryRaises(r) \/ Annotate(r) \/ SelectionRaises(r)
    \/ SkipDuplicate(r)
    \/ \E doc \in Documents :
         ReadSucceeds(r, doc) \/ \E reads \in BOOLEAN : ReadFails(r, doc, reads)
    \/ \E counts \in [Urls(run[r].read) -> 0 .. 1], reviewed \in BOOLEAN :
         Review(r, counts, reviewed)
    \/ VerifierFails(r) \/ LocalizationFails(r) \/ WriteReport(r) \/ ReportCut(r)
    \/ AppendHistory(r) \/ AppendRaises(r) \/ Finish(r)
    \/ \E n \in DOMAIN run[r].listed : AppendWarned(r, n - 1) \/ AppendCut(r, n - 1)
    \/ CreateDraft(r) \/ DraftUnrecorded(r)

Spec == Init /\ [][Next]_vars
-----------------------------------------------------------------------------
\* Does a row tell that this very version of a source was read and published?
ReadBefore(row, s) ==
  row.url = s.url /\ DeepSuccessVersions(row) = {SourceVersion(s)}

\* A source that carries its version is not read again once the history a
\* run has read tells that this version was read with publishable claims,
\* however aliases, versions, failures and drafts were merged since.
NotReadTwice ==
  \A r \in Run : \A s \in ToSet(run[r].read) :
    SourceVersion(s) # 0 =>
      ~\E i \in 1 .. run[r].base : ReadBefore(history.rows[i], s)

\* A row in the history speaks of a report that was written: no run that
\* failed before its report, and no source the report does not show,
\* suppresses anything.
HistoryBacked ==
  \A i \in DOMAIN history.rows :
    LET row == history.rows[i]
    IN \E r \in Run :
         /\ row.url \in run[r].article
         /\ DeepSuccessVersions(row) # {} => row.url \in run[r].entries

\* A report calls itself ready only when it shows a paper with a publishable
\* claim, and says there is nothing new only when every request of every
\* connector that counts its failures was answered and every relevant paper
\* it could have read was read before.
VerdictHonest ==
  \A r \in Run :
    /\ run[r].verdict = "ready" =>
         \E url \in Urls(run[r].read) : run[r].counts[url] > 0
    /\ run[r].verdict = "no_new_content" =>
         /\ ~\E c \in run[r].unanswered : CountsFailures(c)
         /\ \A s \in ToSet(CandidatePool(Relevant(Candidates(run[r])), Intent)) :
              run[r].notes[s].succeeded \/ ~PassesReportGate(s, Intent)

\* A brief whose papers have a title and whose addresses are told apart.
Distinguished(h) ==
  /\ Intent = "research_brief"
  /\ \A i, j \in DOMAIN h.found : h.found[i].url = h.found[j].url => i = j
  /\ \A s \in ToSet(h.found) : s.type = "paper" => s.title # ""

\* No paper is shown as read today and as seen before, nor listed as news
\* when it was seen and nothing of it is published.
OncePerReport ==
  \A r \in Run : run[r].stage = "written" =>
    /\ Distinguished(run[r]) => run[r].entries \cap run[r].seen = {}
    /\ \A s \in ToSet(run[r].listed) :
         run[r].notes[s].status = "seen" => s.url \in run[r].entries
=============================================================================
