--------------------------- MODULE SourceHistory ---------------------------
(***************************************************************************)
(* The append-only history of what a topic has reported                    *)
(* (storage/source_history.py): the names a source is known by, the rows   *)
(* that a successful outcome appends, the records they fold into, and what *)
(* they make of a source that discovery finds again.                       *)
(*                                                                         *)
(* A source is a record [url, type, arxiv, version, doi, canonical, repo,  *)
(* address, title, ...]: "" is an identifier it does not have, version 0   *)
(* no version, canonical a <<registry, id>> and address the canonical form *)
(* of its url.  A key is a pair <<kind, value>>.                           *)
(***************************************************************************)
EXTENDS Lists

Named(kind, value) == IF value = "" THEN <<>> ELSE << <<kind, value>> >>

\* The first identifier a source has, in the order of their strength.
PrimaryFamilyKey(s) ==
  LET keys == Named("arxiv", s.arxiv) \o Named("doi", s.doi) \o
              (IF s.canonical = <<>> THEN <<>> ELSE <<s.canonical>>) \o
              Named("github", s.repo) \o Named("url", s.address)
  IN IF keys = <<>> THEN <<>> ELSE <<keys[1]>>

WeakKey(key) == key[1] \in {"url", "corpusid", "openalex"}

\* source_family_keys: the title of a paper is stronger than a weak key.
FamilyKeys(s) ==
  LET own   == PrimaryFamilyKey(s)
      title == Named("title", s.title)
  IN IF s.type # "paper" THEN own
     ELSE Sift(own, {k \in ToSet(own) : ~WeakKey(k)}) \o title
          \o Sift(own, {k \in ToSet(own) : WeakKey(k)})

\* source_version: only arXiv identifiers carry one.
SourceVersion(s) == IF s.arxiv = "" THEN 0 ELSE s.version

(***************************************************************************)
(* Rows and records.  A row is [event, keys, version, previous, url, at,   *)
(* outcome]; at is when it was appended.  A record is a row with the       *)
(* versions whose deep reading succeeded.                                  *)
(***************************************************************************)
Field(outcome, name, default) ==
  IF name \in DOMAIN outcome THEN outcome[name] ELSE default

IsSuccessfulOutcome(row) ==
  \/ row.event = "daily_outcome" /\ Field(row.outcome, "daily_included", FALSE)
  \/ row.event = "wechat_draft" /\ Field(row.outcome, "wechat_draft_status", "") = "created"

\* _deep_success_versions of a row as it was written
DeepSuccessVersions(row) ==
  IF /\ Field(row.outcome, "deep_reading_status", "") = "succeeded"
     /\ Field(row.outcome, "publishable_claim_count", 0) > 0
  THEN {row.version} ELSE {}

\* Mutant: only the newest row tells which versions were read.
MergeLatestOutcome(previous, current) ==
  [current EXCEPT !.version = IF @ # 0 THEN @ ELSE previous.version,
     !.keys = Unrepeated(previous.keys \o @), !.outcome = Over(@, previous.outcome)]

\* A row on top of what is known.  Successes are carried along as they were
\* paired with a version, never read off the merged outcome.
MergeOutcomeRecord(previous, current) ==
  [current EXCEPT
     !.successes = @ \cup previous.successes,
     !.version   = IF @ # 0 THEN @ ELSE previous.version,
     !.keys      = Unrepeated(previous.keys \o @),
     !.outcome   = Over(@, previous.outcome)]

RecordOf(row) ==
  [keys |-> Unrepeated(row.keys), version |-> row.version, at |-> row.at,
   outcome |-> row.outcome, successes |-> DeepSuccessVersions(row)]

\* The first of the records, with the others on top of it.
MergeAll(steps) ==
  LET merged[n \in 1 .. Len(steps)] ==
        IF n = 1 THEN steps[1] ELSE MergeOutcomeRecord(merged[n - 1], steps[n])
  IN merged[Len(steps)]

\* The records a row touches become one, oldest first, and all their keys
\* lead to it.
AddRow(records, row) ==
  LET known    == Sift(Unrepeated(row.keys), DOMAIN records)
      touched  == Unrepeated([i \in DOMAIN known |-> records[known[i]]])
      oldFirst == RankedBy(touched, [i \in DOMAIN touched |-> <<-touched[i].at>>])
      resolved == MergeAll(Append(oldFirst, RecordOf(row)))
  IN Over([k \in ToSet(resolved.keys) |-> resolved], records)

LatestRecords(rows) ==
  LET records[n \in 0 .. Len(rows)] ==
        IF n = 0 THEN <<>>
        ELSE IF IsSuccessfulOutcome(rows[n]) THEN AddRow(records[n - 1], rows[n])
        ELSE records[n - 1]
  IN records[Len(rows)]

\* The record under the first key that has one.
PreviousRecord(records, keys) ==
  LET hits == {i \in DOMAIN keys : keys[i] \in DOMAIN records}
  IN IF hits = {} THEN {} ELSE {records[keys[Min(hits)]]}

IsNewerVersion(version, previous) ==
  /\ version # 0 /\ version # previous
  /\ IF previous = 0 THEN version > 1 ELSE version > previous

(***************************************************************************)
(* What the history makes of a source: _annotate_candidate.                *)
(***************************************************************************)
NoHistory == [status |-> "not_tracked", keys |-> <<>>, version |-> 0, previous |-> 0,
              succeeded |-> FALSE]

AnnotateSource(s, records) ==
  LET keys     == FamilyKeys(s)
      found    == PreviousRecord(records, keys)
      version  == SourceVersion(s)
      previous == IF found = {} THEN 0 ELSE (CHOOSE r \in found : TRUE).version
      plain    == [NoHistory EXCEPT !.keys = keys, !.version = version]
  IN CASE ~s.relevant -> [plain EXCEPT !.status = "not_reported"]
       [] s.relevant /\ keys = <<>> -> plain
       [] s.relevant /\ keys # <<>> /\ found = {} -> [plain EXCEPT !.status = "new"]
       [] OTHER ->
            [plain EXCEPT
               !.status    = IF IsNewerVersion(version, previous)
                             THEN "version_update" ELSE "seen",
               !.previous  = previous,
               !.succeeded = \E r \in found :
                 (IF version # 0 THEN version ELSE previous) \in r.successes]

\* is_reportable_source, is_deep_read_eligible
IsReportable(history) == history.status \in {"new", "version_update", "not_tracked"}

IsDeepReadEligible(history) ==
  /\ ~history.succeeded
  /\ IsReportable(history) \/ history.status = "seen"

\* _outcome_row: the daily run looks the source up once more, so that a row
\* carries every key its record has.
OutcomeRow(s, records, at, outcome) ==
  LET keys     == FamilyKeys(s)
      found    == PreviousRecord(records, keys)
      previous == IF found = {} THEN 0 ELSE (CHOOSE r \in found : TRUE).version
      known    == IF found = {} THEN <<>> ELSE (CHOOSE r \in found : TRUE).keys
  IN [event |-> "daily_outcome", keys |-> Unrepeated(keys \o known), url |-> s.url,
      version |-> IF SourceVersion(s) # 0 THEN SourceVersion(s) ELSE previous,
      at |-> at, outcome |-> outcome]

\* _outcome_record: the WeChat draft writes what the run's sources.jsonl
\* says of the source.
OutcomeRecord(s, history, at, outcome) ==
  [event |-> "wechat_draft", keys |-> history.keys, url |-> s.url,
   version |-> history.version, at |-> at, outcome |-> outcome]
=============================================================================
