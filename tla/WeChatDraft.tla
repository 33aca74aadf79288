----------------------------- MODULE WeChatDraft -----------------------------
(***************************************************************************)
(* Creating a draft of a report at WeChat (application/wechat.py,          *)
(* publishers/wechat/client.py, storage/encrypted_store.py).  The access   *)
(* token is kept per run directory; a newer one, fetched for another       *)
(* directory, may void it at the service while it still looks valid.       *)
(* Nothing in the run directory keeps a second command from a second       *)
(* draft.                                                                  *)
(***************************************************************************)
EXTENDS RunDirectory

CONSTANTS
  Drafter,    \* processes that create drafts
  Images      \* local figures of a report

ASSUME ImagesAssumption == Images \in Nat

VARIABLES
  drafter,    \* process -> the command it runs
  token,      \* report -> the cached token
  drafts,     \* report -> drafts at WeChat
  published   \* report -> the status in publish_wechat_draft.json

draftVars == <<drafter, token, drafts, published>>

\* exit is the status of the process once it has ended.
NoDrafter == [pc |-> "idle", report |-> "", dry |-> FALSE, uploads |-> 0, exit |-> "none"]

DraftInit ==
  /\ drafter = [d \in Drafter |-> NoDrafter]
  /\ token = [r \in Report |-> "none"]
  /\ drafts = [r \in Report |-> 0]
  /\ published = [r \in Report |-> "none"]

DrafterAt(d, pc) == drafter[d].pc = pc
DrafterGoes(d, pc) == drafter' = [drafter EXCEPT ![d].pc = pc]
Exits(d, status) == drafter' = [drafter EXCEPT ![d].pc = "ended", ![d].exit = status]
Keeps(d, status) == published' = [published EXCEPT ![drafter[d].report] = status]

\* A failure of ResearchRadar's own kind also leaves publish_error.json; any
\* other, as an answer that is no JSON, leaves nothing.
DraftFails(d) == Exits(d, "failed") /\ UNCHANGED published

\* The command d, just started, on a run directory.
Drafting(d, report, dry) ==
  [NoDrafter EXCEPT !.pc = "load", !.report = report, !.dry = dry, !.uploads = Images]

LoadDraft(d) ==
  /\ DrafterAt(d, "load")
  /\ \/ DraftFails(d)
     \/ drafter[d].dry /\ Exits(d, "done") /\ Keeps(d, "dry_run")
     \/ ~drafter[d].dry /\ DrafterGoes(d, IF Images > 0 THEN "token" ELSE "render")
        /\ UNCHANGED published
  /\ UNCHANGED <<token, drafts>>

NextRequest(d) == IF drafter[d].uploads > 0 THEN "upload" ELSE "add"

\* Before every request: the cached token unless it has run out, or a new one,
\* which is cached and may void those of other directories.
GetAccessToken(d) ==
  LET report == drafter[d].report
  IN /\ DrafterAt(d, "token")
     /\ \/ /\ token[report] \in {"live", "void"}
           /\ DrafterGoes(d, NextRequest(d))
           /\ UNCHANGED <<token, published>>
        \/ /\ token[report] \in {"none", "run out"}
           /\ DrafterGoes(d, NextRequest(d))
           /\ \E voided \in SUBSET {r \in Report \ {report} : token[r] = "live"} :
                token' = [r \in Report |-> IF r = report THEN "live"
                                           ELSE IF r \in voided THEN "void" ELSE token[r]]
           /\ UNCHANGED published
        \/ DraftFails(d) /\ UNCHANGED token
     /\ UNCHANGED drafts

\* One image; the request is refused with a void token.
UploadArticleImage(d) ==
  /\ DrafterAt(d, "upload")
  /\ \/ /\ token[drafter[d].report] # "void"
        /\ drafter' = [drafter EXCEPT ![d].uploads = @ - 1,
                                      ![d].pc = IF drafter[d].uploads > 1 THEN "token" ELSE "render"]
        /\ UNCHANGED published
     \/ DraftFails(d)
  /\ UNCHANGED <<token, drafts>>

\* The page is written and checked, and the request recorded.
RenderDraft(d) ==
  /\ DrafterAt(d, "render")
  /\ DrafterGoes(d, "token") \/ Exits(d, "failed")
  /\ UNCHANGED <<token, drafts, published>>

\* The draft is created and the answer read; created and the answer lost; or
\* refused.
AddDraft(d) ==
  LET report == drafter[d].report
  IN /\ DrafterAt(d, "add")
     /\ \/ /\ token[report] # "void"
           /\ drafts' = [drafts EXCEPT ![report] = @ + 1]
           /\ \/ DrafterGoes(d, "result") /\ UNCHANGED published
              \/ DraftFails(d)
        \/ DraftFails(d) /\ UNCHANGED drafts
     /\ UNCHANGED token

\* The source history is told as well as can be; only then the result is
\* written.
WriteDraftResult(d) ==
  /\ DrafterAt(d, "result")
  /\ (Exits(d, "done") /\ Keeps(d, "created")) \/ DraftFails(d)
  /\ UNCHANGED <<token, drafts>>

TokenRunsOut(report) ==
  /\ token[report] \in {"live", "void"}
  /\ token' = [token EXCEPT ![report] = "run out"]
  /\ UNCHANGED <<drafter, drafts, published>>

DraftStep(d) ==
  \/ LoadDraft(d) \/ GetAccessToken(d) \/ UploadArticleImage(d) \/ RenderDraft(d) \/ AddDraft(d)
  \/ WriteDraftResult(d)
=============================================================================
