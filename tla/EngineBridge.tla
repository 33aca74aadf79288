---------------------------- MODULE EngineBridge ----------------------------
(***************************************************************************)
(* One engine process (app_bridge/runner.py, handlers.py, events.py): it   *)
(* reads its request, does what it asks, and leaves one terminal artifact, *)
(* result.json or error.json.  Beside its main thread run the signal       *)
(* handler, which sets a flag, and the thread that waits for the end of    *)
(* the App; the supervisor may kill the process at any time.  Another      *)
(* process uses the cache of the models.                                   *)
(***************************************************************************)
EXTENDS TaskRoutes, ModelCalls

CONSTANT Jobs  \* [request, config, dir, helper]: what the App may start an engine with

ASSUME EngineAssumption == "engine" \in Caller

VARIABLES
  job,         \* what this engine was started with
  engine,      \* [pc, work, exc, code, effects]: the main thread
  watcher,     \* where the parent-exit watch has got to
  lost,        \* parent_lost
  session,     \* session_established
  disk,        \* [result, error]: the terminal artifacts
  world        \* [parent, signalled]: does the App live, was a signal sent

engineVars == <<job, engine, watcher, lost, session, disk, world>>
vars == <<engineVars, callVars>>

Me == "engine"

Init ==
  /\ CallsInit
  /\ job \in Jobs
  /\ engine = [pc |-> "load", work |-> <<>>, exc |-> "none", code |-> "none", effects |-> {}]
  /\ watcher = "off" /\ lost = FALSE /\ session = FALSE
  /\ disk = [result |-> "none", error |-> "none"]
  /\ world = [parent |-> TRUE, signalled |-> FALSE]

CommandOf == job.request.fields.command
Payload   == job.request.payload

To(pc)     == engine' = [engine EXCEPT !.pc = pc]
Raise(exc) == engine' = [engine EXCEPT !.pc = "raised", !.exc = exc, !.work = <<>>]

(***************************************************************************)
(* What a request makes the engine do, step by step.                       *)
(***************************************************************************)
Research == [routes |-> TaskRouteOf(job.config), providers |-> ModelProviders(job.config)]

AskStep(task, kind, cached) ==
  [do |-> "ask", task |-> task, api |-> kind = "openai_compatible", cached |-> cached]
Do(what) == [do |-> what, task |-> "", api |-> FALSE, cached |-> FALSE]

\* _configured_route_checks: each route once, built or not.
Probes ==
  LET tasks  == SetToSeq(DOMAIN Research.routes)
      kind(t) == ResolveRoute(Research, NoOverrides, t, FALSE)
      asked  == SelectSeq(tasks, LAMBDA t : kind(t) \notin RouteError \cup {"local"})
  IN [i \in DOMAIN asked |-> AskStep(asked[i], kind(asked[i]), FALSE)]

DailyKind(task) ==
  DailyRoute(Research, NoOverrides, task, Payload.deep_limit, Payload.language)

DailyAsk(task) ==
  IF DailyKind(task) \in RouteError \cup {"local"} THEN <<>>
  ELSE <<AskStep(task, DailyKind(task), Payload.model_cache = "true")>>

DailyAsks ==
  DailyAsk("source_gist") \o DailyAsk("deep_reading") \o DailyAsk("anchor_repair")
    \o DailyAsk("verifier") \o DailyAsk("report_localization")

Work ==
  CASE CommandOf = "preflight" ->
         IF Payload.live_probe = "true" THEN Probes \o <<Do("search")>> ELSE <<>>
    [] CommandOf = "bootstrap_topic" ->
         <<Do("event"),
           AskStep("topic_bootstrap",
                   ResolveRoute(Research, NoOverrides, "topic_bootstrap", FALSE), FALSE),
           Do("draft")>>
    [] CommandOf = "run_daily"           -> DailyAsks \o <<Do("report")>>
    [] CommandOf = "upload_wechat_cover" -> <<Do("check"), Do("event"), Do("check"), Do("upload")>>
    [] CommandOf = "retry_delivery"      -> <<Do("deliver")>>

\* Refused without any work: a route that cannot be built, a report in
\* Chinese that nobody would translate, a command or a helper that is not
\* there, a channel that is off.
CodexMissing ==
  \E t \in DOMAIN Research.routes \ {"topic_bootstrap"} :
    LET p == Research.providers[Research.routes[t].provider]
    IN p.kind = "codex_cli" /\ p.command # "text"

RunRefused ==
  \/ Payload.topic_id = "unknown topic"
  \/ \E i \in DOMAIN DailyTasks : DailyKind(DailyTasks[i]) \in RouteError
  \/ Payload.language = "zh" /\ DailyKind("report_localization") = "local"

DailyRefusal ==
  CASE CodexMissing                                        -> "codex_not_configured"
    [] ~CodexMissing /\ job.helper # "executable"          -> "value"
    [] ~CodexMissing /\ job.helper = "executable"
         /\ RunRefused                                      -> "radar"
    [] OTHER                                               -> "none"

Refusal ==
  CASE CommandOf = "run_daily" -> DailyRefusal
    [] CommandOf = "bootstrap_topic" ->
         IF ResolveRoute(Research, NoOverrides, "topic_bootstrap", FALSE) \in RouteError
         THEN "radar" ELSE "none"
    [] CommandOf = "retry_delivery" ->
         IF (IF Payload.channel = "wechat" THEN job.config.wechat ELSE job.config.email).enabled
              = "false"
         THEN "value" ELSE "none"
    [] OTHER -> "none"

(***************************************************************************)
(* The main thread, up to its handler.                                     *)
(***************************************************************************)
Load ==
  /\ engine.pc = "load"
  /\ IF LoadRequest(job.request, job.dir) THEN To("watch") ELSE Raise("protocol")
  /\ UNCHANGED <<job, watcher, lost, session, disk, world, callVars>>

\* The watch cannot be set on a parent that is gone.
StartWatcher ==
  /\ engine.pc = "watch"
  /\ IF world.parent THEN watcher' = "armed" /\ To("session")
     ELSE UNCHANGED watcher /\ Raise("system")
  /\ UNCHANGED <<job, lost, session, disk, world, callVars>>

EstablishSession ==
  /\ engine.pc = "session"
  /\ \/ session' = TRUE /\ To("start")
     \/ UNCHANGED session /\ Raise("system")
  /\ UNCHANGED <<job, watcher, lost, disk, world, callVars>>

\* The first event, which may fail to be written, then the flag.
Start ==
  /\ engine.pc = "start"
  /\ \/ Raise("system")
     \/ IF stop[Me] THEN Raise("cancelled") ELSE To("configure")
  /\ UNCHANGED <<job, watcher, lost, session, disk, world, callVars>>

\* The configuration, the date of a report, and what the handler refuses.
Configure ==
  LET configured == ConfigWanted(job.request) \/ job.request.fields.config_path # "null"
      late       == CommandOf = "run_daily" /\ Payload.report_date # "today"
  IN /\ engine.pc = "configure"
     /\ IF configured /\ ~LoadAppConfiguration(job.config, RequiresTopics(job.request))
        THEN Raise("config")
        ELSE IF late THEN Raise("invalid_report_date")
        ELSE IF Refusal # "none" THEN Raise(Refusal)
        ELSE engine' = [engine EXCEPT !.pc = "work", !.work = Work]
     /\ UNCHANGED <<job, watcher, lost, session, disk, world, callVars>>

(***************************************************************************)
(* The handlers.                                                           *)
(***************************************************************************)
Working(what) == engine.pc = "work" /\ engine.work # <<>> /\ Head(engine.work).do = what

StepDone == engine' = [engine EXCEPT !.work = Tail(@)]
Effect(what) == engine' = [engine EXCEPT !.work = Tail(@), !.effects = @ \cup {what}]

CallModel ==
  /\ Working("ask") /\ call[Me].pc = "idle"
  /\ LET ask == Head(engine.work) IN Ask(Me, ask.task, ask.api, ask.cached)
  /\ UNCHANGED engineVars

\* A run may find nothing to ask about.
NothingToAsk ==
  /\ Working("ask") /\ call[Me].pc = "idle" /\ CommandOf = "run_daily"
  /\ StepDone
  /\ UNCHANGED <<job, watcher, lost, session, disk, world, callVars>>

\* Whose failure the run, or the check of the routes, survives.  A torn entry
\* of the cache is no failure of a model, and neither is a cancellation.
Kept(task) == CommandOf = "preflight" \/ task \in {"deep_reading", "anchor_repair"}

Failure == {"error", "transport", "interrupted", "retry_exhausted"}

ModelAnswers ==
  /\ Working("ask") /\ call[Me].pc = "done"
  /\ LET out  == call[Me].out
         task == Head(engine.work).task
     IN CASE out = "answer"      -> StepDone
          [] out = "value_error" -> Raise("value")
          [] out = "cancelled"   -> Raise("cancelled")
          [] out \in Failure     ->
               IF Kept(task) THEN StepDone
               ELSE Raise(IF out = "error" \/ task = "report_localization" THEN "radar" ELSE out)
  /\ Step(Me, [NoCall EXCEPT !.late = call[Me].late])
  /\ UNCHANGED <<job, watcher, lost, session, disk, world, stop, cache>>

CheckFlag ==
  /\ Working("check")
  /\ IF stop[Me] THEN Raise("cancelled") ELSE StepDone
  /\ UNCHANGED <<job, watcher, lost, session, disk, world, callVars>>

WriteEvent ==
  /\ Working("event")
  /\ StepDone \/ Raise("system")
  /\ UNCHANGED <<job, watcher, lost, session, disk, world, callVars>>

\* The probe of the search: its failure is reported, a cancellation is not.
\* Only a Tavily search is probed at all.
SearchProbed ==
  /\ Working("search")
  /\ IF stop[Me] /\ Value(job.config.discovery, "web_search_provider") = "tavily"
     THEN Raise("cancelled") ELSE StepDone
  /\ UNCHANGED <<job, watcher, lost, session, disk, world, callVars>>

\* The draft of a topic, the report of a run: made, or some error.
Produced ==
  /\ \/ Working("draft") /\ (Effect("draft") \/ Raise("radar"))
     \/ Working("report") /\ (Effect("report") \/ \E e \in {"radar", "value", "system"} : Raise(e))
  /\ UNCHANGED <<job, watcher, lost, session, disk, world, callVars>>

\* A cover or a message goes out: it may be refused before, or its answer be
\* lost after it went, or be no JSON.  Nobody looks at the flag meanwhile.
SentOut ==
  /\ \E what \in {"upload", "deliver"} :
       /\ Working(what)
       /\ \/ Effect(what)
          \/ \E e \in {"radar", "value", "system"} : Raise(e)
          \/ \E e \in {"radar", "value", "system"} :
               engine' = [engine EXCEPT !.pc = "raised", !.exc = e, !.work = <<>>,
                                        !.effects = @ \cup {what}]
  /\ UNCHANGED <<job, watcher, lost, session, disk, world, callVars>>

HandlerReturns ==
  /\ engine.pc = "work" /\ engine.work = <<>>
  /\ IF stop[Me] THEN Raise("cancelled") ELSE To("result")
  /\ UNCHANGED <<job, watcher, lost, session, disk, world, callVars>>

(***************************************************************************)
(* The terminal artifacts, written under one lock.  A write that raises    *)
(* may have replaced the file already.                                     *)
(***************************************************************************)
Terminal == disk.result # "none" \/ disk.error # "none"

WriteResultOnce ==
  /\ engine.pc = "result"
  /\ \/ /\ Terminal
        /\ Raise(IF stop[Me] THEN "cancelled" ELSE "system")
        /\ UNCHANGED disk
     \/ /\ ~Terminal
        /\ disk' = [disk EXCEPT !.result = "succeeded"]
        /\ To("completed") \/ Raise("system")
     \/ /\ ~Terminal
        /\ Raise("system")
        /\ UNCHANGED disk
  /\ UNCHANGED <<job, watcher, lost, session, world, callVars>>

WriteCompleted ==
  /\ engine.pc = "completed"
  /\ To("exit") \/ Raise("system")
  /\ UNCHANGED <<job, watcher, lost, session, disk, world, callVars>>

\* The ladder of except clauses.
CodeOf(exc) ==
  CASE exc = "cancelled"                     -> IF lost THEN "parent_lost" ELSE "cancelled"
    [] exc \in {"codex_not_configured", "invalid_report_date"} -> exc
    [] exc = "protocol"                      -> "invalid_request"
    [] exc \in {"config", "value"}           -> "invalid_configuration"
    [] exc = "transport"                     -> "model_transport_failed"
    [] exc = "interrupted"                   -> "model_response_interrupted"
    [] exc = "retry_exhausted"               -> "model_response_retry_exhausted"
    [] exc = "radar" /\ CommandOf = "retry_delivery"      -> "delivery_failed"
    [] exc = "radar" /\ CommandOf = "upload_wechat_cover" -> "cover_upload_failed"
    [] exc = "radar" /\ CommandOf \notin {"retry_delivery", "upload_wechat_cover"}
                                             -> "research_failed"
    [] exc = "system"                        -> "engine_crashed"

\* Mutant: the error replaces what was written before it.
WriteErrorAnyway(code) == disk' = [disk EXCEPT !.error = code]

WriteErrorOnce(code) ==
  IF Terminal THEN UNCHANGED disk ELSE disk' = [disk EXCEPT !.error = code]

\* A write that raises here ends the process without its last event.
WriteError ==
  /\ engine.pc = "raised"
  /\ LET code == CodeOf(engine.exc)
     IN \/ /\ WriteErrorOnce(code)
           /\ engine' = [engine EXCEPT !.code = code, !.pc = "exit"]
        \/ ~Terminal /\ UNCHANGED disk /\ engine' = [engine EXCEPT !.code = code, !.pc = "exit"]
  /\ UNCHANGED <<job, watcher, lost, session, world, callVars>>

\* finally: the watch is closed; one that was woken goes on.
Leave ==
  /\ engine.pc = "exit"
  /\ To("closed")
  /\ watcher' = IF watcher = "armed" THEN "off" ELSE watcher
  /\ UNCHANGED <<job, lost, session, disk, world, callVars>>

(***************************************************************************)
(* The watch of the App: first what happened, then the cancellation, so    *)
(* that the main thread gives the reason.                                  *)
(***************************************************************************)
Alive == engine.pc # "gone"

\* Mutant: the order of the two flags is swapped.
FirstFlagSwapped == stop' = [stop EXCEPT ![Me] = TRUE] /\ UNCHANGED lost

FirstFlag == lost' = TRUE /\ UNCHANGED stop

ParentLost ==
  /\ Alive /\ watcher = "armed" /\ ~world.parent
  /\ watcher' = "told"
  /\ FirstFlag
  /\ UNCHANGED <<job, engine, session, disk, world, call, cache>>

CancelForParent ==
  /\ Alive /\ watcher = "told"
  /\ watcher' = "reporting"
  /\ lost' = TRUE
  /\ stop' = [stop EXCEPT ![Me] = TRUE]
  /\ UNCHANGED <<job, engine, session, disk, world, call, cache>>

\* An error that cannot be written is the end of the thread.
ReportParentLost ==
  /\ Alive /\ watcher = "reporting"
  /\ \/ WriteErrorOnce("parent_lost") /\ watcher' = "terminating"
     \/ ~Terminal /\ UNCHANGED disk /\ watcher' = "off"
     \/ ~Terminal /\ WriteErrorOnce("parent_lost") /\ watcher' = "off"
  /\ UNCHANGED <<job, engine, lost, session, world, callVars>>

\* TERM to the group, or to the process alone when it has none of its own:
\* where the handlers are still installed it only sets the flag again.
TerminateGroup ==
  /\ Alive /\ watcher = "terminating"
  /\ watcher' = "killing"
  /\ IF engine.pc = "closed" THEN To("gone") ELSE UNCHANGED engine
  /\ UNCHANGED <<job, lost, session, disk, world, callVars>>

End ==
  /\ engine' = [engine EXCEPT !.pc = "gone", !.work = <<>>]
  /\ CallerDies(Me)
  /\ UNCHANGED <<job, watcher, lost, session, disk, stop, cache>>

KillGroup ==
  /\ Alive /\ watcher = "killing"
  /\ End
  /\ UNCHANGED world

(***************************************************************************)
(* The rest of the world.                                                  *)
(***************************************************************************)
AppDies ==
  /\ world.parent
  /\ world' = [world EXCEPT !.parent = FALSE]
  /\ UNCHANGED <<job, engine, watcher, lost, session, disk, callVars>>

\* The supervisor asks the engine to stop; before the handlers are installed
\* and after they are removed the signal is the end of it.
Signal ==
  /\ Alive /\ world.parent /\ ~world.signalled
  /\ IF engine.pc \in {"load", "closed"}
     THEN /\ End
          /\ world' = [world EXCEPT !.signalled = TRUE]
     ELSE /\ stop' = [stop EXCEPT ![Me] = TRUE]
          /\ world' = [world EXCEPT !.signalled = TRUE]
          /\ UNCHANGED <<job, engine, watcher, lost, session, disk, call, cache>>

Kill ==
  /\ Alive /\ world.parent
  /\ End
  /\ UNCHANGED world

\* Another process asks through the same cache, and may end at any time.
OtherAsks(c, key, api) ==
  /\ c # Me
  /\ Ask(c, key, api, TRUE)
  /\ UNCHANGED engineVars

OtherEnds(c) ==
  /\ c # Me /\ call[c].pc # "gone"
  /\ CallerDies(c)
  /\ UNCHANGED <<engineVars, stop, cache>>

Calls(c) == CallStep(c) /\ UNCHANGED engineVars

Main ==
  \/ Load \/ StartWatcher \/ EstablishSession \/ Start \/ Configure
  \/ CallModel \/ NothingToAsk \/ ModelAnswers \/ CheckFlag \/ WriteEvent
  \/ SearchProbed \/ Produced \/ SentOut \/ HandlerReturns
  \/ WriteResultOnce \/ WriteCompleted \/ WriteError \/ Leave

Next ==
  \/ Main
  \/ ParentLost \/ CancelForParent \/ ReportParentLost \/ TerminateGroup \/ KillGroup
  \/ AppDies \/ Signal \/ Kill
  \/ \E c \in Caller :
       \/ Calls(c) \/ OtherEnds(c)
       \/ \E key \in Key, api \in BOOLEAN : OtherAsks(c, key, api)

Spec == Init /\ [][Next]_vars
-----------------------------------------------------------------------------
\* Whatever the handler, the signals, the end of the App and failing writes
\* do to each other, there is one terminal artifact, and it stays.
OneTerminal ==
  [][ /\ ~(disk'.result # "none" /\ disk'.error # "none")
      /\ Terminal => disk' = disk ]_vars

\* What the terminal artifact says is so: a success for work that was done, a
\* lost App for one that is gone, and a cancellation for a signal.
TerminalEarned ==
  /\ disk.result # "none" =>
       CASE CommandOf = "run_daily"           -> "report" \in engine.effects
         [] CommandOf = "bootstrap_topic"     -> "draft" \in engine.effects
         [] CommandOf = "upload_wechat_cover" -> "upload" \in engine.effects
         [] CommandOf = "retry_delivery"      -> "deliver" \in engine.effects
         [] OTHER                             -> TRUE
  /\ disk.error = "parent_lost" => ~world.parent
  /\ disk.error = "cancelled" => world.signalled
=============================================================================
