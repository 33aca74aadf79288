------------------------------ MODULE TaskRoutes ------------------------------
(***************************************************************************)
(* Which provider and which model a task of a run is given                 *)
(* (analysis/routing.py, application/daily.py), and what building the      *)
(* provider may refuse.                                                    *)
(*                                                                         *)
(* A configuration is [routes, providers]: a provider is [kind, url, key,  *)
(* command], where "null" is what is not set.  What the caller overrides   *)
(* is [provider, model, deepseek, tasks]: tasks gives a task its own       *)
(* provider and model.                                                     *)
(***************************************************************************)
EXTENDS EngineRequest

NoOverrides == [provider |-> "", model |-> "", deepseek |-> "", tasks |-> <<>>]

Overridden(over, task) ==
  IF task \in DOMAIN over.tasks THEN over.tasks[task] ELSE [provider |-> "", model |-> ""]

\* The first of these that is set.
FirstOf(names) ==
  LET given == SelectSeq(names, LAMBDA n : n # "") IN IF given = <<>> THEN "" ELSE given[1]

WithDefaultModel ==
  {"deepseek", "xiaomi", "openai", "anthropic", "codex", "claude", "von_claude", "local"}

TaskModelForProvider(config, task, provider) ==
  IF task \in DOMAIN config.routes /\ config.routes[task].provider = provider
  THEN config.routes[task].model
  ELSE IF provider \in WithDefaultModel THEN "default" ELSE ""

Unrouted == [ok |-> FALSE, provider |-> "", model |-> ""]

\* _replacement_provider: DeepSeek's tasks can be moved to another provider.
Replacement(over, provider) ==
  IF over.deepseek # "" /\ provider = "deepseek" THEN over.deepseek ELSE provider

\* Who a task goes to: its own override, the override for every task, the
\* configured route, or nobody.
ProviderOf(config, over, task) ==
  FirstOf(<<Overridden(over, task).provider, over.provider,
            IF task \in DOMAIN config.routes
            THEN Replacement(over, config.routes[task].provider) ELSE "">>)

RoutePreview(config, over, task, defaultLocal) ==
  LET own      == Overridden(over, task)
      provider == ProviderOf(config, over, task)
      global   == own.provider = "" /\ over.provider # ""
      model    == FirstOf(<<own.model, IF global THEN over.model ELSE "",
                            TaskModelForProvider(config, task, provider)>>)
  IN CASE provider = "" /\ ~defaultLocal -> Unrouted
       [] provider \in {"local"} \cup (IF defaultLocal THEN {""} ELSE {})
            -> [ok |-> TRUE, provider |-> "local", model |-> ""]
       [] OTHER
            -> [ok |-> provider \in DOMAIN config.providers /\ model # "",
                provider |-> provider, model |-> model]

(***************************************************************************)
(* Building: a provider without what its kind needs is an error of the     *)
(* configuration, a command that is not there one of the analysis.         *)
(***************************************************************************)
ByCommand == {"codex_cli", "claude_code_cli"}

Lacks(p) ==
  \/ p.kind = "openai_compatible" /\ (p.url = "null" \/ p.key = "null")
  \/ p.kind = "anthropic_messages" /\ p.key = "null"
  \/ p.kind \in ByCommand /\ p.command = "null"

HealthCheckFails(p) == p.kind \in ByCommand /\ p.command = "missing file"

BuildProvider(p) ==
  CASE Lacks(p)            -> "config_error"
    [] HealthCheckFails(p) -> "analysis_error"
    [] OTHER               -> "built"

\* A route is nobody ("local"), a provider of some kind, or an error.
ResolveRoute(config, over, task, defaultLocal) ==
  LET preview == RoutePreview(config, over, task, defaultLocal)
  IN CASE ~preview.ok                  -> "config_error"
       [] preview.provider = "local"   -> "local"
       [] OTHER ->
            LET p == config.providers[preview.provider]
            IN IF BuildProvider(p) = "built" THEN p.kind ELSE BuildProvider(p)

(***************************************************************************)
(* The routes of a daily run.  Without papers to read there is no reader,  *)
(* without Chinese no translator; the tasks a run can do without fall back *)
(* to nobody when their configuration is wrong, unless it was asked for.   *)
(***************************************************************************)
DailyTasks == <<"source_gist", "deep_reading", "anchor_repair", "verifier", "report_localization">>

OptionalTasks == {"anchor_repair", "report_localization"}

DailyRoute(config, over, task, deepLimit, language) ==
  LET resolved == ResolveRoute(config, over, task, TRUE)
      asked    == Overridden(over, task).provider # "" \/ over.provider # ""
  IN CASE task = "deep_reading" /\ deepLimit = "zero"            -> "local"
       [] task = "report_localization" /\ language # "zh"        -> "local"
       [] task \in OptionalTasks /\ resolved = "config_error" /\ ~asked -> "local"
       [] OTHER -> resolved

RouteError == {"config_error", "analysis_error"}
=============================================================================
