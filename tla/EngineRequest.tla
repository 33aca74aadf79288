---------------------------- MODULE EngineRequest ----------------------------
(***************************************************************************)
(* What the engine accepts before it does anything: a request of the App   *)
(* (app_bridge/protocol.py) and the App's configuration file               *)
(* (app_bridge/configuration.py, config.py).                               *)
(*                                                                         *)
(* A JSON object is a function from its keys to values.  A value is told   *)
(* by what the checks tell apart: "text" is a string that is not blank,    *)
(* "null" is null, "positive" an integer of at least 1; every value of     *)
(* another type or form is "other".                                        *)
(***************************************************************************)
EXTENDS Integers, SequencesExt

Flag         == {"true", "false"}
OptionalText == {"null", "text"}

\* Every key that is expected, none beside them, and each with a value that
\* is allowed.  An optional key that is absent counts as null.
ConformsUnless(object, allowed, optional) ==
  /\ DOMAIN object \subseteq DOMAIN allowed
  /\ DOMAIN allowed \ DOMAIN object \subseteq optional
  /\ \A key \in DOMAIN object : object[key] \in allowed[key]

Conforms(object, allowed) == ConformsUnless(object, allowed, {})

Value(object, key) == IF key \in DOMAIN object THEN object[key] ELSE "null"

(***************************************************************************)
(* Requests: [readable, secret, fields, payload], secret telling whether   *)
(* any key in it is one of those that carry secrets.                       *)
(***************************************************************************)
Command == {"preflight", "bootstrap_topic", "run_daily", "retry_delivery", "upload_wechat_cover"}

Language == {"en", "zh"}

RequestValues ==
  [schema_version |-> {"1"}, request_id |-> {"the job's"}, command |-> Command,
   created_at |-> {"timestamp"}, app_support_root |-> {"around the job"},
   config_path |-> {"null", "file inside"}]

PayloadValues ==
  [preflight           |-> [live_probe |-> Flag],
   bootstrap_topic     |-> [description |-> {"text"}, language |-> Language],
   upload_wechat_cover |-> [image_path |-> {"regular file of the job"},
                            image_sha256 |-> {"digest"}],
   run_daily           |-> [topic_id |-> {"text", "unknown topic"},
                            report_date |-> {"today", "another day"}, limit |-> {"positive"},
                            deep_limit |-> {"zero", "positive"}, language |-> Language,
                            model_cache |-> Flag,
                            model_cache_limit_bytes |-> {"null", "positive"}],
   retry_delivery      |-> [run_dir |-> {"directory inside"}, channel |-> {"wechat", "email"},
                            allow_resend |-> Flag, acknowledge_unknown_outcome |-> Flag]]

\* A directory of the user's that nobody else can enter.
PrivateDirectory(dir) == dir \in {"private"}

ParsePayload(request) ==
  /\ request.fields.command \in Command
  /\ Conforms(request.payload, PayloadValues[request.fields.command])

\* Only a preflight that calls nobody does without a configuration.
ConfigWanted(request) ==
  ~ /\ request.fields.command = "preflight"
    /\ request.payload.live_probe = "false"

LoadRequest(request, job) ==
  /\ request.readable /\ ~request.secret
  /\ Conforms(request.fields, RequestValues)
  /\ PrivateDirectory(job)
  /\ ParsePayload(request)
  /\ request.fields.config_path = "null" => ~ConfigWanted(request)

(***************************************************************************)
(* Configurations: the sections of the file, each an object or a sequence  *)
(* of objects, and whether the file can be read and names a secret.        *)
(***************************************************************************)
ProviderKind == {"local", "openai_compatible", "anthropic_messages", "codex_cli", "claude_code_cli"}

ProviderValues ==
  [id |-> {"text", "deepseek", "codex", "local"}, kind |-> ProviderKind, base_url |-> OptionalText,
   api_key_secret |-> OptionalText, command_path |-> {"null", "text", "missing file"},
   timeout_seconds |-> {"positive"}, thinking |-> {"null", "enabled", "disabled"},
   reasoning_effort |-> {"null", "none", "minimal", "low", "medium", "high", "xhigh", "max"}]

ProviderOptional == {"base_url", "api_key_secret", "command_path", "thinking", "reasoning_effort"}

\* _provider_reasoning_effort
EffortsOf(kind) ==
  CASE kind = "codex_cli"         -> {"null", "medium", "high", "xhigh"}
    [] kind = "openai_compatible" -> ProviderValues.reasoning_effort
    [] OTHER                      -> {"null"}

ProviderAccepted(p) ==
  /\ ConformsUnless(p, ProviderValues, ProviderOptional)
  /\ Value(p, "thinking") # "null" => p.kind = "openai_compatible"
  /\ Value(p, "reasoning_effort") \in EffortsOf(p.kind)

Distinct(objects, key) ==
  \A i, j \in DOMAIN objects : objects[i][key] = objects[j][key] => i = j

Providers(config) ==
  /\ \A p \in ToSet(config.providers) : ProviderAccepted(p)
  /\ Distinct(config.providers, "id")

Task == {"topic_bootstrap", "source_gist", "deep_reading", "anchor_repair", "verifier",
         "report_localization"}

RouteValues == [task |-> Task, provider_id |-> ProviderValues.id, model |-> {"text"}]

Routes(config) ==
  /\ \A r \in ToSet(config.routes) :
       /\ Conforms(r, RouteValues)
       /\ \E p \in ToSet(config.providers) : p.id = r.provider_id
  /\ Distinct(config.routes, "task")

\* Lists of texts, which may be empty but for the queries and the groups.
TopicValues ==
  LET list == {"texts", "empty"}
  IN [id |-> {"text"}, queries |-> {"texts"}, paper_queries |-> list, web_queries |-> list,
      exclusion_terms |-> list, required_phrases |-> list, negative_phrases |-> list,
      concept_groups |-> {"null", "empty", "named lists of texts"}, priority_sources |-> list,
      source_intent |-> {"research_brief", "implementation_scan"}, report_language |-> Language]

Topics(config, wanted) ==
  /\ wanted => config.topics # <<>>
  /\ \A t \in ToSet(config.topics) : ConformsUnless(t, TopicValues, DOMAIN TopicValues \ {"id", "queries"})

\* The settings of the discovery, which the App may leave to their defaults.
DiscoveryValues ==
  [trusted_domains |-> {"texts", "empty"}, web_search_provider |-> {"null", "generic", "tavily"},
   web_search_secret |-> OptionalText, web_search_endpoint |-> OptionalText,
   web_search_max_results |-> {"positive"},
   web_search_depth |-> {"basic", "advanced", "fast", "ultra-fast"},
   web_search_timeout_seconds |-> {"positive"}]

Discovery(config) ==
  ConformsUnless(config.discovery, DiscoveryValues,
                 {"web_search_provider", "web_search_secret", "web_search_endpoint"})

WeChatValues ==
  [enabled |-> Flag, author |-> OptionalText, thumb_media_id |-> OptionalText,
   app_id_secret |-> {"text"}, app_secret_secret |-> {"text"}]

WeChat(config) == Conforms(config.wechat, WeChatValues)

EmailValues ==
  [enabled |-> Flag, smtp_host |-> OptionalText, smtp_port |-> {"positive"},
   security |-> {"tls", "starttls"}, username |-> OptionalText,
   password_secret |-> OptionalText, from_address |-> OptionalText, to_address |-> OptionalText,
   timeout_seconds |-> {"positive"}]

Email(config) == Conforms(config.email, EmailValues)

LoadAppConfiguration(config, wanted) ==
  /\ config.readable /\ ~config.secret
  /\ ConformsUnless(config.root,
       [schema_version |-> {"1"}, project_name |-> {"text"},
        ui_language |-> {"system", "zh-Hans", "en"},
        ui_appearance |-> {"system", "light", "dark"}, start_at_login |-> Flag,
        workspace_root |-> {"inside App Support"},
        model_cache_limit_bytes |-> {"null", "positive"}],
       {"ui_appearance", "model_cache_limit_bytes"})
  /\ Providers(config) /\ Routes(config) /\ Topics(config, wanted)
  /\ Discovery(config) /\ WeChat(config) /\ Email(config)

\* _load_request_configuration
RequiresTopics(request) == request.fields.command \in {"run_daily", "retry_delivery"}

\* The App's providers beside those that need no entry.
DefaultProviders ==
  LET api(key)     == [kind |-> "openai_compatible", url |-> "text", key |-> key, command |-> "null"]
      line(kind)   == [kind |-> kind, url |-> "null", key |-> "null", command |-> "text"]
  IN [local |-> [kind |-> "local", url |-> "null", key |-> "null", command |-> "null"],
      deepseek |-> api("text"), xiaomi |-> api("text"), openai |-> api("text"),
      anthropic |-> [api("text") EXCEPT !.kind = "anthropic_messages", !.url = "null"],
      codex |-> line("codex_cli"), claude |-> line("claude_code_cli"),
      von_claude |-> line("claude_code_cli")]

ModelProviders(config) ==
  LET own  == {p.id : p \in ToSet(config.providers)}
      of(name) == CHOOSE p \in ToSet(config.providers) : p.id = name
  IN [name \in own \cup DOMAIN DefaultProviders |->
        IF name \in own
        THEN [kind |-> of(name).kind, url |-> Value(of(name), "base_url"),
              key |-> Value(of(name), "api_key_secret"), command |-> Value(of(name), "command_path")]
        ELSE DefaultProviders[name]]

TaskRouteOf(config) ==
  [task \in {r.task : r \in ToSet(config.routes)} |->
     LET r == CHOOSE r \in ToSet(config.routes) : r.task = task
     IN [provider |-> r.provider_id, model |-> r.model]]
=============================================================================
