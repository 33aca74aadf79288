------------------------------ MODULE MCBridge ------------------------------
(***************************************************************************)
(* EngineBridge on a small instance: requests of every command, and some   *)
(* that are wrong in one place.                                            *)
(***************************************************************************)
EXTENDS EngineBridge

Provider(id, kind) ==
  [id |-> id, kind |-> kind, base_url |-> "text", api_key_secret |-> "text",
   command_path |-> "text", timeout_seconds |-> "positive"]
Route(task, id) == [task |-> task, provider_id |-> id, model |-> "text"]

Config ==
  [readable |-> TRUE, secret |-> FALSE,
   root |-> [schema_version |-> "1", project_name |-> "text", ui_language |-> "en",
             start_at_login |-> "true", workspace_root |-> "inside App Support"],
   providers |-> <<Provider("deepseek", "openai_compatible"), Provider("codex", "codex_cli")>>,
   routes |-> <<Route("source_gist", "deepseek"), Route("deep_reading", "deepseek"),
                Route("topic_bootstrap", "codex")>>,
   topics |-> <<[id |-> "text", queries |-> "texts"]>>,
   discovery |-> [trusted_domains |-> "empty", web_search_provider |-> "tavily",
                  web_search_max_results |-> "positive",
                  web_search_depth |-> "basic", web_search_timeout_seconds |-> "positive"],
   wechat |-> [enabled |-> "true", author |-> "null", thumb_media_id |-> "text",
               app_id_secret |-> "text", app_secret_secret |-> "text"],
   email |-> [enabled |-> "false", smtp_host |-> "text", smtp_port |-> "positive",
              security |-> "tls", username |-> "text", password_secret |-> "text",
              from_address |-> "text", to_address |-> "text", timeout_seconds |-> "positive"]]

Fields(command) ==
  [schema_version |-> "1", request_id |-> "the job's", command |-> command,
   created_at |-> "timestamp", app_support_root |-> "around the job",
   config_path |-> "file inside"]
Job(command, payload) ==
  [request |-> [readable |-> TRUE, secret |-> FALSE, fields |-> Fields(command),
                payload |-> payload],
   config |-> Config, dir |-> "private", helper |-> "executable"]

Daily ==
  Job("run_daily",
      [topic_id |-> "text", report_date |-> "today", limit |-> "positive",
       deep_limit |-> "positive", language |-> "en", model_cache |-> "true",
       model_cache_limit_bytes |-> "positive"])
Retry(channel) ==
  Job("retry_delivery", [run_dir |-> "directory inside", channel |-> channel,
                         allow_resend |-> "false", acknowledge_unknown_outcome |-> "false"])
Preflight(live) == Job("preflight", [live_probe |-> live])

MCJobs ==
  {Daily, Preflight("true"), Preflight("false"), Retry("wechat"), Retry("email"),
   Job("bootstrap_topic", [description |-> "text", language |-> "en"]),
   Job("upload_wechat_cover", [image_path |-> "regular file of the job",
                               image_sha256 |-> "digest"]),
   [Daily EXCEPT !.request.payload.limit = "other"],
   [Daily EXCEPT !.request.fields.config_path = "null"],
   [Daily EXCEPT !.request.payload.report_date = "another day"],
   [Daily EXCEPT !.request.payload.language = "zh"],
   [Daily EXCEPT !.config.topics = <<>>],
   [Daily EXCEPT !.config.routes[1].provider_id = "text"],
   [Daily EXCEPT !.config.providers[2].command_path = "missing file",
                 !.config.routes[1].provider_id = "codex"],
   [Daily EXCEPT !.helper = "absent"],
   [Preflight("true") EXCEPT !.config.providers[1].kind = "anthropic_messages",
                             !.config.discovery.web_search_provider = "generic"]}

\* The other process matters where a run uses the cache or has left it: its
\* steps at any other time commute with the engine's.
OtherWhileAsking ==
  \A c \in Caller \ {Me} :
    call'[c] # call[c] => CommandOf = "run_daily" /\ engine.pc \in {"work", "gone"}
=============================================================================
