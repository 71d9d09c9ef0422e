---------------------------- MODULE AdapterConfig ----------------------------
(***************************************************************************)
(* From the `with:` of a step to the command or request of its agent.  The *)
(* configuration of a step is its own `with:` over the one of its role;    *)
(* either may hold templates.  It is validated by the adapter twice: raw,  *)
(* before the run starts (cli/with_guard.go), where an error about a value *)
(* that is still a template is let pass, and rendered, before the launch   *)
(* (engine/local_dispatcher_agent.go).  A react step skips both and hands  *)
(* its raw `with:` to the tool loop of awf/llm.                            *)
(*                                                                         *)
(* A configuration is a function from keys to values, and a value is       *)
(* represented by a member of the class the adapters tell apart.           *)
(***************************************************************************)
EXTENDS Naturals, Sequences, FiniteSets, FiniteSetsExt, TLC

CONSTANTS ConfigAdapters,   \* the adapters configured
          MaxKeys           \* bound: keys besides prompt and model

VARIABLES conf,      \* adapter, role and step configuration, environment, and
                     \* whether some value was only known once rendered, and
                     \* whether the step has evaluator context evidence
          phase,     \* "loaded", "started", "rendered", "accepted", "launched", "looped", "refused", "rejected", "failed"
          verdict,   \* the error that stopped the step
          sent       \* what was launched

configVars == <<conf, phase, verdict, sent>>

Template == "{{}}"
Bare     == {"word", "openai", "gemini", "ollama", "anthropic", "off"}   \* agent.IsBareWord
Str      == Bare \cup {"", "some text", "MY_KEY", "/dir", "read-only", "response_format", "ollama_format", "awf/llm", Template}
Number   == {"n-1", "n0", "n1/2", "n1"}
Integer  == Number \ {"n1/2"}
Bool     == {"true", "false"}
StrList  == {"list", "list0"}       \* "mixed" holds something that is no string
Map      == {"map", "explicit"}     \* "explicit": gemini_cache with mode explicit

Get(with, k) == IF k \in DOMAIN with THEN with[k] ELSE "absent"
NoError == [kind |-> "none", key |-> ""]
Err(kind, key) == [kind |-> kind, key |-> key]
First(errors) == LET bad == {i \in DOMAIN errors : errors[i] # NoError}
                 IN  IF bad = {} THEN NoError ELSE errors[Min(bad)]

(***************************************************************************)
(* The with-schemas.                                                       *)
(***************************************************************************)
IsBareWord == Bare
providerValues == {"openai", "gemini", "ollama", "anthropic"}
structuredOutputValues == {"response_format", "ollama_format", "off"}

claudeKeys == <<"model", "effort", "max_turns", "system_prompt", "allowed_tools", "bare", "max_budget_usd">>
codexKeys  == <<"model", "sandbox", "effort">>
droidKeys  == <<"model", "system_prompt", "effort", "autonomy", "allowed_tools", "disallowed_tools",
                "base_url", "api_key_env", "provider", "tls_insecure">>
gooseKeys  == <<"model", "system_prompt", "max_turns", "provider">>
llmKeys    == <<"base_url", "api_key_env", "system_prompt", "temperature", "max_tokens", "max_inline_bytes",
                "provider", "structured_output", "tls_insecure", "cache_system", "cache_documents", "cache_context",
                "gemini_cache">>
liveKeys   == <<"cwd", "session", "model", "effort", "permission_policy">>
Keys(ad) == CASE ad \in {"claude", "session"} -> claudeKeys
              [] ad = "codex" -> codexKeys
              [] ad = "droid" -> droidKeys
              [] ad = "goose" -> gooseKeys
              [] ad = "llm" -> llmKeys
              [] ad = "live" -> liveKeys

allowedKeys(ad) == {"prompt", "model"} \cup {Keys(ad)[i] : i \in DOMAIN Keys(ad)}
renamedKeys(ad) == IF ad \in {"codex", "droid", "live"} THEN {"reasoning_effort"} ELSE {}
sessionKeysList(ad) == IF ad \in {"claude", "codex", "droid", "goose"} THEN {"session_id"} ELSE {}
\* in the order they are looked for
rejectedList(ad) == CASE ad = "droid" -> <<"api_key">>
                      [] ad = "llm" -> <<"api_key", "session_id", "messages", "tools", "stream">>
                      [] OTHER -> <<>>
rejectedKeys(ad) == {rejectedList(ad)[i] : i \in DOMAIN rejectedList(ad)}

\* The values a key accepts.
Accepted(ad, k) ==
  CASE k \in {"model", "system_prompt", "base_url", "api_key_env"} -> Str
    [] k = "effort" -> IsBareWord
    [] k = "max_turns" -> IF ad = "goose" THEN {"n1"} ELSE Number
    [] k \in {"max_budget_usd", "temperature"} -> Number
    [] k = "max_tokens" -> Integer
    [] k = "max_inline_bytes" -> {"n1"}
    [] k \in {"allowed_tools", "disallowed_tools"} -> StrList
    [] k \in {"bare", "tls_insecure", "cache_system", "cache_documents", "cache_context"} -> Bool
    [] k = "sandbox" -> {"read-only"}
    [] k = "autonomy" -> {"read-only", "word"}
    [] k = "provider" -> CASE ad = "goose" -> Str \ {""} [] ad = "droid" -> Str [] OTHER -> providerValues
    [] k = "structured_output" -> structuredOutputValues
    [] k \in {"gemini_cache", "permission_policy"} -> Map
    [] k = "cwd" -> {"", "/dir"}
    [] k = "session" -> {"", "word"}

requireString(with, k, S) == IF Get(with, k) \in S THEN NoError ELSE Err("value", k)
effectiveProvider(with) ==
  IF Get(with, "provider") \notin {"absent", ""} THEN Get(with, "provider")
  ELSE IF Get(with, "structured_output") = "ollama_format" THEN "ollama" ELSE "openai"
\* The cache keys that are switched on for the wrong provider.
cacheBoolKeys == {"cache_system", "cache_documents", "cache_context"}
wrongProvider(with, k) ==
  \/ k \in cacheBoolKeys /\ Get(with, k) = "true" /\ effectiveProvider(with) # "anthropic"
  \/ k = "gemini_cache" /\ Get(with, k) = "explicit" /\ effectiveProvider(with) # "gemini"
\* Key by key, in the order of the adapter.
KeyTypes(ad, with) ==
  First([i \in DOMAIN Keys(ad) |->
           IF /\ Get(with, Keys(ad)[i]) \in {"absent"} \cup Accepted(ad, Keys(ad)[i])
              /\ ~ (ad = "llm" /\ wrongProvider(with, Keys(ad)[i]))
             THEN NoError ELSE Err("value", Keys(ad)[i])])

(***************************************************************************)
(* The policy of each adapter about its credential.                        *)
(***************************************************************************)
bareOf(with) == Get(with, "bare") # "false"
bareCredentials == {"ANTHROPIC_API_KEY", "ANTHROPIC_AUTH_TOKEN"}   \* either will do
claudePolicy(with, env) ==
  IF bareOf(with) /\ bareCredentials \cap env = {} THEN Err("credential", "") ELSE NoError

\* A custom endpoint: base_url is set.
validateBYOK(with, env) ==
  IF Get(with, "model") \in {"absent", "", "some text"} THEN Err("value", "model")
  ELSE IF Get(with, "api_key_env") \notin env THEN Err("value", "api_key_env")
  ELSE NoError
droidPolicy(with, env) ==
  IF Get(with, "base_url") \notin {"absent", ""} THEN validateBYOK(with, env)
  ELSE IF "FACTORY_API_KEY" \in env THEN NoError ELSE Err("credential", "")

providerAuthKey(p) == CASE p = "anthropic" -> {"ANTHROPIC_API_KEY"} [] p = "openai" -> {"OPENAI_API_KEY"} [] OTHER -> {}
resolveProvider(with, env) ==
  IF Get(with, "provider") \notin {"absent", ""} THEN Get(with, "provider")
  ELSE IF "GOOSE_PROVIDER" \in env THEN "openai" ELSE "absent"
goosePolicy(with, env) == IF providerAuthKey(resolveProvider(with, env)) \subseteq env THEN NoError ELSE Err("credential", "")

providerDefaults(p) == CASE p = "anthropic" -> "ANTHROPIC_API_KEY" [] p = "gemini" -> "GEMINI_API_KEY" [] OTHER -> "OPENAI_API_KEY"
keyName(with) == IF Get(with, "api_key_env") \notin {"absent", ""} THEN Get(with, "api_key_env")
                 ELSE providerDefaults(effectiveProvider(with))
llmPolicy(with, env) ==
  First(<<IF \/ Get(with, "provider") \in providerValues \ {"ollama"} /\ Get(with, "structured_output") = "ollama_format"
             \/ Get(with, "provider") = "anthropic" /\ Get(with, "structured_output") = "response_format"
          THEN Err("value", "structured_output") ELSE NoError,
          IF keyName(with) \notin env /\ effectiveProvider(with) # "ollama" THEN Err("value", "api_key_env") ELSE NoError>>)

\* The keys that must not be there, in the order the adapters look for them.
UnknownKeys(ad, with) ==
  First(<<IF sessionKeysList(ad) \cap DOMAIN with # {} THEN Err("session", "") ELSE NoError,
          First([i \in DOMAIN rejectedList(ad) |->
                   IF rejectedList(ad)[i] \in DOMAIN with THEN Err("value", rejectedList(ad)[i]) ELSE NoError]),
          IF DOMAIN with \ (allowedKeys(ad) \cup sessionKeysList(ad) \cup rejectedKeys(ad)) # {} THEN Err("unknown", "") ELSE NoError>>)

\* awf/llm without its prompt: what a tool loop validates.
validateConfigCommon(with, env) ==
  First(<<UnknownKeys("llm", with), requireString(with, "model", Str \ {""}), KeyTypes("llm", with), llmPolicy(with, env)>>)

ValidateConfig(ad, with, env) ==
  IF ad = "llm" THEN First(<<validateConfigCommon(with, env), requireString(with, "prompt", Str \ {""})>>)
  ELSE First(<<UnknownKeys(ad, with),
               requireString(with, "prompt", IF ad \in {"claude", "session"} THEN Str ELSE Str \ {""}),
               KeyTypes(ad, with),
               CASE ad \in {"claude", "session"} -> claudePolicy(with, env)
                 [] ad = "droid" -> droidPolicy(with, env)
                 [] ad = "goose" -> goosePolicy(with, env)
                 [] OTHER -> NoError>>)

(***************************************************************************)
(* What is launched: the keys whose values reach the agent, and the        *)
(* environment variables one of which its credential comes from.           *)
(***************************************************************************)
SetStrings(with, K) == {k \in K : Get(with, k) \in Str \ {""}}
claudeCommand(with) ==
  [keys |-> SetStrings(with, {"prompt", "model", "effort", "system_prompt"})
            \cup {k \in {"max_turns"} : Get(with, k) = "n1"}
            \cup {k \in {"max_budget_usd"} : Get(with, k) \in {"n1", "n1/2"}}
            \cup {k \in {"allowed_tools"} : Get(with, k) = "list"}
            \cup {k \in {"bare"} : bareOf(with)},
   needs |-> IF bareOf(with) THEN bareCredentials ELSE {}]
\* Without a sandbox the container is the boundary; auth.json may do for a key.
codexCommand(with) == [keys |-> SetStrings(with, {"prompt", "model", "sandbox", "effort"}), needs |-> {}]
byokSettingsJSON(with) == SetStrings(with, {"base_url", "api_key_env", "provider"})
droidCommand(with) ==
  LET byok == Get(with, "base_url") \notin {"absent", ""}
  IN  [keys |-> SetStrings(with, {"prompt", "model", "effort", "autonomy", "system_prompt"})
                \cup {k \in {"allowed_tools", "disallowed_tools"} : Get(with, k) = "list"}
                \cup (IF byok THEN byokSettingsJSON(with) ELSE {})
                \cup {k \in {"tls_insecure"} : Get(with, k) = "true"},
       needs |-> IF byok THEN {with["api_key_env"]} ELSE {"FACTORY_API_KEY"}]
gooseCommand(with, env) ==
  [keys |-> SetStrings(with, {"prompt", "model", "provider", "system_prompt"}) \cup ({"max_turns"} \cap DOMAIN with),
   needs |-> providerAuthKey(IF Get(with, "provider") \in Str \ {""} THEN with["provider"]
                             ELSE IF "GOOSE_PROVIDER" \in env THEN "openai" ELSE "absent")]
parseGeminiCache(with) == {k \in {"gemini_cache"} : Get(with, k) = "explicit"}
buildReqConfig(with) ==
  [keys |-> SetStrings(with, {"prompt", "model", "base_url", "api_key_env", "system_prompt", "provider", "structured_output"})
            \cup ({"temperature", "max_tokens", "max_inline_bytes"} \cap DOMAIN with)
            \cup {k \in {"tls_insecure", "cache_system", "cache_documents", "cache_context"} : Get(with, k) = "true"} \cup parseGeminiCache(with),
   needs |-> IF effectiveProvider(with) = "ollama" THEN {} ELSE {keyName(with)}]
liveCommand(with) ==
  [keys |-> SetStrings(with, {"prompt", "cwd", "session", "model", "effort"}) \cup ({"permission_policy"} \cap DOMAIN with), needs |-> {}]
assembleCommand(ad, with, env) ==
  CASE ad \in {"claude", "session"} -> claudeCommand(with)
    [] ad = "codex" -> codexCommand(with)
    [] ad = "droid" -> droidCommand(with)
    [] ad = "goose" -> gooseCommand(with, env)
    [] ad = "llm" -> buildReqConfig(with)
    [] ad = "live" -> liveCommand(with)

(***************************************************************************)
(* The configurations a workflow may hold: few keys, of any class.         *)
(***************************************************************************)
WrongType(k) == IF k \in {"prompt", "model", "system_prompt", "effort", "provider"} THEN "n1" ELSE "some text"
Sample(ad, k) ==
  {Template, WrongType(k)} \cup
  CASE k \in {"prompt", "model"} -> {"word", "some text", ""}
    [] k \in {"base_url", "system_prompt"} -> {"word", ""}
    [] k = "api_key_env" -> {"MY_KEY", "word"}
    [] k \in rejectedKeys(ad) \cup sessionKeysList(ad) \cup renamedKeys(ad) \cup {"typo"} -> {"word"}
    [] OTHER -> Accepted(ad, k)
\* session_id stands for the other keys that imply a surface awf/llm has not
Extra(ad) == (allowedKeys(ad) \cup rejectedKeys(ad) \cup sessionKeysList(ad) \cup renamedKeys(ad) \cup {"typo"})
             \ {"messages", "tools", "stream"}
EnvNames(ad) == CASE ad \in {"claude", "session"} -> bareCredentials
                  [] ad = "droid" -> {"FACTORY_API_KEY", "MY_KEY"}
                  [] ad = "goose" -> {"GOOSE_PROVIDER", "OPENAI_API_KEY", "ANTHROPIC_API_KEY"}
                  [] ad = "llm" -> {"OPENAI_API_KEY", "GEMINI_API_KEY", "ANTHROPIC_API_KEY", "MY_KEY"}
                  [] OTHER -> {}
Nothing == [k \in {} |-> ""]
Withs(ad, K) == {w \in [K -> UNION {Sample(ad, k) : k \in K}] : \A k \in K : w[k] \in Sample(ad, k)}
SmallSets(S, n) == UNION {kSubset(i, S) : i \in 0..n}
BaseWith == "prompt" :> "some text" @@ "model" :> "word"

ConfigInit ==
  /\ \E ad \in ConfigAdapters : \E K \in SmallSets(Extra(ad), MaxKeys) : \E w \in Withs(ad, K) :
     \E R \in SUBSET K : \E env \in SUBSET EnvNames(ad) : \E evidence \in BOOLEAN :
       /\ evidence => "cache_context" \in K
       /\ conf = [adapter |-> ad, role |-> [k \in R |-> w[k]],
                  step |-> [k \in K \ R |-> w[k]] @@ BaseWith, env |-> env, late |-> FALSE,
                  evidence |-> evidence]
  /\ phase = "loaded" /\ verdict = NoError /\ sent = Nothing

\* The step's own keys win.
merge(role, step) == step @@ role

(***************************************************************************)
(* The steps.                                                              *)
(***************************************************************************)
suppressTemplatedValueErr(err, with) == err.kind = "value" /\ Get(with, err.key) = Template

Guard ==
  /\ phase = "loaded"
  /\ LET with == merge(conf.role, conf.step)
         err == ValidateConfig(conf.adapter, with, conf.env)
     IN  IF err = NoError \/ suppressTemplatedValueErr(err, with)
           THEN phase' = "started" /\ UNCHANGED verdict
           ELSE phase' = "refused" /\ verdict' = err
  /\ UNCHANGED <<conf, sent>>

\* template.Substitute renders strings, and only to strings.
substituteRawConfig(with, v) == [k \in DOMAIN with |-> IF with[k] = Template THEN v ELSE with[k]]

Templated == Template \in {conf.role[k] : k \in DOMAIN conf.role} \cup {conf.step[k] : k \in DOMAIN conf.step}
Render(r, v) ==
  /\ phase = "started"
  /\ conf' = [conf EXCEPT !.role = substituteRawConfig(@, r), !.step = substituteRawConfig(@, v), !.late = Templated]
  /\ phase' = "rendered"
  /\ UNCHANGED <<verdict, sent>>

Dispatch ==
  /\ phase = "rendered"
  /\ LET err == ValidateConfig(conf.adapter, merge(conf.role, conf.step), conf.env)
     IN  /\ phase' = IF err = NoError THEN "accepted" ELSE "rejected"
         /\ verdict' = err
  /\ UNCHANGED <<conf, sent>>

LaunchDropsRole ==
  /\ phase = "accepted"
  /\ sent' = assembleCommand(conf.adapter, conf.step, conf.env)
  /\ phase' = "launched"
  /\ UNCHANGED <<conf, verdict>>

\* a marker for context evidence that the step has not
LacksEvidence == conf.adapter = "llm" /\ Get(merge(conf.role, conf.step), "cache_context") = "true" /\ ~ conf.evidence
LaunchRefused ==
  /\ phase = "accepted" /\ LacksEvidence
  /\ phase' = "rejected" /\ verdict' = Err("value", "cache_context")
  /\ UNCHANGED <<conf, sent>>

Launch ==
  /\ phase = "accepted" /\ ~ LacksEvidence
  /\ sent' = assembleCommand(conf.adapter, merge(conf.role, conf.step), conf.env)
  /\ phase' = "launched"
  /\ UNCHANGED <<conf, verdict>>

\* A react step names its adapter inside its `with:` (AWF1057), has its prompt
\* outside it, and is neither guarded nor rendered.
RunToolLoop ==
  /\ phase = "loaded" /\ conf.adapter = "llm" /\ conf.role = Nothing
  /\ LET with == [k \in (DOMAIN conf.step \ {"prompt"}) \cup {"uses"} |-> IF k = "uses" THEN "awf/llm" ELSE conf.step[k]]
         err == validateConfigCommon(with, conf.env)
     IN  IF err = NoError /\ effectiveProvider(with) \notin {"ollama", "anthropic"}
           THEN phase' = "looped" /\ sent' = buildReqConfig(with) /\ UNCHANGED verdict
           ELSE phase' = "failed" /\ verdict' = err /\ UNCHANGED sent
  /\ UNCHANGED conf

ConfigNext == \/ Guard \/ Dispatch \/ Launch \/ LaunchRefused \/ RunToolLoop
              \/ \E r, v \in {"word", "some text", ""} : Render(r, v)
-----------------------------------------------------------------------------
NoValue == {"", "n0", "n-1", "n1/2", "list0", "false", "map"}
\* droid reads these only for a custom endpoint.
ModeKeys == IF conf.adapter = "droid" THEN {"api_key_env", "provider"} ELSE {}

\* What the guard lets through never fails later for its keys (unknown, renamed
\* or session keys are found before anything is spent), nor at all if it had no
\* template, but for `cache_context` in a step without context evidence, which only
\* the launch of awf/llm finds (awfllm/launch.go:30).  What is launched is what was
\* validated: no template is left in it, every key that has a value reaches the
\* agent, and a credential it can use was there.
ConfigSafe ==
  /\ phase = "rejected" => verdict.kind \in {"value", "credential"} /\ (conf.late \/ LacksEvidence)
  /\ phase \in {"rendered", "accepted", "launched"} => ~Templated
  /\ phase = "launched" =>
       LET with == merge(conf.role, conf.step)
       IN  /\ sent.needs = {} \/ sent.needs \cap conf.env # {}
           /\ \A k \in DOMAIN with \ ModeKeys : with[k] \notin NoValue => k \in sent.keys

\* "`react:` is a control node that runs a model + tools loop on the `awf/llm`
\* path": a react step with a valid configuration reaches the model.
ReactReachesModel == phase = "failed" /\ DOMAIN conf.step \subseteq allowedKeys("llm") => verdict.kind # "unknown"
=============================================================================
