------------------------------ MODULE LlmCalls ------------------------------
(***************************************************************************)
(* llm_client.generate() in several threads: the registry of provider      *)
(* instances with its double-checked lock, the lazy load of the local ONNX *)
(* backend, the litellm flag that is set around a call, the fallback       *)
(* provider, and reload(), which replaces the configuration and drops the  *)
(* instances.  What a backend answers is a choice.                         *)
(***************************************************************************)
EXTENDS Integers, FiniteSets, FiniteSetsExt

CONSTANTS Callers,                   \* threads
          Providers,                 \* "local", "litellm" and others
          Fallback,                  \* llm.fallback, or "" for the implicit local -> ollama
          MaxCalls, MaxReloads, MaxCreated     \* bounds of the search

ASSUME LlmConstants == {"local", "ollama"} \subseteq Providers /\ Fallback \in Providers \cup {""}
ASSUME LlmBounds == MaxCalls \in Nat /\ MaxReloads \in Nat /\ MaxCreated \in Nat

VARIABLES llmConfig,      \* how often the configuration was replaced
          reloader,    \* the thread in reload()
          instances,   \* the registry
          created,     \* instances made: name, config it is from, resets when its call began and then
          resets,
          onnx,        \* per local instance: nothing, the model, or model and tokenizer
          bannerOff,   \* litellm.suppress_debug_info
          llmCall, calls
llmVars == <<llmConfig, reloader, instances, created, resets, onnx, bannerOff, llmCall, calls>>

Serial == 1..MaxCreated
NotMade == 0
Results == {"none", "text", "empty", "config_error", "key_error"}
IdleCall == [at |-> "idle", name |-> "", role |-> "primary", kwargs |-> 0, began |-> 0, obj |-> NotMade,
             saved |-> FALSE, result |-> "none"]
Steps == {"idle", "configure", "lookup", "create", "fetch", "generate", "load_model", "load_tokenizer",
          "complete"}

LlmTypeOK ==
  /\ llmConfig \in 0..MaxReloads /\ resets \in 0..MaxReloads
  /\ reloader \in {"idle", "reset"}
  /\ instances \in [Providers -> Serial \cup {NotMade}]
  /\ \A s \in DOMAIN created : s \in Serial /\ created[s].name \in Providers
  /\ onnx \in [Serial -> {"none", "model", "both"}]
  /\ \A t \in Callers : llmCall[t].at \in Steps /\ llmCall[t].result \in Results

LlmInit ==
  /\ llmConfig = 0 /\ resets = 0 /\ reloader = "idle"
  /\ instances = [n \in Providers |-> NotMade] /\ created = <<>>
  /\ onnx = [s \in Serial |-> "none"]
  /\ bannerOff = FALSE
  /\ llmCall = [t \in Callers |-> IdleCall] /\ calls = 0

Move(t, to) == llmCall' = [llmCall EXCEPT ![t].at = to]
RegistrySame == UNCHANGED <<llmConfig, reloader, instances, created, resets, calls>>
BackendsSame == UNCHANGED <<onnx, bannerOff>>

-----------------------------------------------------------------------------
\* The provider's name, and its constructor arguments from the configuration as it is.
Generate(t, n) ==
  /\ llmCall[t].at = "idle" /\ calls < MaxCalls
  /\ calls' = calls + 1
  /\ llmCall' = [llmCall EXCEPT ![t] = [IdleCall EXCEPT !.at = "configure", !.name = n, !.began = resets]]
  /\ UNCHANGED <<llmConfig, reloader, instances, created, resets>> /\ BackendsSame

Configure(t) ==
  /\ llmCall[t].at = "configure"
  /\ llmCall' = [llmCall EXCEPT ![t].at = "lookup", ![t].kwargs = llmConfig]
  /\ RegistrySame /\ BackendsSame

\* registry.get: the check without the lock, check and creation with it, the read without it.
LookupProvider(t) ==
  /\ llmCall[t].at = "lookup"
  /\ Move(t, IF instances[llmCall[t].name] # NotMade THEN "fetch" ELSE "create")
  /\ RegistrySame /\ BackendsSame

\* Mutation of MustCreate: no second check under the lock.
MustCreateAlways(n) == n \in Providers

MustCreate(n) == instances[n] = NotMade
Create(t) ==
  LET n == llmCall[t].name
      serial == Cardinality(DOMAIN created) + 1 IN
  /\ llmCall[t].at = "create"
  /\ Move(t, "fetch")
  /\ IF ~MustCreate(n) THEN UNCHANGED <<instances, created>>
     ELSE /\ serial <= MaxCreated
          /\ created' = [s \in 1..serial |-> IF s < serial THEN created[s]
                           ELSE [name |-> n, llmConfig |-> llmCall[t].kwargs, began |-> llmCall[t].began,
                                 resets |-> resets]]
          /\ instances' = [instances EXCEPT ![n] = serial]
  /\ UNCHANGED <<llmConfig, reloader, resets, calls>> /\ BackendsSame

Finish(t, result) == llmCall' = [llmCall EXCEPT ![t].at = "idle", ![t].result = result]

\* A missing SDK, a bad setting or an unknown name: raised, from either provider.
Misconfigured(t) ==
  /\ llmCall[t].at \in {"create", "generate"}
  /\ llmCall[t].at = "create" => MustCreate(llmCall[t].name)
  /\ Finish(t, "config_error")
  /\ RegistrySame /\ BackendsSame

\* _fallback_provider
FallbackOf(n) ==
  IF Fallback # "" THEN (IF Fallback # n THEN Fallback ELSE "")
  ELSE IF n = "local" THEN "ollama" ELSE ""

\* The provider raised something else: on to the fallback, or "" when there is none left.
AfterFailure(t) ==
  LET c == llmCall[t]
      next == FallbackOf(c.name)
      lost == [c EXCEPT !.at = "idle", !.result = "empty"] IN
  IF c.role = "primary" /\ next # ""
  THEN [lost EXCEPT !.at = "configure", !.name = next, !.role = "fallback", !.result = "none"] ELSE lost
Fail(t) == llmCall' = [llmCall EXCEPT ![t] = AfterFailure(t)]

\* The instance may be gone again: a KeyError that only the fallback's handler catches.
Fetch(t) ==
  LET found == instances[llmCall[t].name] IN
  /\ llmCall[t].at = "fetch"
  /\ IF found # NotMade THEN llmCall' = [llmCall EXCEPT ![t].at = "generate", ![t].obj = found]
     ELSE IF llmCall[t].role = "primary" THEN Finish(t, "key_error") ELSE Fail(t)
  /\ RegistrySame /\ BackendsSame

-----------------------------------------------------------------------------
\* provider.generate: any backend but the two below answers or fails at once.
Answers(t) ==
  /\ llmCall[t].at = "generate" /\ llmCall[t].name \notin {"local", "litellm"}
  /\ Finish(t, "text") \/ Fail(t)
  /\ RegistrySame /\ BackendsSame

\* OnnxGenAIBackend._load: the check sees a model before its tokenizer is there.
Loading(s) == \E u \in Callers : llmCall[u].obj = s /\ llmCall[u].at \in {"load_model", "load_tokenizer"}
EnterLocal(t) ==
  LET s == llmCall[t].obj IN
  /\ llmCall[t].at = "generate" /\ llmCall[t].name = "local"
  /\ \/ onnx[s] = "none" /\ ~Loading(s) /\ Move(t, "load_model")
     \/ onnx[s] # "none" /\ Move(t, "complete")
  /\ RegistrySame /\ BackendsSame

LoadModel(t) ==
  /\ llmCall[t].at = "load_model"
  /\ \/ onnx' = [onnx EXCEPT ![llmCall[t].obj] = "model"] /\ Move(t, "load_tokenizer")
     \/ UNCHANGED onnx /\ Fail(t)
  /\ RegistrySame /\ UNCHANGED bannerOff

\* A failure here leaves the model without a tokenizer, for good.
LoadTokenizer(t) ==
  /\ llmCall[t].at = "load_tokenizer"
  /\ \/ onnx' = [onnx EXCEPT ![llmCall[t].obj] = "both"] /\ Move(t, "complete")
     \/ UNCHANGED onnx /\ Fail(t)
  /\ RegistrySame /\ UNCHANGED bannerOff

CompleteLocal(t) ==
  /\ llmCall[t].at = "complete" /\ llmCall[t].name = "local"
  /\ \/ onnx[llmCall[t].obj] = "both" /\ Finish(t, "text")
     \/ Fail(t)
  /\ RegistrySame /\ BackendsSame

\* LiteLLMProvider.generate saves the flag, sets it, and restores what it saved.
InLitellm(t) == llmCall[t].name = "litellm" /\ llmCall[t].at = "complete"
EnterLitellm(t) ==
  /\ llmCall[t].at = "generate" /\ llmCall[t].name = "litellm"
  /\ llmCall' = [llmCall EXCEPT ![t].saved = bannerOff, ![t].at = "complete"]
  /\ bannerOff' = TRUE
  /\ RegistrySame /\ UNCHANGED onnx

LeaveLitellm(t) ==
  /\ InLitellm(t)
  /\ bannerOff' = llmCall[t].saved
  /\ Finish(t, "text") \/ Fail(t)
  /\ RegistrySame /\ UNCHANGED onnx

-----------------------------------------------------------------------------
ReloadConfig ==
  /\ reloader = "idle" /\ llmConfig < MaxReloads
  /\ llmConfig' = llmConfig + 1 /\ reloader' = "reset"
  /\ UNCHANGED <<instances, created, resets, llmCall, calls>> /\ BackendsSame

ResetRegistry ==
  /\ reloader = "reset"
  /\ reloader' = "idle" /\ resets' = resets + 1
  /\ instances' = [n \in Providers |-> NotMade]
  /\ UNCHANGED <<llmConfig, created, llmCall, calls>> /\ BackendsSame

LlmNext ==
  \/ ReloadConfig \/ ResetRegistry
  \/ \E t \in Callers :
       \/ \E n \in Providers : Generate(t, n)
       \/ Configure(t) \/ LookupProvider(t) \/ Create(t) \/ Misconfigured(t) \/ Fetch(t) \/ Answers(t)
       \/ EnterLocal(t) \/ LoadModel(t) \/ LoadTokenizer(t) \/ CompleteLocal(t)
       \/ EnterLitellm(t) \/ LeaveLitellm(t)
LlmSpec == LlmInit /\ [][LlmNext]_llmVars

-----------------------------------------------------------------------------
\* "Instances are singletons per provider name (thread-safe)" (registry.py:40): no two are made
\* for one name between two resets, however the unlocked checks interleave.  And after reload()
\* "the next generate() re-reads the config": an instance of an older configuration is in the
\* registry only if the call that made it had begun before the reset; then it stays there.
RegistryCurrent ==
  /\ \A i, j \in DOMAIN created :
       i # j /\ created[i].name = created[j].name => created[i].resets # created[j].resets
  /\ reloader = "idle" =>
       \A n \in Providers : instances[n] # NotMade =>
         LET made == created[instances[n]] IN made.llmConfig = llmConfig \/ made.began < made.resets
=============================================================================
