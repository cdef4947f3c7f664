----------------------------- MODULE RuntimeProofs -----------------------------
(***************************************************************************)
(* Theorems about the shared services of a running process: the registry   *)
(* of LLM providers, the log stream and the request guard of the web       *)
(* application, the global configuration, the typed entity store and the   *)
(* embedding cache.  For any threads, providers, settings, schemas, texts  *)
(* and bounds.                                                             *)
(***************************************************************************)
EXTENDS LlmCalls, WebApi, ConfigLoad, TypedStore, EmbeddingCache, SequenceTheorems, FiniteSetTheorems, TLAPS

-----------------------------------------------------------------------------
(* LLM providers *)

ProviderCall == [at : Steps, name : Providers \cup {""}, role : {"primary", "fallback"}, kwargs : Nat, began : Nat,
         obj : Serial \cup {NotMade}, saved : BOOLEAN, result : Results]
Made == [name : Providers, llmConfig : Nat, began : Nat, resets : Nat]

CallTypes ==
  /\ llmCall \in [Callers -> ProviderCall]
  /\ \A t \in Callers : llmCall[t].at # "idle" => llmCall[t].name \in Providers
  /\ onnx \in [Serial -> {"none", "model", "both"}] /\ bannerOff \in BOOLEAN

RegistryTypes ==
  /\ llmConfig \in 0..MaxReloads /\ reloader \in {"idle", "reset"}
  /\ resets \in Nat /\ llmConfig = resets + (IF reloader = "reset" THEN 1 ELSE 0)
  /\ instances \in [Providers -> Serial \cup {NotMade}]
  /\ \E k \in 0..MaxCreated : created \in [1..k -> Made]

\* A call in flight.
InFlight(t) == llmCall[t].at \in {"lookup", "create"}
\* The arguments a call has read are those of the configuration, or it began before the registry
\* was last emptied, or the registry is about to be emptied.
CallsInv ==
  \A t \in Callers :
    /\ llmCall[t].began <= resets
    /\ InFlight(t) => reloader = "reset" \/ llmCall[t].kwargs = llmConfig \/ llmCall[t].began < resets

\* An instance is in the registry under its name, was made since the registry was last emptied,
\* and is the only one of its name made since.
SingletonInv ==
  /\ \A n \in Providers : instances[n] # NotMade =>
       /\ instances[n] \in DOMAIN created /\ created[instances[n]].name = n
       /\ created[instances[n]].resets = resets
  /\ \A i \in DOMAIN created : created[i].resets <= resets
  /\ \A i \in DOMAIN created : created[i].resets = resets => instances[created[i].name] = i
  /\ \A i, j \in DOMAIN created :
       i # j /\ created[i].name = created[j].name => created[i].resets # created[j].resets
CurrentInv ==
  reloader = "idle" =>
    \A n \in Providers : instances[n] # NotMade =>
      \/ created[instances[n]].llmConfig = llmConfig
      \/ created[instances[n]].began < created[instances[n]].resets

LlmInv == CallTypes /\ RegistryTypes /\ CallsInv /\ SingletonInv /\ CurrentInv

\* A call that only goes to another step.
LEMMA MoveEffect ==
  ASSUME CallTypes, NEW t \in Callers, NEW to \in Steps, llmCall[t].at # "idle", Move(t, to)
  PROVE /\ llmCall' \in [Callers -> ProviderCall] /\ \A u \in Callers \ {t} : llmCall'[u] = llmCall[u]
        /\ llmCall'[t].at = to /\ llmCall'[t].name = llmCall[t].name
        /\ llmCall'[t].kwargs = llmCall[t].kwargs /\ llmCall'[t].began = llmCall[t].began
        /\ llmCall'[t].name \in Providers
<1> DEFINE new == [llmCall[t] EXCEPT !.at = to]
<1>1. llmCall[t] \in ProviderCall /\ llmCall \in [Callers -> ProviderCall] BY DEF CallTypes
<1>2. new \in ProviderCall BY <1>1 DEF ProviderCall
<1>3. llmCall' = [llmCall EXCEPT ![t] = new] BY DEF Move
<1>4. /\ new.at = to /\ new.name = llmCall[t].name /\ new.kwargs = llmCall[t].kwargs
      /\ new.began = llmCall[t].began
  BY <1>1 DEF ProviderCall
<1>5. llmCall[t].name \in Providers BY DEF CallTypes
<1> HIDE DEF new
<1> QED BY <1>1, <1>2, <1>3, <1>4, <1>5

\* A call that ends with a result.
LEMMA LlmFinishEffect ==
  ASSUME CallTypes, NEW t \in Callers, NEW result \in Results,
         llmCall' = [llmCall EXCEPT ![t].at = "idle", ![t].result = result]
  PROVE /\ llmCall' \in [Callers -> ProviderCall] /\ \A u \in Callers \ {t} : llmCall'[u] = llmCall[u]
        /\ llmCall'[t].at = "idle" /\ llmCall'[t].began = llmCall[t].began
<1> DEFINE new == [llmCall[t] EXCEPT !.at = "idle", !.result = result]
<1>1. llmCall[t] \in ProviderCall /\ llmCall \in [Callers -> ProviderCall] BY DEF CallTypes
<1>2. new \in ProviderCall BY <1>1 DEF ProviderCall, Steps
<1>3. llmCall' = [llmCall EXCEPT ![t] = new] BY <1>1 DEF ProviderCall
<1>4. new.at = "idle" /\ new.began = llmCall[t].began BY <1>1 DEF ProviderCall
<1> HIDE DEF new
<1> QED BY <1>1, <1>2, <1>3, <1>4

\* The fallback of a provider is one, or there is none.
LEMMA FallbackTyped == \A n : FallbackOf(n) \in Providers \cup {""}
BY LlmConstants DEF FallbackOf

\* A provider that failed: on to the fallback, or the end.
LEMMA FailEffect ==
  ASSUME CallTypes, NEW t \in Callers, Fail(t)
  PROVE /\ llmCall' \in [Callers -> ProviderCall] /\ \A u \in Callers \ {t} : llmCall'[u] = llmCall[u]
        /\ llmCall'[t].at \in {"idle", "configure"} /\ llmCall'[t].began = llmCall[t].began
        /\ llmCall'[t].at # "idle" => llmCall'[t].name \in Providers
<1> DEFINE next == FallbackOf(llmCall[t].name)
           lost == [llmCall[t] EXCEPT !.at = "idle", !.result = "empty"]
           again == [lost EXCEPT !.at = "configure", !.name = next, !.role = "fallback", !.result = "none"]
<1>1. llmCall[t] \in ProviderCall /\ llmCall \in [Callers -> ProviderCall] BY DEF CallTypes
<1>2. next \in Providers \cup {""} BY FallbackTyped
<1>3. llmCall' = [llmCall EXCEPT ![t] = IF llmCall[t].role = "primary" /\ next # "" THEN again ELSE lost]
  BY DEF Fail, AfterFailure
<1> HIDE DEF next
<1>4. lost \in ProviderCall /\ lost.at = "idle" /\ lost.began = llmCall[t].began BY <1>1 DEF ProviderCall, Steps, Results
<1> HIDE DEF lost
<1>5. again \in ProviderCall /\ again.at = "configure" /\ again.name = next /\ again.began = llmCall[t].began
  BY <1>2, <1>4 DEF ProviderCall, Steps, Results
<1> HIDE DEF again
<1> QED BY <1>1, <1>2, <1>3, <1>4, <1>5

\* A step of a call that leaves the registry alone: the arguments of a call in flight are those
\* it had, or the configuration's.
CallStep(t) ==
  /\ llmCall' \in [Callers -> ProviderCall] /\ \A u \in Callers \ {t} : llmCall'[u] = llmCall[u]
  /\ llmCall'[t].at # "idle" => llmCall'[t].name \in Providers
  /\ llmCall'[t].began <= resets
  /\ llmCall'[t].at \in {"lookup", "create"} =>
       \/ llmCall'[t].kwargs = llmConfig
       \/ InFlight(t) /\ llmCall'[t].kwargs = llmCall[t].kwargs /\ llmCall'[t].began = llmCall[t].began

\* The calls stay typed, and no arguments become stale unnoticed.
LEMMA CallStepKeeps ==
  ASSUME CallTypes, CallsInv, NEW t \in Callers, CallStep(t),
         onnx' \in [Serial -> {"none", "model", "both"}], bannerOff' \in BOOLEAN,
         UNCHANGED <<llmConfig, reloader, resets>>
  PROVE CallTypes' /\ CallsInv'
<1>1. CallTypes' BY DEF CallTypes, CallStep
<1>2. CallsInv'
  <2> SUFFICES ASSUME NEW u \in Callers
               PROVE /\ llmCall'[u].began <= resets
                     /\ InFlight(u)' => reloader = "reset" \/ llmCall'[u].kwargs = llmConfig
                                        \/ llmCall'[u].began < resets
    BY DEF CallsInv
  <2>1. CASE u = t BY <2>1 DEF CallsInv, CallStep, InFlight
  <2>2. CASE u # t BY <2>2 DEF CallsInv, CallStep, InFlight
  <2> QED BY <2>1, <2>2
<1> QED BY <1>1, <1>2

\* A call begins: no arguments yet, and it began after the last reset.
LEMMA GenerateEffect ==
  ASSUME CallTypes, RegistryTypes, NEW t \in Callers, NEW n \in Providers, Generate(t, n)
  PROVE CallStep(t)
<1> DEFINE new == [IdleCall EXCEPT !.at = "configure", !.name = n, !.began = resets]
<1>1. llmCall \in [Callers -> ProviderCall] /\ resets \in Nat BY DEF CallTypes, RegistryTypes
<1>2. PICK u : u = IdleCall OBVIOUS
<1>3. u \in ProviderCall
  <2>1. 0 \in Nat /\ NotMade \in Serial \cup {NotMade} OBVIOUS
  <2> QED BY <1>2, <2>1 DEF IdleCall, ProviderCall, Steps, Results
<1>4. PICK s : s = [u EXCEPT !.at = "configure", !.name = n, !.began = resets] OBVIOUS
<1>5. s \in ProviderCall /\ s.at = "configure" /\ s.name = n /\ s.began = resets BY <1>1, <1>3, <1>4 DEF ProviderCall, Steps
<1>6. llmCall' = [llmCall EXCEPT ![t] = s] BY <1>2, <1>4 DEF Generate
<1> QED BY <1>1, <1>5, <1>6 DEF CallStep

\* The arguments are read from the configuration as it is.
LEMMA ConfigureEffect ==
  ASSUME CallTypes, RegistryTypes, CallsInv, NEW t \in Callers, Configure(t)
  PROVE CallStep(t)
<1> DEFINE new == [llmCall[t] EXCEPT !.at = "lookup", !.kwargs = llmConfig]
<1>1. llmCall[t] \in ProviderCall /\ llmCall \in [Callers -> ProviderCall] /\ llmConfig \in Nat
  BY LlmBounds DEF CallTypes, RegistryTypes
<1>2. new \in ProviderCall BY <1>1 DEF ProviderCall, Steps
<1>3. llmCall' = [llmCall EXCEPT ![t] = new] BY <1>1 DEF Configure, ProviderCall
<1>4. /\ new.at = "lookup" /\ new.kwargs = llmConfig /\ new.name = llmCall[t].name
      /\ new.began = llmCall[t].began
  BY <1>1 DEF ProviderCall
<1>5. llmCall[t].name \in Providers /\ llmCall[t].began <= resets BY DEF CallTypes, CallsInv, Configure
<1> HIDE DEF new
<1> QED BY <1>1, <1>2, <1>3, <1>4, <1>5 DEF CallStep

\* A call that moves on, with the arguments it has.
LEMMA MoveStep ==
  ASSUME CallTypes, CallsInv, NEW t \in Callers, NEW to \in Steps, llmCall[t].at # "idle", Move(t, to),
         to \in {"lookup", "create"} => InFlight(t)
  PROVE CallStep(t)
BY MoveEffect DEF CallStep, CallsInv

\* A call that ends, and one that goes to the fallback.
LEMMA EndStep ==
  ASSUME CallTypes, CallsInv, NEW t \in Callers,
         Fail(t) \/ \E result \in Results : Finish(t, result)
  PROVE CallStep(t)
<1>1. llmCall[t].began <= resets BY DEF CallsInv
<1>2. CASE Fail(t) BY <1>1, <1>2, FailEffect DEF CallStep
<1>3. CASE \E result \in Results : Finish(t, result)
  <2> PICK result \in Results : Finish(t, result) BY <1>3
  <2>1. llmCall' = [llmCall EXCEPT ![t].at = "idle", ![t].result = result] BY DEF Finish
  <2> QED BY <1>1, <2>1, LlmFinishEffect DEF CallStep
<1> QED BY <1>2, <1>3

\* A call that stores one more field and moves on to its backend.
LEMMA FetchFound ==
  ASSUME CallTypes, CallsInv, NEW t \in Callers, NEW s \in Serial, llmCall[t].at # "idle",
         llmCall' = [llmCall EXCEPT ![t].at = "generate", ![t].obj = s]
  PROVE CallStep(t)
<1> DEFINE new == [llmCall[t] EXCEPT !.at = "generate", !.obj = s]
<1>1. llmCall[t] \in ProviderCall /\ llmCall \in [Callers -> ProviderCall] BY DEF CallTypes
<1>2. new \in ProviderCall BY <1>1 DEF ProviderCall, Steps
<1>3. llmCall' = [llmCall EXCEPT ![t] = new] BY <1>1 DEF ProviderCall
<1>4. new.at = "generate" /\ new.name = llmCall[t].name /\ new.began = llmCall[t].began BY <1>1 DEF ProviderCall
<1>5. llmCall[t].name \in Providers /\ llmCall[t].began <= resets BY DEF CallTypes, CallsInv
<1> HIDE DEF new
<1> QED BY <1>1, <1>2, <1>3, <1>4, <1>5 DEF CallStep
\* Entering the call of litellm moves only the caller.
LEMMA EnterLitellmEffect ==
  ASSUME CallTypes, CallsInv, NEW t \in Callers, EnterLitellm(t)
  PROVE CallStep(t)
<1> DEFINE new == [llmCall[t] EXCEPT !.saved = bannerOff, !.at = "complete"]
<1>1. llmCall[t] \in ProviderCall /\ llmCall \in [Callers -> ProviderCall] /\ bannerOff \in BOOLEAN BY DEF CallTypes
<1>2. new \in ProviderCall BY <1>1 DEF ProviderCall, Steps
<1>3. llmCall' = [llmCall EXCEPT ![t] = new] BY <1>1 DEF ProviderCall, EnterLitellm
<1>4. new.at = "complete" /\ new.name = llmCall[t].name /\ new.began = llmCall[t].began BY <1>1 DEF ProviderCall
<1>5. llmCall[t].name \in Providers /\ llmCall[t].began <= resets BY DEF CallTypes, CallsInv, EnterLitellm
<1> HIDE DEF new
<1> QED BY <1>1, <1>2, <1>3, <1>4, <1>5 DEF CallStep

\* What every step of a call but the making of an instance has in common.
LEMMA CallSteps ==
  ASSUME LlmInv, NEW t \in Callers,
         \/ \E n \in Providers : Generate(t, n)
         \/ Configure(t) \/ LookupProvider(t) \/ (Create(t) /\ ~MustCreate(llmCall[t].name)) \/ Misconfigured(t)
         \/ Fetch(t) \/ Answers(t) \/ EnterLocal(t) \/ LoadModel(t) \/ LoadTokenizer(t) \/ CompleteLocal(t)
         \/ EnterLitellm(t) \/ LeaveLitellm(t)
  PROVE /\ CallStep(t) /\ onnx' \in [Serial -> {"none", "model", "both"}] /\ bannerOff' \in BOOLEAN
        /\ UNCHANGED <<llmConfig, reloader, instances, created, resets>>
<1> USE DEF LlmInv, RegistrySame, BackendsSame
<1>0. /\ onnx \in [Serial -> {"none", "model", "both"}] /\ bannerOff \in BOOLEAN
      /\ llmCall \in [Callers -> ProviderCall]
  BY DEF CallTypes
<1>1. ASSUME NEW n \in Providers, Generate(t, n) PROVE CallStep(t) BY <1>1, GenerateEffect
<1>2. CASE Configure(t) BY <1>0, <1>2, ConfigureEffect DEF Configure
<1>3. CASE LookupProvider(t)
  <2>1. CASE instances[llmCall[t].name] # NotMade
    <3>1. Move(t, "fetch") /\ llmCall[t].at # "idle" BY <1>3, <2>1 DEF LookupProvider
    <3>2. CallStep(t) BY <3>1, MoveStep DEF Steps
    <3> QED BY <1>0, <1>3, <3>2 DEF LookupProvider
  <2>2. CASE instances[llmCall[t].name] = NotMade
    <3>1. Move(t, "create") /\ llmCall[t].at # "idle" /\ InFlight(t) BY <1>3, <2>2 DEF LookupProvider, InFlight
    <3>2. CallStep(t) BY <3>1, MoveStep DEF Steps
    <3> QED BY <1>0, <1>3, <3>2 DEF LookupProvider
  <2> QED BY <2>1, <2>2
<1>4. CASE Create(t) /\ ~MustCreate(llmCall[t].name)
  <2>1. Move(t, "fetch") /\ llmCall[t].at # "idle" BY <1>4 DEF Create
  <2>2. CallStep(t) BY <2>1, MoveStep DEF Steps
  <2> QED BY <1>0, <1>4, <2>2 DEF Create
<1>5. CASE Misconfigured(t)
  <2>1. CallStep(t) BY <1>5, EndStep DEF Misconfigured, Results
  <2> QED BY <1>0, <1>5, <2>1 DEF Misconfigured
<1>6. CASE Fetch(t)
  <2> DEFINE found == instances[llmCall[t].name]
  <2>1. llmCall[t].at # "idle" /\ llmCall[t].name \in Providers BY <1>6 DEF Fetch, CallTypes
  <2>2. found \in Serial \cup {NotMade} BY <2>1 DEF RegistryTypes
  <2>3. CASE found # NotMade
    <3>1. llmCall' = [llmCall EXCEPT ![t].at = "generate", ![t].obj = found] BY <1>6, <2>3 DEF Fetch
    <3>2. CallStep(t) BY <2>1, <2>2, <2>3, <3>1, FetchFound
    <3> QED BY <1>0, <1>6, <3>2 DEF Fetch
  <2>4. CASE found = NotMade
    <3>1. Fail(t) \/ Finish(t, "key_error") BY <1>6, <2>4 DEF Fetch
    <3>2. CallStep(t) BY <3>1, EndStep DEF Results
    <3> QED BY <1>0, <1>6, <3>2 DEF Fetch
  <2> QED BY <2>3, <2>4
<1>7. CASE Answers(t)
  <2>1. CallStep(t) BY <1>7, EndStep DEF Answers, Results
  <2> QED BY <1>0, <1>7, <2>1 DEF Answers
<1>8. CASE EnterLocal(t)
  <2>1. llmCall[t].at # "idle" /\ (Move(t, "load_model") \/ Move(t, "complete")) BY <1>8 DEF EnterLocal
  <2>2. CallStep(t) BY <2>1, MoveStep DEF Steps
  <2> QED BY <1>0, <1>8, <2>2 DEF EnterLocal
<1>9. CASE LoadModel(t)
  <2>1. llmCall[t].at # "idle" /\ (Move(t, "load_tokenizer") \/ Fail(t)) BY <1>9 DEF LoadModel
  <2>2. CallStep(t) BY <2>1, MoveStep, EndStep DEF Steps
  <2> QED BY <1>0, <1>9, <2>2 DEF LoadModel
<1>10. CASE LoadTokenizer(t)
  <2>1. llmCall[t].at # "idle" /\ (Move(t, "complete") \/ Fail(t)) BY <1>10 DEF LoadTokenizer
  <2>2. CallStep(t) BY <2>1, MoveStep, EndStep DEF Steps
  <2> QED BY <1>0, <1>10, <2>2 DEF LoadTokenizer
<1>11. CASE CompleteLocal(t)
  <2>1. CallStep(t) BY <1>11, EndStep DEF CompleteLocal, Results
  <2> QED BY <1>0, <1>11, <2>1 DEF CompleteLocal
<1>12. CASE EnterLitellm(t) BY <1>0, <1>12, EnterLitellmEffect DEF EnterLitellm
<1>13. CASE LeaveLitellm(t)
  <2>1. CallStep(t) BY <1>13, EndStep DEF LeaveLitellm, Results
  <2>2. llmCall[t].saved \in BOOLEAN BY <1>0 DEF ProviderCall
  <2> QED BY <1>0, <1>13, <2>1, <2>2 DEF LeaveLitellm
<1>14. CASE \E n \in Providers : Generate(t, n) BY <1>0, <1>1, <1>14 DEF Generate
<1> QED BY <1>2, <1>3, <1>4, <1>5, <1>6, <1>7, <1>8, <1>9, <1>10, <1>11, <1>12, <1>13, <1>14

\* The instance made: the next one of the list, under its name, and what it is.
LEMMA CreateEffect ==
  ASSUME LlmInv, NEW t \in Callers, Create(t), MustCreate(llmCall[t].name)
  PROVE LET n == llmCall[t].name IN
        \E s \in Serial :
          /\ s \notin DOMAIN created /\ s # NotMade /\ n \in Providers
          /\ created' \in [1..s -> Made] /\ DOMAIN created' = DOMAIN created \cup {s}
          /\ \A i \in DOMAIN created : created'[i] = created[i]
          /\ created'[s] = [name |-> n, llmConfig |-> llmCall[t].kwargs, began |-> llmCall[t].began,
                            resets |-> resets]
          /\ instances' = [instances EXCEPT ![n] = s]
<1> USE DEF LlmInv
<1> DEFINE n == llmCall[t].name
           serial == Cardinality(DOMAIN created) + 1
           made == [name |-> n, llmConfig |-> llmCall[t].kwargs, began |-> llmCall[t].began, resets |-> resets]
<1>1. PICK k \in 0..MaxCreated : created \in [1..k -> Made] BY DEF RegistryTypes
<1>2. k \in Nat /\ DOMAIN created = 1..k BY <1>1, LlmBounds
<1>3. Cardinality(1..k) = k BY <1>2, FS_Interval
<1>4. serial = k + 1 BY <1>2, <1>3
<1>5. serial <= MaxCreated /\ n \in Providers BY DEF Create, CallTypes
<1>6. serial \in Serial /\ serial # NotMade BY <1>2, <1>4, <1>5, LlmBounds DEF Serial, NotMade
<1>7. made \in Made
  <2>1. llmCall[t] \in ProviderCall BY DEF CallTypes
  <2> QED BY <2>1, <1>5 DEF ProviderCall, Made, RegistryTypes
<1>8. created' = [s \in 1..serial |-> IF s < serial THEN created[s] ELSE made] BY DEF Create
<1>9. instances' = [instances EXCEPT ![n] = serial] BY DEF Create
<1> HIDE DEF made, serial
<1>10. /\ serial \notin DOMAIN created /\ created' \in [1..serial -> Made]
       /\ DOMAIN created' = DOMAIN created \cup {serial} /\ created'[serial] = made
  BY <1>1, <1>2, <1>4, <1>7, <1>8
<1>11. \A i \in DOMAIN created : created'[i] = created[i] BY <1>2, <1>4, <1>8
<1> QED BY <1>5, <1>6, <1>9, <1>10, <1>11 DEF made

\* The steps of a call preserve the invariant: those that leave the registry alone, and the
\* making of an instance, whose call holds the lock and has found none of that name.
LEMMA LlmCallStep ==
  ASSUME LlmInv, NEW t \in Callers, CallStep(t), onnx' \in [Serial -> {"none", "model", "both"}],
         bannerOff' \in BOOLEAN, UNCHANGED <<llmConfig, reloader, instances, created, resets>>
  PROVE LlmInv'
<1>1. CallTypes' /\ CallsInv' BY CallStepKeeps DEF LlmInv
<1>2. RegistryTypes' BY DEF LlmInv, RegistryTypes
<1>3. SingletonInv' BY DEF LlmInv, SingletonInv
<1>4. CurrentInv' BY DEF LlmInv, CurrentInv
<1> QED BY <1>1, <1>2, <1>3, <1>4 DEF LlmInv

\* A provider made for a call: it has the arguments that call had read.
LEMMA LlmCreateStep ==
  ASSUME LlmInv, NEW t \in Callers, Create(t), MustCreate(llmCall[t].name)
  PROVE LlmInv'
<1> DEFINE n == llmCall[t].name
           made == [name |-> n, llmConfig |-> llmCall[t].kwargs, began |-> llmCall[t].began, resets |-> resets]
<1> USE DEF LlmInv
<1>1. PICK s \in Serial :
        /\ s \notin DOMAIN created /\ s # NotMade /\ n \in Providers
        /\ created' \in [1..s -> Made] /\ DOMAIN created' = DOMAIN created \cup {s}
        /\ \A i \in DOMAIN created : created'[i] = created[i]
        /\ created'[s] = made
        /\ instances' = [instances EXCEPT ![n] = s]
  BY CreateEffect
<1>2. /\ made.name = n /\ made.resets = resets /\ made.began = llmCall[t].began
      /\ made.llmConfig = llmCall[t].kwargs
  OBVIOUS
<1>3. instances[n] = NotMade /\ InFlight(t) BY DEF Create, MustCreate, InFlight
<1>4. /\ UNCHANGED <<llmConfig, reloader, resets, onnx, bannerOff>> /\ Move(t, "fetch")
      /\ llmCall[t].at # "idle"
  BY DEF Create, BackendsSame
<1> HIDE DEF n, made
<1>5. CallTypes' /\ CallsInv'
  <2>1. CallStep(t) BY <1>4, MoveStep DEF Steps
  <2>2. onnx' \in [Serial -> {"none", "model", "both"}] /\ bannerOff' \in BOOLEAN BY <1>4 DEF CallTypes
  <2> QED BY <1>4, <2>1, <2>2, CallStepKeeps
<1>6. instances \in [Providers -> Serial \cup {NotMade}] BY DEF RegistryTypes
<1>7. RegistryTypes'
  <2>1. s \in 0..MaxCreated BY LlmBounds DEF Serial
  <2>2. instances' \in [Providers -> Serial \cup {NotMade}] BY <1>1, <1>6
  <2> QED BY <1>1, <1>4, <2>1, <2>2 DEF RegistryTypes
<1>8. SingletonInv'
  <2>1. \A m \in Providers : instances'[m] # NotMade =>
          /\ instances'[m] \in DOMAIN created' /\ created'[instances'[m]].name = m
          /\ created'[instances'[m]].resets = resets
    <3> SUFFICES ASSUME NEW m \in Providers, instances'[m] # NotMade
                 PROVE /\ instances'[m] \in DOMAIN created' /\ created'[instances'[m]].name = m
                       /\ created'[instances'[m]].resets = resets
      OBVIOUS
    <3>1. CASE m = n BY <1>1, <1>2, <1>6, <3>1
    <3>2. CASE m # n
      <4>1. instances'[m] = instances[m] BY <1>1, <1>6, <3>2
      <4> QED BY <1>1, <4>1 DEF SingletonInv
    <3> QED BY <3>1, <3>2
  <2>2. \A i \in DOMAIN created' : created'[i].resets <= resets
    BY <1>1, <1>2 DEF SingletonInv, RegistryTypes
  <2>3. \A i \in DOMAIN created : created[i].resets = resets => created[i].name # n
    BY <1>1, <1>3 DEF SingletonInv, NotMade, RegistryTypes
  <2>4. \A i \in DOMAIN created' : created'[i].resets = resets => instances'[created'[i].name] = i
    <3> SUFFICES ASSUME NEW i \in DOMAIN created', created'[i].resets = resets
                 PROVE instances'[created'[i].name] = i
      OBVIOUS
    <3>1. CASE i = s BY <1>1, <1>2, <1>6, <3>1
    <3>2. CASE i # s
      <4>1. i \in DOMAIN created /\ created'[i] = created[i] BY <1>1, <3>2
      <4>2. created[i].name # n /\ instances[created[i].name] = i BY <2>3, <4>1 DEF SingletonInv
      <4> QED BY <1>1, <1>6, <4>1, <4>2
    <3> QED BY <3>1, <3>2
  <2>5. \A i, j \in DOMAIN created' :
          i # j /\ created'[i].name = created'[j].name => created'[i].resets # created'[j].resets
    <3>1. \A i \in DOMAIN created' : i # s => i \in DOMAIN created /\ created'[i] = created[i] BY <1>1
    <3> QED BY <1>1, <1>2, <2>3, <3>1 DEF SingletonInv
  <2> QED BY <1>4, <2>1, <2>2, <2>4, <2>5 DEF SingletonInv
<1>9. CurrentInv'
  <2> SUFFICES ASSUME reloader = "idle", NEW m \in Providers, instances'[m] # NotMade
               PROVE \/ created'[instances'[m]].llmConfig = llmConfig
                     \/ created'[instances'[m]].began < created'[instances'[m]].resets
    BY <1>4 DEF CurrentInv
  <2>1. CASE m = n
    <3>1. instances'[m] = s BY <1>1, <1>6, <2>1
    <3>2. llmCall[t].kwargs = llmConfig \/ llmCall[t].began < resets BY <1>3 DEF CallsInv
    <3> QED BY <1>1, <1>2, <3>1, <3>2
  <2>2. CASE m # n
    <3>1. instances'[m] = instances[m] BY <1>1, <1>6, <2>2
    <3>2. created'[instances[m]] = created[instances[m]] BY <1>1, <3>1 DEF SingletonInv
    <3> QED BY <3>1, <3>2 DEF CurrentInv
  <2> QED BY <2>1, <2>2
<1> QED BY <1>5, <1>7, <1>8, <1>9

\* reload() replaces the configuration, and then empties the registry.
LEMMA ReloadStep ==
  ASSUME LlmInv, ReloadConfig \/ ResetRegistry
  PROVE LlmInv'
<1> USE DEF LlmInv
<1>1. CASE ReloadConfig
  <2>1. CallTypes' BY <1>1 DEF ReloadConfig, BackendsSame, CallTypes
  <2>2. RegistryTypes' BY <1>1, LlmBounds DEF ReloadConfig, RegistryTypes
  <2>3. CallsInv'
    <3>1. \A u \in Callers : llmCall'[u].began <= resets' BY <1>1 DEF ReloadConfig, CallsInv
    <3> QED BY <1>1, <3>1 DEF ReloadConfig, CallsInv
  <2>4. SingletonInv' BY <1>1 DEF ReloadConfig, SingletonInv
  <2>5. CurrentInv' BY <1>1 DEF ReloadConfig, CurrentInv
  <2> QED BY <2>1, <2>2, <2>3, <2>4, <2>5
<1>2. CASE ResetRegistry
  <2> DEFINE next == resets + 1
  <2>0. next \in Nat /\ resets \in Nat /\ resets' = next /\ resets < next BY <1>2 DEF RegistryTypes, ResetRegistry
  <2>1. CallTypes' BY <1>2 DEF ResetRegistry, BackendsSame, CallTypes
  <2>2. RegistryTypes' BY <1>2, LlmBounds DEF ResetRegistry, RegistryTypes
  <2>3. CallsInv'
    <3>1. \A u \in Callers : llmCall[u].began \in Nat BY DEF CallTypes, ProviderCall
    <3>2. \A u \in Callers : llmCall[u].began < next BY <2>0, <3>1 DEF CallsInv
    <3> QED BY <1>2, <2>0, <3>1, <3>2 DEF ResetRegistry, CallsInv
  <2>4. SingletonInv'
    <3>1. \A i \in DOMAIN created : created[i].resets \in Nat BY DEF RegistryTypes, Made
    <3>2. \A i \in DOMAIN created : created[i].resets < next BY <2>0, <3>1 DEF SingletonInv
    <3>3. \A n \in Providers : instances'[n] = NotMade BY <1>2 DEF ResetRegistry
    <3>4. created' = created BY <1>2 DEF ResetRegistry
    <3> HIDE DEF next
    <3> QED BY <2>0, <3>1, <3>2, <3>3, <3>4 DEF SingletonInv
  <2>5. CurrentInv' BY <1>2 DEF ResetRegistry, CurrentInv
  <2> QED BY <2>1, <2>2, <2>3, <2>4, <2>5
<1> QED BY <1>1, <1>2

\* The invariant of the registry and of the calls, from the empty registry on.
LEMMA LlmInductive == LlmSpec => []LlmInv
<1>1. LlmInit => LlmInv
  <2> SUFFICES ASSUME LlmInit PROVE LlmInv OBVIOUS
  <2>1. IdleCall \in ProviderCall /\ IdleCall.at = "idle" /\ IdleCall.began = 0
    <3>1. 0 \in Nat /\ NotMade \in Serial \cup {NotMade} OBVIOUS
    <3> QED BY <3>1 DEF IdleCall, ProviderCall, Steps, Results
  <2>2. CallTypes BY <2>1 DEF LlmInit, CallTypes
  <2>3. RegistryTypes
    <3>1. created \in [1..0 -> Made] BY DEF LlmInit
    <3>2. 0 \in 0..MaxCreated BY LlmBounds
    <3>3. \E k \in 0..MaxCreated : created \in [1..k -> Made] BY <3>1, <3>2
    <3> QED BY <3>3, LlmBounds DEF LlmInit, RegistryTypes
  <2>4. CallsInv BY <2>1 DEF LlmInit, CallsInv, InFlight
  <2>5. SingletonInv BY DEF LlmInit, SingletonInv
  <2>6. CurrentInv BY DEF LlmInit, CurrentInv
  <2> QED BY <2>2, <2>3, <2>4, <2>5, <2>6 DEF LlmInv
<1>2. LlmInv /\ [LlmNext]_llmVars => LlmInv'
  <2> SUFFICES ASSUME LlmInv, [LlmNext]_llmVars PROVE LlmInv' OBVIOUS
  <2>1. CASE UNCHANGED llmVars
    BY <2>1 DEF llmVars, LlmInv, CallTypes, RegistryTypes, CallsInv, InFlight, SingletonInv, CurrentInv
  <2>2. CASE ReloadConfig \/ ResetRegistry BY <2>2, ReloadStep
  <2>3. ASSUME NEW t \in Callers, Create(t), MustCreate(llmCall[t].name) PROVE LlmInv' BY <2>3, LlmCreateStep
  <2>4. ASSUME NEW t \in Callers,
               \/ \E n \in Providers : Generate(t, n)
               \/ Configure(t) \/ LookupProvider(t) \/ (Create(t) /\ ~MustCreate(llmCall[t].name))
               \/ Misconfigured(t) \/ Fetch(t) \/ Answers(t) \/ EnterLocal(t) \/ LoadModel(t)
               \/ LoadTokenizer(t) \/ CompleteLocal(t) \/ EnterLitellm(t) \/ LeaveLitellm(t)
        PROVE LlmInv'
    BY <2>4, CallSteps, LlmCallStep
  <2> QED BY <2>1, <2>2, <2>3, <2>4 DEF LlmNext
<1> QED BY <1>1, <1>2, PTL DEF LlmSpec

\* In every state of every run the variables of the provider registry have their types: the
\* registry names instances that were made, under the names of providers (registry.py:40).
THEOREM LlmTypeCorrect == LlmSpec => []LlmTypeOK
<1>1. LlmInv => LlmTypeOK
  <2> SUFFICES ASSUME LlmInv PROVE LlmTypeOK OBVIOUS
  <2>1. resets \in 0..MaxReloads BY LlmBounds DEF LlmInv, RegistryTypes
  <2>2. \A s \in DOMAIN created : s \in Serial /\ created[s].name \in Providers
    BY LlmBounds DEF LlmInv, RegistryTypes, Made, Serial
  <2>3. \A t \in Callers : llmCall[t].at \in Steps /\ llmCall[t].result \in Results
    BY DEF LlmInv, CallTypes, ProviderCall
  <2> QED BY <2>1, <2>2, <2>3 DEF LlmTypeOK, LlmInv, CallTypes, RegistryTypes
<1> QED BY <1>1, LlmInductive, PTL

\* "Instances are singletons per provider name (thread-safe)", and after reload() the registry
\* holds an instance of an older configuration only if the call that made it had begun before:
\* the double-checked lock of registry.get and the order of reload()'s two steps, for any
\* number of threads, providers, calls and reloads.
THEOREM RegistryCurrentCorrect == LlmSpec => []RegistryCurrent
<1>1. LlmInv => RegistryCurrent BY DEF LlmInv, SingletonInv, CurrentInv, RegistryCurrent
<1> QED BY <1>1, LlmInductive, PTL

-----------------------------------------------------------------------------
(* The log stream of the web application *)

File == [inode : Nat, lines : Seq(Nat)]
Tailing == [at : {"closed", "poll", "read"}, seen : Nat, last : Nat]

\* The lines before those in the file, and how far the stream has come.
Rotated == written - Len(logFile.lines)
Position == Rotated + (IF logFile.inode = tail.seen THEN tail.last ELSE 0)

\* The file holds the last lines written, in order; one opened after a rotation begins with one
\* of "opened", and its number is larger than any the stream has seen.
FileInv ==
  /\ logFile \in File /\ written \in Nat /\ opened \in Seq(Nat) /\ Len(logFile.lines) <= written
  /\ \A i \in 1..Len(logFile.lines) : logFile.lines[i] = Rotated + i
  /\ logFile.inode \in {0, Len(opened) + 1}
  /\ logFile.inode = 0 => logFile.lines = <<>>
  /\ logFile.inode > 1 => Rotated + 1 \in Range(opened)
TailInv ==
  /\ tail \in Tailing /\ tail.seen <= Len(opened) + 1 /\ rotatedUnder \in BOOLEAN
  /\ sent \in Seq(Nat)
  /\ tail.at = "closed" => tail.seen = 0
  /\ tail.at = "read" => tail.seen # 0
  /\ tail.seen = 0 => tail.last = 0 /\ sent = <<>>

\* Unless the file was rotated between a stat and its open: what was sent is what comes before
\* the position, all of it but what a rotation took.
PlaceInv ==
  ~rotatedUnder =>
    /\ tail.at = "read" => /\ logFile.inode = tail.seen /\ logFile.inode # 0
                           /\ tail.last < Len(logFile.lines)
    /\ logFile.inode = tail.seen => tail.last <= Len(logFile.lines)
    /\ tail.at # "closed" /\ logFile.inode = 1 => tail.seen = 1
    /\ sent # <<>> /\ logFile.inode = tail.seen =>
         IF tail.last = 0 THEN logFile.inode > 1 ELSE sent[Len(sent)] = Position
SentInv ==
  ~rotatedUnder =>
    /\ \A i \in 1..Len(sent) : sent[i] <= Position
    /\ \A i \in 1..Len(sent) - 1 :
         /\ sent[i] < sent[i + 1]
         /\ sent[i + 1] = sent[i] + 1 \/ sent[i + 1] \in Range(opened)

StreamInv == FileInv /\ TailInv /\ PlaceInv /\ SentInv

\* What is in the file, and how far the stream can be in it.
LEMMA FileFacts ==
  ASSUME StreamInv
  PROVE /\ logFile.inode \in Nat /\ logFile.lines \in Seq(Nat) /\ Len(logFile.lines) \in Nat
        /\ Len(opened) \in Nat /\ Len(sent) \in Nat /\ written \in Nat /\ Rotated \in Nat
        /\ Rotated + Len(logFile.lines) = written
        /\ tail.seen \in Nat /\ tail.last \in Nat /\ tail.at \in {"closed", "poll", "read"}
        /\ Position \in Nat
        /\ ~rotatedUnder => Position <= written
        /\ \A i \in 1..Len(sent) : sent[i] \in Nat
<1> USE DEF StreamInv
<1>1. logFile.inode \in Nat /\ logFile.lines \in Seq(Nat) BY DEF FileInv, File
<1>2. tail.seen \in Nat /\ tail.last \in Nat /\ tail.at \in {"closed", "poll", "read"} BY DEF TailInv, Tailing
<1>3. Len(logFile.lines) \in Nat /\ Len(opened) \in Nat /\ Len(sent) \in Nat
  BY <1>1, LenProperties DEF FileInv, TailInv
<1>4. written \in Nat /\ Rotated \in Nat /\ Rotated + Len(logFile.lines) = written BY <1>3 DEF FileInv, Rotated
<1> DEFINE lines == Len(logFile.lines)  b == Rotated
<1>5. Position = b + (IF logFile.inode = tail.seen THEN tail.last ELSE 0) BY DEF Position
<1>6. ~rotatedUnder /\ logFile.inode = tail.seen => tail.last <= lines BY DEF PlaceInv
<1>7. b \in Nat /\ lines \in Nat /\ b + lines = written BY <1>3, <1>4
<1> HIDE DEF lines, b
<1>8. Position \in Nat /\ (~rotatedUnder => Position <= written) BY <1>1, <1>2, <1>5, <1>6, <1>7
<1>9. \A i \in 1..Len(sent) : sent[i] \in Nat BY ElementOfSeq DEF TailInv
<1> QED BY <1>1, <1>2, <1>3, <1>4, <1>8, <1>9

\* A line more in the file there is: the stream's place in it stays.
LEMMA AppendLine ==
  ASSUME StreamInv, WriteLog, logFile.inode # 0
  PROVE StreamInv'
<1> DEFINE n == written + 1
           more == Append(logFile.lines, n)
           new == [logFile EXCEPT !.lines = more]
           size == Len(logFile.lines)
<1>1. logFile' = new /\ written' = n /\ UNCHANGED <<opened, tail, sent, rotatedUnder>> BY DEF WriteLog
<1>2. n \in Nat /\ size \in Nat /\ logFile.lines \in Seq(Nat) /\ logFile.inode \in Nat BY FileFacts
<1>3. /\ new \in File /\ new.inode = logFile.inode
      /\ Len(new.lines) = size + 1
      /\ \A i \in 1..size : new.lines[i] = logFile.lines[i]
      /\ new.lines[size + 1] = n
  <2>1. /\ more \in Seq(Nat) /\ Len(more) = size + 1 /\ more[size + 1] = n
        /\ \A i \in 1..size : more[i] = logFile.lines[i]
    BY <1>2, AppendProperties
  <2> HIDE DEF more, size, n
  <2>2. logFile \in File BY DEF StreamInv, FileInv
  <2>3. new \in File /\ new.inode = logFile.inode /\ new.lines = more BY <2>1, <2>2 DEF File
  <2> QED BY <2>1, <2>3
<1>4. Rotated = written - size BY DEF Rotated
<1>5. written \in Nat /\ n = written + 1 /\ Rotated \in Nat BY FileFacts
<1> HIDE DEF new, n, size
<1>6. Rotated' = Rotated
  <2>1. Rotated' = written' - Len(logFile'.lines) BY DEF Rotated
  <2>2. Rotated' = n - (size + 1) BY <1>1, <1>3, <2>1
  <2> QED BY <1>2, <1>4, <1>5, <2>2
<1>7. Position' = Position BY <1>1, <1>3, <1>6 DEF Position
<1>8. FileInv'
  <2>1. \A i \in 1..(size + 1) : new.lines[i] = Rotated + i
    <3>1. \A i \in 1..size : logFile.lines[i] = Rotated + i BY DEF StreamInv, FileInv, size
    <3>2. n = Rotated + (size + 1) BY <1>2, <1>4, <1>5
    <3> QED BY <1>2, <1>3, <3>1, <3>2
  <2>2. size + 1 <= n BY <1>2, <1>5 DEF StreamInv, FileInv, size
  <2>3. new.inode # 0 BY <1>3
  <2> QED BY <1>1, <1>2, <1>3, <1>6, <2>1, <2>2, <2>3 DEF StreamInv, FileInv
<1>9. TailInv' BY <1>1 DEF StreamInv, TailInv
<1>10. PlaceInv'
  <2>1. size < size + 1 /\ Len(new.lines) = size + 1 BY <1>2, <1>3
  <2>2. tail.last \in Nat BY FileFacts
  <2>3. tail.last < size => tail.last < size + 1 BY <1>2, <2>2
  <2>4. tail.last <= size => tail.last <= size + 1 BY <1>2, <2>2
  <2> QED BY <1>1, <1>3, <1>7, <2>1, <2>3, <2>4 DEF StreamInv, PlaceInv, size
<1>11. SentInv' BY <1>1, <1>7 DEF StreamInv, SentInv
<1> QED BY <1>8, <1>9, <1>10, <1>11 DEF StreamInv

\* The first line after a rotation opens a file the stream has not seen.
LEMMA OpenNext ==
  ASSUME StreamInv, WriteLog, logFile.inode = 0
  PROVE StreamInv'
<1> DEFINE n == written + 1
           inode == Len(opened) + 2
           new == [inode |-> inode, lines |-> <<n>>]
<1>1. /\ logFile' = new /\ written' = n /\ opened' = Append(opened, n)
      /\ UNCHANGED <<tail, sent, rotatedUnder>>
  BY DEF WriteLog
<1>2. /\ written \in Nat /\ n \in Nat /\ n = written + 1 /\ Len(opened) \in Nat /\ inode \in Nat
      /\ inode = Len(opened) + 2
  BY FileFacts
<1>3. new \in File /\ new.inode = inode /\ new.lines = <<n>> /\ Len(new.lines) = 1 /\ new.lines[1] = n
  BY <1>2 DEF File
<1>4. opened \in Seq(Nat) BY DEF StreamInv, FileInv
<1>5. /\ opened' \in Seq(Nat) /\ Len(opened') = Len(opened) + 1 /\ opened'[Len(opened) + 1] = n
      /\ \A i \in 1..Len(opened) : opened'[i] = opened[i]
  BY <1>1, <1>2, <1>4, AppendProperties
<1>6. n \in Range(opened') /\ Range(opened) \subseteq Range(opened')
  <2>1. DOMAIN opened' = 1..Len(opened') /\ DOMAIN opened = 1..Len(opened) BY <1>4, <1>5, LenProperties
  <2> QED BY <1>2, <1>5, <2>1 DEF Range
<1>7. Rotated = written
  <2>1. logFile.lines = <<>> BY DEF StreamInv, FileInv
  <2>2. Len(logFile.lines) = 0 BY <2>1
  <2> QED BY <1>2, <2>2, FileFacts DEF Rotated
<1> HIDE DEF new, n, inode
<1>8. tail.seen # inode /\ tail.seen \in Nat BY <1>2, FileFacts DEF StreamInv, TailInv
<1>9. Rotated' = written BY <1>1, <1>2, <1>3 DEF Rotated
<1>10. Position' = written BY <1>1, <1>2, <1>3, <1>8, <1>9 DEF Position
<1>11. FileInv'
  <2>1. \A i \in 1..1 : new.lines[i] = written + i BY <1>2, <1>3
  <2>2. 1 <= n /\ inode # 0 /\ inode = Len(opened') + 1 BY <1>2, <1>5
  <2> QED BY <1>1, <1>2, <1>3, <1>5, <1>6, <1>9, <2>1, <2>2 DEF FileInv
<1>12. TailInv' BY <1>1, <1>2, <1>5, <1>8 DEF StreamInv, TailInv
<1>13. PlaceInv'
  <2>1. inode # 1 BY <1>2
  <2>2. ~rotatedUnder => tail.at # "read" BY <1>8 DEF StreamInv, PlaceInv
  <2> QED BY <1>1, <1>3, <1>8, <2>1, <2>2 DEF PlaceInv
<1>14. SentInv'
  <2>1. ~rotatedUnder => \A i \in 1..Len(sent) : sent[i] <= written
    BY <1>2, <1>7, FileFacts DEF StreamInv, SentInv
  <2> QED BY <1>1, <1>6, <1>10, <2>1 DEF StreamInv, SentInv
<1> QED BY <1>11, <1>12, <1>13, <1>14 DEF StreamInv

\* A rotation, while the stream is not between its stat and its open.
LEMMA RotateStep ==
  ASSUME StreamInv, Rotate
  PROVE StreamInv'
<1> DEFINE new == [inode |-> 0, lines |-> <<>>]
<1>1. logFile' = new /\ rotatedUnder' = (rotatedUnder \/ tail.at = "read")
      /\ UNCHANGED <<written, opened, tail, sent>>
  BY DEF Rotate
<1>2. new \in File /\ new.inode = 0 /\ new.lines = <<>> /\ Len(new.lines) = 0 BY DEF File
<1>3. written \in Nat /\ tail.last \in Nat /\ tail.seen \in Nat BY FileFacts
<1>4. Rotated' = written BY <1>1, <1>2, <1>3 DEF Rotated
<1>5. Position' = written
  <2>1. tail.seen = 0 => tail.last = 0 BY DEF StreamInv, TailInv
  <2> QED BY <1>1, <1>2, <1>3, <1>4, <2>1 DEF Position
<1> HIDE DEF new
<1>6. FileInv'
  <2>1. 0 <= written /\ ~(0 > 1) /\ 1..0 = {} BY <1>3
  <2> QED BY <1>1, <1>2, <2>1 DEF StreamInv, FileInv
<1>7. TailInv' BY <1>1 DEF StreamInv, TailInv
<1>8. PlaceInv'
  <2>1. tail.seen = 0 => tail.last = 0 /\ sent = <<>> BY DEF StreamInv, TailInv
  <2>2. ~rotatedUnder' => tail.at # "read" BY <1>1
  <2>3. logFile'.inode = 0 /\ Len(logFile'.lines) = 0 /\ tail' = tail /\ sent' = sent BY <1>1, <1>2
  <2> QED BY <2>1, <2>2, <2>3 DEF PlaceInv
<1>9. SentInv'
  <2>1. ~rotatedUnder => \A i \in 1..Len(sent) : sent[i] <= written
    BY <1>3, FileFacts DEF StreamInv, SentInv
  <2> QED BY <1>1, <1>5, <2>1 DEF StreamInv, SentInv
<1> QED BY <1>6, <1>7, <1>8, <1>9 DEF StreamInv

\* The stream opens at the end of the file there is.
LEMMA OpenStreamStep ==
  ASSUME StreamInv, OpenStream
  PROVE StreamInv'
<1> DEFINE size == Len(logFile.lines)
           new == [at |-> "poll", seen |-> logFile.inode, last |-> size]
<1>1. tail.at = "closed" /\ tail' = new /\ UNCHANGED <<logFile, written, opened, sent, rotatedUnder>>
  BY DEF OpenStream
<1>2. logFile.inode \in Nat /\ size \in Nat /\ Rotated \in Nat /\ Len(opened) \in Nat BY FileFacts
<1>3. new \in Tailing /\ new.at = "poll" /\ new.seen = logFile.inode /\ new.last = size
  BY <1>2 DEF Tailing
<1>4. sent = <<>> /\ Len(sent) = 0
  <2>1. sent = <<>> BY <1>1 DEF StreamInv, TailInv
  <2> QED BY <2>1
<1>5. logFile.inode = 0 => size = 0
  <2>1. logFile.inode = 0 => logFile.lines = <<>> BY DEF StreamInv, FileInv
  <2> QED BY <2>1
<1>6. logFile.inode <= Len(opened) + 1 BY <1>2 DEF StreamInv, FileInv
<1>7. FileInv' BY <1>1 DEF StreamInv, FileInv, Rotated
<1> HIDE DEF new
<1>8. TailInv' BY <1>1, <1>3, <1>4, <1>5, <1>6 DEF StreamInv, TailInv
<1>9. PlaceInv' BY <1>1, <1>2, <1>3, <1>4 DEF PlaceInv
<1>10. SentInv' BY <1>1, <1>4 DEF SentInv
<1> QED BY <1>7, <1>8, <1>9, <1>10 DEF StreamInv

\* The stat: another file is read from its start.
LEMMA StatStep ==
  ASSUME StreamInv, Stat
  PROVE StreamInv'
<1> DEFINE size == Len(logFile.lines)
           from == IF logFile.inode # tail.seen THEN 0 ELSE tail.last
           new == [at |-> IF size > from THEN "read" ELSE "poll", seen |-> logFile.inode, last |-> from]
<1>1. /\ tail.at = "poll" /\ logFile.inode # 0 /\ tail' = new
      /\ UNCHANGED <<logFile, written, opened, sent, rotatedUnder>>
  BY DEF Stat
<1>2. /\ logFile.inode \in Nat /\ size \in Nat /\ Rotated \in Nat /\ Len(opened) \in Nat
      /\ tail.last \in Nat /\ tail.seen \in Nat
  BY FileFacts
<1>3. from \in Nat BY <1>2
<1>4. new \in Tailing /\ new.seen = logFile.inode /\ new.last = from BY <1>2, <1>3 DEF Tailing
<1>5. new.at = IF size > from THEN "read" ELSE "poll" OBVIOUS
<1>6. logFile.inode <= Len(opened) + 1 BY <1>2 DEF StreamInv, FileInv
<1>7. Rotated' = Rotated BY <1>1 DEF Rotated
<1>8. Position' = Rotated + from BY <1>1, <1>4, <1>7 DEF Position
<1>9. Position = Rotated + from BY <1>2 DEF Position
<1> HIDE DEF new
<1>10. FileInv' BY <1>1, <1>7 DEF StreamInv, FileInv
<1>11. TailInv' BY <1>1, <1>3, <1>4, <1>5, <1>6 DEF StreamInv, TailInv
<1>12. PlaceInv'
  <2>1. ~rotatedUnder => from <= size BY <1>2 DEF StreamInv, PlaceInv
  <2>2. ~rotatedUnder /\ sent # <<>> => IF from = 0 THEN logFile.inode > 1 ELSE sent[Len(sent)] = Position
    <3>1. CASE logFile.inode = tail.seen BY <3>1 DEF StreamInv, PlaceInv
    <3>2. CASE logFile.inode # tail.seen
      <4>1. ~rotatedUnder => logFile.inode # 1 BY <1>1, <3>2 DEF StreamInv, PlaceInv
      <4> QED BY <1>1, <1>2, <3>2, <4>1
    <3> QED BY <3>1, <3>2
  <2> HIDE DEF from
  <2>3. new.at = "read" => from < size BY <1>2, <1>3, <1>5
  <2> QED BY <1>1, <1>4, <1>8, <1>9, <2>1, <2>2, <2>3 DEF PlaceInv
<1>13. SentInv' BY <1>1, <1>8, <1>9 DEF StreamInv, SentInv
<1> QED BY <1>10, <1>11, <1>12, <1>13 DEF StreamInv

\* The larger of two numbers.
LEMMA MaxOfTwo ==
  ASSUME NEW a \in Nat, NEW b \in Nat
  PROVE Max({a, b}) \in Nat /\ (a < b => Max({a, b}) = b)
<1>1. \E x \in {a, b} : \A y \in {a, b} : x >= y OBVIOUS
<1>2. Max({a, b}) \in {a, b} /\ \A y \in {a, b} : Max({a, b}) >= y BY <1>1 DEF Max
<1> QED BY <1>2

\* The lines from the position on are sent.
LEMMA ReadOnStep ==
  ASSUME StreamInv, ReadOn
  PROVE StreamInv'
<1> DEFINE size == Len(logFile.lines)
           last == tail.last
           more == SubSeq(logFile.lines, last + 1, size)
           end == Max({last, size})
           new == [tail EXCEPT !.at = "poll", !.last = end]
<1>1. /\ tail.at = "read" /\ sent' = sent \o more /\ tail' = new
      /\ UNCHANGED <<logFile, written, opened, rotatedUnder>>
  BY DEF ReadOn
<1>2. /\ logFile.inode \in Nat /\ size \in Nat /\ Rotated \in Nat /\ last \in Nat /\ tail.seen \in Nat
      /\ logFile.lines \in Seq(Nat) /\ Len(sent) \in Nat /\ Position \in Nat
  BY FileFacts
<1>3. end \in Nat /\ (last < size => end = size) BY <1>2, MaxOfTwo
<1>4. sent \in Seq(Nat) /\ tail \in Tailing BY DEF StreamInv, TailInv
<1>5. /\ more \in Seq(Nat)
      /\ last < size => /\ Len(more) = size - last
                        /\ \A i \in 1..(size - last) : more[i] = logFile.lines[last + i]
  <2>1. \A i \in (last + 1)..size : logFile.lines[i] \in Nat BY <1>2, ElementOfSeq
  <2>2. last + 1 \in Int /\ size \in Int BY <1>2
  <2>3. /\ more \in Seq(Nat)
        /\ Len(more) = IF last + 1 <= size THEN size - (last + 1) + 1 ELSE 0
        /\ \A i \in 1..(size - (last + 1) + 1) : more[i] = logFile.lines[(last + 1) + i - 1]
    BY <2>1, <2>2, SubSeqProperties
  <2> HIDE DEF more, size, last
  <2>4. size - (last + 1) + 1 = size - last BY <1>2
  <2>5. \A i \in 1..(size - last) : (last + 1) + i - 1 = last + i BY <1>2
  <2>6. last < size => last + 1 <= size BY <1>2
  <2>7. last < size => Len(more) = size - last BY <2>3, <2>4, <2>6
  <2>8. \A i \in 1..(size - last) : more[i] = logFile.lines[last + i]
    <3> SUFFICES ASSUME NEW i \in 1..(size - last) PROVE more[i] = logFile.lines[last + i] OBVIOUS
    <3>1. more[i] = logFile.lines[(last + 1) + i - 1] BY <2>3, <2>4
    <3> QED BY <2>5, <3>1
  <2> QED BY <2>3, <2>7, <2>8
<1> HIDE DEF end
<1>6. new \in Tailing /\ new.at = "poll" /\ new.seen = tail.seen /\ new.last = end
  BY <1>3, <1>4 DEF Tailing
<1>7. Rotated' = Rotated BY <1>1 DEF Rotated
<1>8. FileInv' BY <1>1, <1>7 DEF StreamInv, FileInv
<1> HIDE DEF new, more
<1>9. sent' \in Seq(Nat) /\ Len(sent') = Len(sent) + Len(more)
      /\ \A i \in 1..(Len(sent) + Len(more)) : sent'[i] = IF i <= Len(sent) THEN sent[i] ELSE more[i - Len(sent)]
  BY <1>1, <1>4, <1>5, ConcatProperties
<1>10. TailInv' BY <1>1, <1>6, <1>9 DEF StreamInv, TailInv
<1>11. ASSUME ~rotatedUnder
       PROVE /\ last < size /\ logFile.inode = tail.seen /\ Position' = Rotated + size /\ size # 0
             /\ Len(sent') = Len(sent) + (size - last) /\ Len(sent') # 0
             /\ \A i \in 1..Len(sent) : sent'[i] = sent[i]
             /\ \A i \in 1..(size - last) : sent'[Len(sent) + i] = Rotated + last + i
  <2>1. last < size /\ logFile.inode = tail.seen BY <1>1, <1>11 DEF StreamInv, PlaceInv
  <2>2. Position' = Rotated + size BY <1>1, <1>3, <1>6, <1>7, <2>1 DEF Position
  <2>3. \A i \in 1..size : logFile.lines[i] = Rotated + i BY DEF StreamInv, FileInv
  <2>4. Len(more) = size - last /\ \A i \in 1..(size - last) : more[i] = logFile.lines[last + i] BY <1>5, <2>1
  <2> DEFINE k == Len(sent)  d == size - last
  <2>5. k \in Nat /\ d \in Nat /\ d > 0 /\ last + d = size BY <1>2, <2>1
  <2>6. \A i \in 1..d : more[i] = Rotated + last + i
    <3> HIDE DEF size, last
    <3> SUFFICES ASSUME NEW i \in 1..d PROVE more[i] = Rotated + last + i OBVIOUS
    <3>1. last + i \in 1..size /\ Rotated + (last + i) = Rotated + last + i BY <1>2, <2>5
    <3>2. more[i] = logFile.lines[last + i] BY <2>4
    <3>3. logFile.lines[last + i] = Rotated + (last + i) BY <2>3, <3>1
    <3> QED BY <3>1, <3>2, <3>3
  <2>7. \A i \in 1..k : sent'[i] = sent[i] BY <1>9, <2>4, <2>5
  <2>8. \A i \in 1..d : sent'[k + i] = more[i]
    <3> SUFFICES ASSUME NEW i \in 1..d PROVE sent'[k + i] = more[i] OBVIOUS
    <3>1. k + i \in 1..(k + Len(more)) /\ ~(k + i <= k) /\ (k + i) - k = i BY <2>4, <2>5
    <3> QED BY <1>9, <3>1
  <2>9. Len(sent') = k + d BY <1>9, <2>4
  <2> HIDE DEF k, d
  <2>10. Len(sent') # 0 BY <2>5, <2>9
  <2>11. size # 0 BY <1>2, <2>1
  <2> QED BY <2>1, <2>2, <2>6, <2>7, <2>8, <2>9, <2>10, <2>11 DEF k, d
<1> HIDE DEF size, last
<1>12. PlaceInv'
  <2> SUFFICES ASSUME ~rotatedUnder PROVE PlaceInv' BY <1>1 DEF PlaceInv
  <2> DEFINE k == Len(sent)  d == size - last
  <2>1. last < size /\ logFile.inode = tail.seen /\ Position' = Rotated + size /\ size # 0 /\ end = size
    BY <1>3, <1>11
  <2>2. k \in Nat /\ d \in Nat /\ d > 0 /\ last + d = size BY <1>2, <2>1
  <2>3. Len(sent') = k + d /\ d \in 1..d BY <1>11, <2>2
  <2>4. sent'[k + d] = Rotated + last + d BY <1>11, <2>3
  <2>5. sent'[Len(sent')] = Position' BY <1>2, <2>1, <2>2, <2>3, <2>4
  <2>6. tail.at # "closed" /\ (logFile.inode = 1 => tail.seen = 1) BY <1>1 DEF StreamInv, PlaceInv
  <2>7. tail'.at = "poll" /\ tail'.seen = tail.seen /\ tail'.last = size BY <1>1, <1>6, <2>1
  <2>8. size <= Len(logFile'.lines) BY <1>1, <1>2 DEF size
  <2> HIDE DEF k, d
  <2> QED BY <1>1, <2>1, <2>5, <2>6, <2>7, <2>8 DEF PlaceInv
<1>13. SentInv'
  <2> SUFFICES ASSUME ~rotatedUnder PROVE SentInv' BY <1>1 DEF SentInv
  <2> DEFINE k == Len(sent)  d == size - last
  <2>1. last < size /\ logFile.inode = tail.seen /\ Position' = Rotated + size BY <1>11
  <2>2. k \in Nat /\ d \in Nat /\ d > 0 /\ last + d = size BY <1>2, <2>1
  <2>3. Len(sent') = k + d BY <1>11
  <2>4. \A i \in 1..k : sent'[i] = sent[i] BY <1>11
  <2>5. \A i \in 1..d : sent'[k + i] = Rotated + last + i BY <1>11
  <2>6. Position = Rotated + last BY <2>1 DEF Position, last
  <2>7. /\ \A i \in 1..k : sent[i] <= Position /\ sent[i] \in Nat
    BY FileFacts DEF StreamInv, SentInv
  <2>8. \A i \in 1..k - 1 :
          /\ sent[i] < sent[i + 1]
          /\ sent[i + 1] = sent[i] + 1 \/ sent[i + 1] \in Range(opened)
    BY DEF StreamInv, SentInv
  <2>9. k # 0 => sent[k] = Position \/ Rotated + last + 1 \in Range(opened)
    <3>1. k # 0 => sent # <<>> BY DEF k
    <3>2. CASE last = 0
      <4>1. k # 0 => logFile.inode > 1 BY <2>1, <3>1, <3>2 DEF StreamInv, PlaceInv, last
      <4>2. k # 0 => Rotated + 1 \in Range(opened) BY <4>1 DEF StreamInv, FileInv
      <4>3. Rotated + last + 1 = Rotated + 1 BY <1>2, <3>2
      <4> QED BY <4>2, <4>3
    <3>3. CASE last # 0 BY <2>1, <3>1, <3>3 DEF StreamInv, PlaceInv, last, k
    <3> QED BY <3>2, <3>3
  <2> HIDE DEF k, d
  <2>10. \A i \in 1..Len(sent') : sent'[i] <= Position'
    <3> SUFFICES ASSUME NEW i \in 1..Len(sent') PROVE sent'[i] <= Position' OBVIOUS
    <3>1. CASE i <= k BY <1>2, <2>1, <2>2, <2>3, <2>4, <2>6, <2>7, <3>1
    <3>2. CASE i > k
      <4> DEFINE j == i - k
      <4>1. j \in 1..d /\ k + j = i BY <2>2, <2>3, <3>2
      <4>2. sent'[i] = Rotated + last + j BY <2>5, <4>1
      <4> QED BY <1>2, <2>1, <2>2, <4>1, <4>2
    <3> QED BY <2>2, <2>3, <3>1, <3>2
  <2>11. \A i \in 1..Len(sent') - 1 :
           /\ sent'[i] < sent'[i + 1]
           /\ sent'[i + 1] = sent'[i] + 1 \/ sent'[i + 1] \in Range(opened)
    <3> SUFFICES ASSUME NEW i \in 1..Len(sent') - 1
                 PROVE /\ sent'[i] < sent'[i + 1]
                       /\ sent'[i + 1] = sent'[i] + 1 \/ sent'[i + 1] \in Range(opened)
      OBVIOUS
    <3>1. CASE i < k
      <4>1. i \in 1..k /\ i + 1 \in 1..k /\ i \in 1..k - 1 BY <2>2, <2>3, <3>1
      <4> QED BY <2>4, <2>8, <4>1
    <3>2. CASE i = k
      <4>1. k # 0 /\ k \in 1..k /\ 1 \in 1..d BY <2>2, <3>2
      <4>2. sent'[i] = sent[k] /\ sent'[i + 1] = Rotated + last + 1 BY <2>4, <2>5, <3>2, <4>1
      <4>3. sent[k] \in Nat /\ sent[k] <= Rotated + last BY <2>6, <2>7, <4>1
      <4>4. sent'[i] < sent'[i + 1] BY <1>2, <4>2, <4>3
      <4>5. sent'[i + 1] = sent'[i] + 1 \/ sent'[i + 1] \in Range(opened)
        <5>1. CASE sent[k] = Position BY <1>2, <2>6, <4>2, <5>1
        <5>2. CASE Rotated + last + 1 \in Range(opened) BY <4>2, <5>2
        <5> QED BY <2>9, <4>1, <5>1, <5>2
      <4> QED BY <4>4, <4>5
    <3>3. CASE i > k
      <4> DEFINE j == i - k
      <4>1. j \in 1..d /\ j + 1 \in 1..d /\ k + j = i /\ k + (j + 1) = i + 1 BY <2>2, <2>3, <3>3
      <4>2. sent'[i] = Rotated + last + j /\ sent'[i + 1] = Rotated + last + (j + 1) BY <2>5, <4>1
      <4> QED BY <1>2, <2>2, <4>1, <4>2
    <3> QED BY <2>2, <3>1, <3>2, <3>3
  <2> QED BY <1>1, <2>10, <2>11 DEF SentInv
<1> QED BY <1>8, <1>10, <1>12, <1>13 DEF StreamInv

\* The invariant of the log stream, from the opening of the log on.
LEMMA StreamInductive == WebSpec => []StreamInv
<1>1. WebInit => StreamInv
  <2> SUFFICES ASSUME WebInit PROVE StreamInv OBVIOUS
  <2>1. /\ logFile \in File /\ logFile.inode = 1 /\ logFile.lines = <<>> /\ Len(logFile.lines) = 0
        /\ written = 0 /\ opened = <<>> /\ Len(opened) = 0 /\ sent = <<>> /\ Len(sent) = 0
    BY DEF WebInit, File
  <2>2. tail \in Tailing /\ tail.at = "closed" /\ tail.seen = 0 /\ tail.last = 0 /\ rotatedUnder = FALSE
    BY DEF WebInit, Tailing
  <2>3. opened \in Seq(Nat) /\ sent \in Seq(Nat) BY <2>1
  <2>4. FileInv BY <2>1, <2>3 DEF FileInv
  <2>5. TailInv
    <3>1. tail.seen <= Len(opened) + 1 BY <2>1, <2>2
    <3>2. rotatedUnder \in BOOLEAN /\ tail.at # "read" BY <2>2
    <3> QED BY <2>1, <2>2, <2>3, <3>1, <3>2 DEF TailInv
  <2>6. PlaceInv BY <2>1, <2>2 DEF PlaceInv
  <2>7. SentInv BY <2>1 DEF SentInv
  <2> QED BY <2>4, <2>5, <2>6, <2>7 DEF StreamInv
<1>2. StreamInv /\ [WebNext]_webVars => StreamInv'
  <2> SUFFICES ASSUME StreamInv, [WebNext]_webVars PROVE StreamInv' OBVIOUS
  <2>1. CASE UNCHANGED logVars
    BY <2>1 DEF logVars, StreamInv, FileInv, TailInv, PlaceInv, SentInv, Rotated, Position
  <2>2. CASE WriteLog BY <2>2, AppendLine, OpenNext
  <2>3. CASE Rotate BY <2>3, RotateStep
  <2>4. CASE OpenStream BY <2>4, OpenStreamStep
  <2>5. CASE Stat BY <2>5, StatStep
  <2>6. CASE ReadOn BY <2>6, ReadOnStep
  <2>7. CASE UNCHANGED webVars BY <2>1, <2>7 DEF webVars, logVars
  <2>8. CASE Clock \/ \E c \in Caller : Request(c) BY <2>1, <2>8 DEF Clock, Request
  <2> QED BY <2>2, <2>3, <2>4, <2>5, <2>6, <2>7, <2>8 DEF WebNext
<1> QED BY <1>1, <1>2, PTL DEF WebSpec

\* The stream yields the lines of the log in order and none twice, and passes over lines only
\* where a rotation took the end of a file, unless the rotation falls between its stat and its
\* open (app.py:878): for any number of lines and rotations.
THEOREM StreamFollowsLogCorrect == WebSpec => []StreamFollowsLog
<1>1. StreamInv => StreamFollowsLog BY DEF StreamInv, SentInv, StreamFollowsLog
<1> QED BY <1>1, StreamInductive, PTL

------------------------------------------------------------
(* The guard of the web application.  What is kept of a caller's requests is the end of all    *)
(* that were let in; those dropped are older than the window.                                  *)
Times == 0..MaxTime
Suffix(s, m) == SubSeq(s, m + 1, Len(s))
GuardTypes ==
  /\ now \in Times /\ admitted \in [Caller -> Seq(Times)] /\ windows \in [Caller -> Seq(Times)]
  /\ \A c \in Caller : \A i \in 1..Len(admitted[c]) : admitted[c][i] <= now
KeptInv ==
  \A c \in Caller :
    /\ Len(windows[c]) <= RatePerWindow
    /\ \E m \in 0..Len(admitted[c]) :
         /\ windows[c] = Suffix(admitted[c], m)
         /\ \A i \in 1..m : admitted[c][i] < now - WindowLength
GuardInv == GuardTypes /\ KeptInv /\ RateBounded

\* What is dropped from a suffix is dropped from the whole.
LEMMA SuffixOfSuffix ==
  ASSUME NEW S, NEW s \in Seq(S), NEW m \in 0..Len(s), NEW k \in 0..Len(s) - m
  PROVE  /\ Suffix(s, m) \in Seq(S) /\ Len(Suffix(s, m)) = Len(s) - m
         /\ \A i \in 1..Len(s) - m : Suffix(s, m)[i] = s[m + i]
         /\ SubSeq(Suffix(s, m), k + 1, Len(Suffix(s, m))) = Suffix(s, m + k)
<1>1. Len(s) \in Nat BY LenProperties
<1>2. ASSUME NEW j \in 0..Len(s)
      PROVE  /\ Suffix(s, j) \in Seq(S) /\ Len(Suffix(s, j)) = Len(s) - j
             /\ \A i \in 1..Len(s) - j : Suffix(s, j)[i] = s[j + i]
  <2>1. j + 1 \in 1..Len(s) + 1 /\ Len(s) \in j..Len(s) BY <1>1
  <2>2. Suffix(s, j) \in Seq(S) /\ Len(Suffix(s, j)) = Len(s) - j BY <1>1, SubSeqProperties DEF Suffix
  <2>3. \A i \in 1..Len(s) - j : Suffix(s, j)[i] = s[j + i]
    <3> SUFFICES ASSUME NEW i \in 1..Len(s) - j PROVE Suffix(s, j)[i] = s[j + i] OBVIOUS
    <3>1. Suffix(s, j)[i] = s[j + 1 + i - 1] BY <1>1, SubSeqProperties DEF Suffix
    <3>2. j + 1 + i - 1 = j + i BY <1>1
    <3> QED BY <3>1, <3>2
  <2> QED BY <2>2, <2>3
<1> DEFINE u == Suffix(s, m)
<1>3. u \in Seq(S) /\ Len(u) = Len(s) - m /\ \A i \in 1..Len(s) - m : u[i] = s[m + i] BY <1>2
<1> HIDE DEF u
<1>4. m + k \in 0..Len(s) /\ k \in 0..Len(u) BY <1>1, <1>3
<1> DEFINE a == SubSeq(u, k + 1, Len(u))
           b == Suffix(s, m + k)
<1>5. b \in Seq(S) /\ Len(b) = Len(s) - (m + k) /\ \A i \in 1..Len(s) - (m + k) : b[i] = s[m + k + i]
  BY <1>2, <1>4
<1>6. Len(u) \in Nat BY <1>3, LenProperties
<1>7. a \in Seq(S) /\ Len(a) = Len(u) - k BY <1>3, <1>4, <1>6, SubSeqProperties
<1>8. \A i \in 1..Len(u) - k : a[i] = s[m + k + i]
  <2> SUFFICES ASSUME NEW i \in 1..Len(u) - k PROVE a[i] = s[m + k + i] OBVIOUS
  <2>1. a[i] = u[k + 1 + i - 1] BY <1>3, <1>4, <1>6, SubSeqProperties
  <2>2. k + 1 + i - 1 = k + i /\ k + i \in 1..Len(s) - m /\ m + (k + i) = m + k + i BY <1>1, <1>3, <1>4
  <2> QED BY <1>3, <2>1, <2>2
<1> HIDE DEF a, b
<1>9. Len(a) = Len(b) BY <1>1, <1>3, <1>5, <1>7
<1>10. \A i \in 1..Len(a) : a[i] = b[i] BY <1>1, <1>3, <1>5, <1>7, <1>8
<1>11. a = b BY <1>5, <1>7, <1>9, <1>10, SeqEqual
<1> QED BY <1>3, <1>11 DEF a, b, u

\* A request that is let in: fewer than its share are kept, so the one its share before it is
\* among those dropped, which are older than the window.
LEMMA RequestStep ==
  ASSUME GuardInv, NEW c \in Caller, Request(c)
  PROVE  GuardInv'
<1> DEFINE adm == admitted[c]
           win == windows[c]
<1>1. adm \in Seq(Times) /\ Len(adm) \in Nat /\ win \in Seq(Times) /\ Len(win) \in Nat /\ now \in Times
  BY LenProperties DEF GuardInv, GuardTypes
<1>2. PICK m \in 0..Len(adm) : win = Suffix(adm, m) /\ \A i \in 1..m : adm[i] < now - WindowLength
  BY DEF GuardInv, KeptInv
<1>3. PICK k \in Dropped(win) :
        LET hits == SubSeq(win, k + 1, Len(win))
            room == Len(hits) < RatePerWindow IN
        /\ windows' = [windows EXCEPT ![c] = IF room THEN Append(hits, now) ELSE hits]
        /\ admitted' = IF room THEN [admitted EXCEPT ![c] = Append(adm, now)] ELSE admitted
        /\ now' = now
  BY DEF Request
<1>4. k \in 0..Len(win) /\ \A i \in 1..k : win[i] < now - WindowLength BY DEF Dropped, Stale
<1> DEFINE hits == SubSeq(win, k + 1, Len(win))
           longer == Append(adm, now)
           kept == IF Len(hits) < RatePerWindow THEN Append(hits, now) ELSE hits
<1>5. /\ windows' = [windows EXCEPT ![c] = kept] /\ now' = now
      /\ admitted' = IF Len(hits) < RatePerWindow THEN [admitted EXCEPT ![c] = longer] ELSE admitted
  BY <1>3
<1> HIDE DEF adm, win
<1>6. Len(win) = Len(adm) - m /\ k \in 0..Len(adm) - m
  <2>1. 0 \in 0..Len(adm) - m BY <1>1
  <2>2. Len(win) = Len(adm) - m BY <1>1, <1>2, <2>1, SuffixOfSuffix
  <2> QED BY <1>4, <2>2
<1>7. \A i \in 1..Len(adm) - m : win[i] = adm[m + i] BY <1>1, <1>2, <1>6, SuffixOfSuffix
<1> DEFINE n == m + k
<1>8. hits = Suffix(adm, n) BY <1>1, <1>2, <1>6, SuffixOfSuffix
<1>9. n \in 0..Len(adm) BY <1>1, <1>6
<1>10. \A i \in 1..n : adm[i] < now - WindowLength
  <2> SUFFICES ASSUME NEW i \in 1..n PROVE adm[i] < now - WindowLength OBVIOUS
  <2>1. CASE i <= m BY <1>2, <2>1
  <2>2. CASE i > m
    <3>1. i - m \in 1..k /\ i - m \in 1..Len(adm) - m /\ m + (i - m) = i BY <1>1, <1>6, <2>2
    <3>2. win[i - m] = adm[i] BY <1>7, <3>1
    <3> QED BY <1>4, <3>1, <3>2
  <2> QED BY <2>1, <2>2
<1> HIDE DEF n, hits, longer, kept
<1>11. hits \in Seq(Times) /\ Len(hits) = Len(adm) - n
  <2>1. 0 \in 0..Len(adm) - n BY <1>1, <1>9
  <2> QED BY <1>1, <1>8, <1>9, <2>1, SuffixOfSuffix
<1>12. /\ longer \in Seq(Times) /\ Len(longer) = Len(adm) + 1 /\ longer[Len(adm) + 1] = now
       /\ \A i \in 1..Len(adm) : longer[i] = adm[i]
  BY <1>1, AppendProperties DEF longer
<1>13. \A i \in 1..Len(adm) : adm[i] \in Nat /\ adm[i] <= now
  <2>1. \A i \in 1..Len(adm) : adm[i] \in Times BY <1>1, ElementOfSeq
  <2>2. \A i \in 1..Len(adm) : adm[i] <= now BY DEF adm, GuardInv, GuardTypes
  <2> QED BY <2>1, <2>2, WebConstants DEF Times
<1>14. now \in Nat BY <1>1, WebConstants DEF Times
<1>15. CASE Len(hits) < RatePerWindow
  <2>1. kept = Append(hits, now) BY <1>15 DEF kept
  <2>2. kept \in Seq(Times) /\ Len(kept) = Len(hits) + 1 BY <1>1, <1>11, <2>1, AppendProperties
  <2>3. kept = Suffix(longer, n)
    <3>1. n \in 0..Len(longer) BY <1>1, <1>9, <1>12
    <3>1a. 0 \in 0..Len(longer) - n BY <1>1, <1>9, <1>12
    <3>2. /\ Suffix(longer, n) \in Seq(Times) /\ Len(Suffix(longer, n)) = Len(longer) - n
          /\ \A i \in 1..Len(longer) - n : Suffix(longer, n)[i] = longer[n + i]
      BY <1>12, <3>1, <3>1a, SuffixOfSuffix
    <3>3. Len(kept) = Len(Suffix(longer, n)) BY <1>1, <1>9, <1>11, <1>12, <2>2, <3>2
    <3>4. \A i \in 1..Len(kept) : kept[i] = Suffix(longer, n)[i]
      <4> SUFFICES ASSUME NEW i \in 1..Len(kept) PROVE kept[i] = Suffix(longer, n)[i] OBVIOUS
      <4>1. i \in 1..Len(longer) - n /\ Suffix(longer, n)[i] = longer[n + i] BY <2>2, <3>2, <3>3
      <4>2. CASE i <= Len(hits)
        <5>1. kept[i] = hits[i] BY <1>1, <1>11, <2>1, <4>2, AppendProperties
        <5>2. 0 \in 0..Len(adm) - n /\ i \in 1..Len(adm) - n BY <1>1, <1>9, <1>11, <4>2
        <5>3. hits[i] = adm[n + i] BY <1>1, <1>8, <1>9, <5>2, SuffixOfSuffix
        <5>4. n + i \in 1..Len(adm) BY <1>1, <1>9, <5>2
        <5> QED BY <1>12, <4>1, <5>1, <5>3, <5>4
      <4>3. CASE i > Len(hits)
        <5>a. Len(hits) \in Nat /\ Len(adm) \in Nat /\ n \in Nat /\ i \in Nat BY <1>1, <1>9, <1>11, LenProperties
        <5>b. i <= Len(hits) + 1 BY <2>2
        <5>c. i = Len(hits) + 1 BY <4>3, <5>a, <5>b
        <5>1. i = Len(hits) + 1 /\ n + i = Len(adm) + 1 BY <1>11, <5>a, <5>c
        <5>2. kept[i] = now BY <1>1, <1>11, <2>1, <5>1, AppendProperties
        <5> QED BY <1>12, <4>1, <5>1, <5>2
      <4> QED BY <1>1, <1>11, <4>2, <4>3
    <3> QED BY <2>2, <3>2, <3>3, <3>4, SeqEqual
  <2>4. admitted' = [admitted EXCEPT ![c] = longer] BY <1>5, <1>15
  <2>5. /\ admitted'[c] = longer /\ windows'[c] = kept
        /\ \A d \in Caller : d # c => admitted'[d] = admitted[d] /\ windows'[d] = windows[d]
    BY <1>5, <2>4 DEF GuardInv, GuardTypes
  <2>6. admitted' \in [Caller -> Seq(Times)] /\ windows' \in [Caller -> Seq(Times)]
    BY <1>5, <1>12, <2>2, <2>4 DEF GuardInv, GuardTypes
  <2>7. \A i \in 1..Len(longer) : longer[i] <= now
    <3> SUFFICES ASSUME NEW i \in 1..Len(longer) PROVE longer[i] <= now OBVIOUS
    <3>1. i \in 1..Len(adm) \/ i = Len(adm) + 1 BY <1>1, <1>12
    <3> QED BY <1>12, <1>13, <1>14, <3>1
  <2>8. GuardTypes' BY <1>1, <1>5, <2>5, <2>6, <2>7 DEF GuardInv, GuardTypes
  <2>9. KeptInv'
    <3>1. Len(kept) <= RatePerWindow BY <1>1, <1>9, <1>11, <1>15, <2>2, WebConstants
    <3>2. n \in 0..Len(longer) BY <1>1, <1>9, <1>12
    <3>3. \A i \in 1..n : longer[i] < now - WindowLength BY <1>1, <1>9, <1>10, <1>12
    <3>4. \E j \in 0..Len(longer) : kept = Suffix(longer, j) /\ \A i \in 1..j : longer[i] < now - WindowLength
      BY <2>3, <3>2, <3>3
    <3>5. \A d \in Caller \ {c} :
            /\ Len(windows'[d]) <= RatePerWindow
            /\ \E j \in 0..Len(admitted'[d]) :
                 windows'[d] = Suffix(admitted'[d], j) /\ \A i \in 1..j : admitted'[d][i] < now' - WindowLength
      BY <1>5, <2>5 DEF GuardInv, KeptInv
    <3>6. \A d \in Caller :
            /\ Len(windows'[d]) <= RatePerWindow
            /\ \E j \in 0..Len(admitted'[d]) :
                 windows'[d] = Suffix(admitted'[d], j) /\ \A i \in 1..j : admitted'[d][i] < now' - WindowLength
      BY <1>5, <2>5, <3>1, <3>4, <3>5
    <3> QED BY <3>6 DEF KeptInv, Suffix
  <2>10. \A i \in 1..Len(longer) - RatePerWindow : longer[i + RatePerWindow] > longer[i] + WindowLength
    <3> SUFFICES ASSUME NEW i \in 1..Len(longer) - RatePerWindow
                 PROVE  longer[i + RatePerWindow] > longer[i] + WindowLength
      OBVIOUS
    <3>1. CASE i + RatePerWindow <= Len(adm)
      <4>1. i \in 1..Len(adm) - RatePerWindow /\ i \in 1..Len(adm) /\ i + RatePerWindow \in 1..Len(adm)
        BY <1>1, <3>1, WebConstants
      <4>2. adm[i + RatePerWindow] > adm[i] + WindowLength BY <4>1 DEF adm, GuardInv, RateBounded
      <4> QED BY <1>12, <4>1, <4>2
    <3>2. CASE i + RatePerWindow > Len(adm)
      <4>a. RatePerWindow \in Nat /\ Len(adm) \in Nat /\ n \in Nat /\ n <= Len(adm)
        BY <1>1, <1>9, WebConstants
      <4>b. Len(adm) - n < RatePerWindow BY <1>11, <1>15
      <4>c. i \in Nat /\ 1 <= i /\ i <= Len(adm) + 1 - RatePerWindow BY <1>12, <4>a
      <4>d. i + RatePerWindow = Len(adm) + 1 BY <3>2, <4>a, <4>c
      <4>e. i <= n BY <4>a, <4>b, <4>c, <4>d
      <4>1. i + RatePerWindow = Len(adm) + 1 /\ i <= n /\ i \in 1..n /\ i \in 1..Len(adm)
        BY <4>a, <4>c, <4>d, <4>e
      <4>2. longer[i + RatePerWindow] = now /\ longer[i] = adm[i] BY <1>12, <4>1
      <4>3. adm[i] < now - WindowLength /\ adm[i] \in Nat BY <1>10, <1>13, <4>1
      <4> QED BY <1>14, <4>2, <4>3, WebConstants
    <3> QED BY <1>1, <3>1, <3>2, WebConstants
  <2>11. RateBounded' BY <2>5, <2>10 DEF GuardInv, RateBounded
  <2> QED BY <2>8, <2>9, <2>11 DEF GuardInv
<1>16. CASE ~(Len(hits) < RatePerWindow)
  <2>1. kept = hits /\ admitted' = admitted BY <1>5, <1>16 DEF kept
  <2>2. windows'[c] = hits /\ \A d \in Caller : d # c => windows'[d] = windows[d]
    BY <1>5, <2>1 DEF GuardInv, GuardTypes
  <2>3. windows' \in [Caller -> Seq(Times)] BY <1>5, <1>11, <2>1 DEF GuardInv, GuardTypes
  <2>4. GuardTypes' BY <1>5, <2>1, <2>3 DEF GuardInv, GuardTypes
  <2>5. KeptInv'
    <3>1. Len(win) <= RatePerWindow BY DEF win, GuardInv, KeptInv
    <3>2. Len(hits) <= RatePerWindow BY <1>1, <1>6, <1>9, <1>11, <3>1, WebConstants DEF n
    <3>3. \E j \in 0..Len(adm) : hits = Suffix(adm, j) /\ \A i \in 1..j : adm[i] < now - WindowLength
      BY <1>8, <1>9, <1>10
    <3>4. \A d \in Caller :
            /\ Len(windows'[d]) <= RatePerWindow
            /\ \E j \in 0..Len(admitted[d]) :
                 windows'[d] = Suffix(admitted[d], j) /\ \A i \in 1..j : admitted[d][i] < now - WindowLength
      BY <2>2, <3>2, <3>3 DEF adm, GuardInv, KeptInv
    <3> QED BY <1>5, <2>1, <3>4 DEF KeptInv, Suffix
  <2>6. RateBounded' BY <2>1 DEF GuardInv, RateBounded
  <2> QED BY <2>4, <2>5, <2>6 DEF GuardInv
<1> QED BY <1>15, <1>16

\* The invariant of the request guard, from empty windows on.
LEMMA GuardInductive == WebSpec => []GuardInv
<1>1. WebInit => GuardInv
  <2> SUFFICES ASSUME WebInit PROVE GuardInv OBVIOUS
  <2>1. now = 0 /\ windows = [c \in Caller |-> <<>>] /\ admitted = [c \in Caller |-> <<>>] BY DEF WebInit
  <2>2. <<>> \in Seq(Times) /\ Len(<<>>) = 0 OBVIOUS
  <2>3. \A c \in Caller : windows[c] = <<>> /\ admitted[c] = <<>> /\ Len(windows[c]) = 0 /\ Len(admitted[c]) = 0
    BY <2>1, <2>2
  <2>4. GuardTypes BY <2>1, <2>2, <2>3, WebConstants DEF GuardTypes, Times
  <2>5. Suffix(<<>>, 0) = <<>> BY SubSeqEmpty DEF Suffix
  <2>6. KeptInv BY <2>3, <2>5, WebConstants DEF KeptInv
  <2>7. RateBounded BY <2>3, WebConstants DEF RateBounded
  <2> QED BY <2>4, <2>6, <2>7 DEF GuardInv
<1>2. GuardInv /\ [WebNext]_webVars => GuardInv'
  <2> SUFFICES ASSUME GuardInv, [WebNext]_webVars PROVE GuardInv' OBVIOUS
  <2>1. CASE UNCHANGED <<now, windows, admitted>>
    BY <2>1 DEF GuardInv, GuardTypes, KeptInv, RateBounded, Suffix
  <2>2. CASE Clock
    <3>1. now' = now + 1 /\ now < MaxTime /\ windows' = windows /\ admitted' = admitted BY <2>2 DEF Clock
    <3>2. now \in Nat /\ now' \in Times BY <3>1, WebConstants DEF GuardInv, GuardTypes, Times
    <3>3. \A c \in Caller : \A i \in 1..Len(admitted[c]) : admitted[c][i] \in Nat
      BY ElementOfSeq, WebConstants DEF GuardInv, GuardTypes, Times
    <3>4. GuardTypes' BY <3>1, <3>2, <3>3 DEF GuardInv, GuardTypes
    <3>5. \A c \in Caller : \A m \in 0..Len(admitted[c]), i \in Int :
            i \in 1..m /\ admitted[c][i] < now - WindowLength => admitted[c][i] < now' - WindowLength
      BY <3>1, <3>2, <3>3, LenProperties, WebConstants DEF GuardInv, GuardTypes
    <3>6. KeptInv'
      <4>1. ASSUME NEW c \in Caller
            PROVE  /\ Len(windows[c]) <= RatePerWindow
                   /\ \E m \in 0..Len(admitted[c]) :
                        windows[c] = Suffix(admitted[c], m) /\ \A i \in 1..m : admitted[c][i] < now' - WindowLength
        <5>1. PICK m \in 0..Len(admitted[c]) :
                windows[c] = Suffix(admitted[c], m) /\ \A i \in 1..m : admitted[c][i] < now - WindowLength
          BY DEF GuardInv, KeptInv
        <5>2. \A i \in 1..m : admitted[c][i] < now' - WindowLength BY <3>5, <5>1
        <5> QED BY <5>1, <5>2 DEF GuardInv, KeptInv
      <4> QED BY <3>1, <4>1 DEF KeptInv, Suffix
    <3> QED BY <3>1, <3>4, <3>6 DEF GuardInv, RateBounded
  <2>3. ASSUME NEW c \in Caller, Request(c) PROVE GuardInv' BY <2>3, RequestStep
  <2>4. CASE WriteLog \/ Rotate \/ OpenStream \/ Stat \/ ReadOn \/ UNCHANGED webVars
    BY <2>1, <2>4 DEF WriteLog, Rotate, OpenStream, Stat, ReadOn, webVars, guardVars
  <2> QED BY <2>2, <2>3, <2>4 DEF WebNext
<1> QED BY <1>1, <1>2, PTL DEF WebSpec

\* For any callers, share, window and requests: within any window of time no caller gets more
\* than its share in, wherever the window starts (app.py:141).
THEOREM RateBoundedCorrect == WebSpec => []RateBounded
<1>1. GuardInv => RateBounded BY DEF GuardInv
<1> QED BY <1>1, GuardInductive, PTL

\* What the stream has sent are lines that were written (app.py:878).
LinesInv ==
  /\ written \in 0..MaxLogLines
  /\ \A i \in 1..Len(sent) : sent[i] \in 1..written

\* The stream sends lines that were written.
LEMMA LinesInductive == WebSpec => []LinesInv
<1>1. WebInit => LinesInv
  <2> SUFFICES ASSUME WebInit PROVE LinesInv OBVIOUS
  <2>1. written = 0 /\ sent = <<>> /\ Len(sent) = 0 BY DEF WebInit
  <2> QED BY <2>1, WebConstants DEF LinesInv
<1>2. StreamInv /\ LinesInv /\ [WebNext]_webVars => LinesInv'
  <2> SUFFICES ASSUME StreamInv, LinesInv, [WebNext]_webVars PROVE LinesInv' OBVIOUS
  <2>1. CASE UNCHANGED <<written, sent>> BY <2>1 DEF LinesInv
  <2>2. CASE WriteLog
    <3>1. written < MaxLogLines /\ written' = written + 1 /\ sent' = sent BY <2>2 DEF WriteLog
    <3>2. written' \in 0..MaxLogLines BY <3>1, WebConstants DEF LinesInv
    <3>3. \A i \in 1..Len(sent) : sent[i] \in 1..written' BY <3>1 DEF LinesInv
    <3> QED BY <3>1, <3>2, <3>3 DEF LinesInv
  <2>3. CASE ReadOn
    <3> DEFINE size == Len(logFile.lines)
               more == SubSeq(logFile.lines, tail.last + 1, size)
    <3>1. written' = written /\ sent' = sent \o more BY <2>3 DEF ReadOn
    <3>2. /\ size \in Nat /\ Rotated \in Nat /\ tail.last \in Nat /\ logFile.lines \in Seq(Nat)
          /\ sent \in Seq(Nat) /\ Len(sent) \in Nat /\ written \in Nat
      BY FileFacts DEF StreamInv, TailInv, FileInv
    <3>3. \A i \in 1..size : logFile.lines[i] \in 1..written
      <4> SUFFICES ASSUME NEW i \in 1..size PROVE logFile.lines[i] \in 1..written OBVIOUS
      <4>1. logFile.lines[i] = Rotated + i BY DEF StreamInv, FileInv
      <4>2. Rotated = written - size BY DEF Rotated
      <4> QED BY <3>2, <4>1, <4>2
    <3>4. \A i \in (tail.last + 1)..size : logFile.lines[i] \in 1..written BY <3>2, <3>3
    <3>5. more \in Seq(1..written) BY <3>2, <3>4, SubSeqProperties
    <3> HIDE DEF more, size
    <3>6. sent \in Seq(1..written)
      <4>1. \A i \in 1..Len(sent) : sent[i] \in 1..written BY DEF LinesInv
      <4>2. sent = [i \in 1..Len(sent) |-> sent[i]] BY <3>2, LenProperties
      <4> QED BY <3>2, <4>1, <4>2
    <3>7. sent' \in Seq(1..written) BY <3>1, <3>5, <3>6, ConcatProperties
    <3>8. \A i \in 1..Len(sent') : sent'[i] \in 1..written BY <3>7, ElementOfSeq
    <3> QED BY <3>1, <3>8 DEF LinesInv
  <2>4. CASE Clock \/ (\E c \in Caller : Request(c)) \/ Rotate \/ OpenStream \/ Stat \/ UNCHANGED webVars
    BY <2>1, <2>4 DEF Clock, Request, Rotate, OpenStream, Stat, webVars, logVars
  <2> QED BY <2>2, <2>3, <2>4 DEF WebNext
<1> QED BY <1>1, <1>2, StreamInductive, PTL DEF WebSpec

\* In every state of every run a caller's window holds no more hits than its share, the stream
\* is at a place of a file there was, and what it sent are lines that were written (app.py:141, :878).
THEOREM WebTypeCorrect == WebSpec => []WebTypeOK
<1>1. StreamInv /\ GuardInv /\ LinesInv => WebTypeOK
  <2> SUFFICES ASSUME StreamInv, GuardInv, LinesInv PROVE WebTypeOK OBVIOUS
  <2>1. now \in 0..MaxTime /\ \A c \in Caller : Len(windows[c]) <= RatePerWindow
    BY DEF GuardInv, GuardTypes, KeptInv, Times
  <2>2. opened \in Seq(Nat) /\ Len(opened) \in Nat /\ sent \in Seq(Nat)
    BY LenProperties DEF StreamInv, FileInv, TailInv
  <2>3. logFile.inode \in 0..Len(opened) + 1 BY <2>2 DEF StreamInv, FileInv
  <2>4. tail.at \in {"closed", "poll", "read"} /\ tail.seen \in 0..Len(opened) + 1 /\ tail.last \in Nat
    BY <2>2 DEF StreamInv, TailInv, Tailing
  <2>5. \A i \in DOMAIN sent : sent[i] \in 1..written BY <2>2, LenProperties DEF LinesInv
  <2> QED BY <2>1, <2>3, <2>4, <2>5 DEF WebTypeOK, LinesInv
<1> QED BY <1>1, StreamInductive, GuardInductive, LinesInductive, PTL

-----------------------------------------------------------------------------
(* The configuration *)

Setting == [Key -> Int]
Getter == [at : Free \cup {"check", "create", "file", "env", "scale", "return"}, got : Nat]

ConfigTypes ==
  /\ environment \in Environments /\ objects \in Seq(Setting) /\ Len(objects) <= MaxObjects
  /\ config \in 0..Len(objects)
  /\ getter \in [ConfigThread -> Getter] /\ \A t \in ConfigThread : getter[t].got <= Len(objects)
  /\ edited \subseteq Key /\ met \subseteq ConfigThread /\ loadFailed \in BOOLEAN /\ collided \in BOOLEAN

\* A value is one of S, or the floor that one of S was raised to.
OneOfOrFloor(k, v, S, lift) ==
  v \in S \/ (lift /\ k \in DOMAIN TokenFloors /\ v = TokenFloors[k] /\ \E x \in S : x < TokenFloors[k])
\* May a value have been raised? Reasoning is on in the end, or was on while two loads overlapped.
CanLift ==
  \/ Base("reasoning_model") = 1
  \/ collided /\ 1 \in {Default["reasoning_model"], BeforeEnv("reasoning_model")}
Filling(S) == \E u \in ConfigThread : getter[u].at \in S
Compared == Key \ (edited \cup Floored)

\* How far the layers of the published object are complete: whatever is missing, a thread that
\* is still loading will apply to it.
LayersInv ==
  config # 0 /\ ~loadFailed =>
    \A k \in Compared :
      /\ OneOfOrFloor(k, objects[config][k], {Default[k], BeforeEnv(k), Base(k)}, CanLift)
      /\ ~Filling({"file"}) => OneOfOrFloor(k, objects[config][k], {BeforeEnv(k), Base(k)}, CanLift)
      /\ ~Filling({"file", "env"}) => OneOfOrFloor(k, objects[config][k], {Base(k)}, CanLift)
      /\ ~Filling({"file", "env", "scale"}) /\ k \in DOMAIN TokenFloors =>
           (Base("reasoning_model") = 1 /\ Base(k) < TokenFloors[k] => objects[config][k] = TokenFloors[k])

\* Calls that do not overlap: one at a time, with a configuration to fill, and what they returned
\* stays as it is, because nobody fills it again.
AloneInv ==
  /\ ~collided => \A t, u \in Busy : t = u
  /\ \A t \in ConfigThread \ met :
       /\ t \in Busy => Busy = {t}
       /\ getter[t].at \in {"file", "env", "scale", "return"} => config # 0
       /\ getter[t].at = "returned" =>
            /\ getter[t].got # 0
            /\ getter[t].got = config => ~Filling({"create", "file", "env", "scale"})
            /\ ~loadFailed => Keeps(objects[getter[t].got])

ConfigInv == ConfigTypes /\ LayersInv /\ AloneInv

\* The layers below and above a value do not change, and nor does what may have been raised.
LEMMA BaseSame ==
  ASSUME environment' = environment
  PROVE /\ \A k : Base(k)' = Base(k)
        /\ (collided => collided') => (CanLift => CanLift')
<1>1. \A k : Base(k)' = Base(k) BY DEF Base, BeforeEnv
<1>2. Base("reasoning_model")' = Base("reasoning_model") BY DEF Base, BeforeEnv
<1>3. (collided => collided') => (CanLift => CanLift') BY <1>2 DEF CanLift, BeforeEnv
<1> QED BY <1>1, <1>3

\* Settings are numbers, in every layer.
LEMMA LayerValues ==
  ASSUME ConfigTypes, NEW k \in Key
  PROVE Default[k] \in Int /\ BeforeEnv(k) \in Int /\ Base(k) \in Int
<1>1. Default[k] \in Int /\ BeforeEnv(k) \in Int BY ConfigValues DEF BeforeEnv
<1>2. environment \in [DOMAIN environment -> Int] BY ConfigValues DEF ConfigTypes
<1>3. Base(k) \in Int BY <1>1, <1>2 DEF Base
<1> QED BY <1>1, <1>3

\* What is a value of some layers is one of more layers, and a raised one stays within them.
LEMMA WithinMore ==
  ASSUME NEW k, NEW v, NEW S, NEW T, S \subseteq T, NEW lift, NEW more, lift => more, OneOfOrFloor(k, v, S, lift)
  PROVE OneOfOrFloor(k, v, T, more)
BY DEF OneOfOrFloor
\* A budget below its floor lies within the same bounds once it is lifted to it.
LEMMA WithinRaised ==
  ASSUME NEW k \in DOMAIN TokenFloors, NEW v, NEW S, NEW lift, lift, v < TokenFloors[k], OneOfOrFloor(k, v, S, lift)
  PROVE OneOfOrFloor(k, TokenFloors[k], S, lift)
<1>1. TokenFloors[k] \in Nat BY ConfigConstants
<1>2. ~(TokenFloors[k] < TokenFloors[k]) BY <1>1
<1>3. v # TokenFloors[k] BY <1>2
<1> QED BY <1>3 DEF OneOfOrFloor

\* A thread goes on to another step.
LEMMA ToEffect ==
  ASSUME ConfigTypes, NEW t \in ConfigThread, NEW at, To(t, at),
         at \in Free \cup {"check", "create", "file", "env", "scale", "return"}
  PROVE /\ getter' \in [ConfigThread -> Getter] /\ \A u \in ConfigThread \ {t} : getter'[u] = getter[u]
        /\ getter'[t].at = at /\ getter'[t].got = getter[t].got
<1> DEFINE new == [getter[t] EXCEPT !.at = at]
<1>1. getter[t] \in Getter /\ getter \in [ConfigThread -> Getter] BY DEF ConfigTypes
<1>2. new \in Getter /\ new.at = at /\ new.got = getter[t].got BY <1>1 DEF Getter
<1>3. getter' = [getter EXCEPT ![t] = new] BY DEF To
<1> HIDE DEF new
<1> QED BY <1>1, <1>2, <1>3

\* A step that fills nothing leaves the layers as they are.
LEMMA LayersQuiet ==
  ASSUME ConfigTypes, LayersInv, environment' = environment, objects' = objects, config' \in {0, config},
         edited' = edited, loadFailed' = loadFailed, collided => collided',
         \A u \in ConfigThread : \A a \in {"file", "env", "scale"} : getter'[u].at = a <=> getter[u].at = a
  PROVE LayersInv'
<1>1. SUFFICES ASSUME config' # 0, ~loadFailed
               PROVE LayersInv'
  BY DEF LayersInv
<1>2. config' = config /\ config # 0 BY <1>1
<1>3. /\ Filling({"file"})' <=> Filling({"file"})
      /\ Filling({"file", "env"})' <=> Filling({"file", "env"})
      /\ Filling({"file", "env", "scale"})' <=> Filling({"file", "env", "scale"})
  BY DEF Filling
<1>4. Compared' = Compared BY DEF Compared, Floored
<1>5. ASSUME NEW k \in Compared
      PROVE /\ OneOfOrFloor(k, objects'[config'][k], {Default[k], BeforeEnv(k), Base(k)'}, CanLift')
            /\ ~Filling({"file"})' => OneOfOrFloor(k, objects'[config'][k], {BeforeEnv(k), Base(k)'}, CanLift')
            /\ ~Filling({"file", "env"})' => OneOfOrFloor(k, objects'[config'][k], {Base(k)'}, CanLift')
            /\ ~Filling({"file", "env", "scale"})' /\ k \in DOMAIN TokenFloors =>
                 (Base("reasoning_model")' = 1 /\ Base(k)' < TokenFloors[k]
                    => objects'[config'][k] = TokenFloors[k])
  <2> DEFINE v == objects[config][k]
  <2>1. Base(k)' = Base(k) /\ Base("reasoning_model")' = Base("reasoning_model") /\ (CanLift => CanLift')
    BY BaseSame
  <2>2. objects'[config'][k] = v BY <1>2
  <2>3. /\ OneOfOrFloor(k, v, {Default[k], BeforeEnv(k), Base(k)}, CanLift)
        /\ ~Filling({"file"}) => OneOfOrFloor(k, v, {BeforeEnv(k), Base(k)}, CanLift)
        /\ ~Filling({"file", "env"}) => OneOfOrFloor(k, v, {Base(k)}, CanLift)
        /\ ~Filling({"file", "env", "scale"}) /\ k \in DOMAIN TokenFloors =>
             (Base("reasoning_model") = 1 /\ Base(k) < TokenFloors[k] => v = TokenFloors[k])
    BY <1>1, <1>2, <1>5 DEF LayersInv
  <2> HIDE DEF v
  <2>4. OneOfOrFloor(k, v, {Default[k], BeforeEnv(k), Base(k)}, CanLift') BY <2>1, <2>3, WithinMore
  <2>5. ~Filling({"file"}) => OneOfOrFloor(k, v, {BeforeEnv(k), Base(k)}, CanLift') BY <2>1, <2>3, WithinMore
  <2>6. ~Filling({"file", "env"}) => OneOfOrFloor(k, v, {Base(k)}, CanLift') BY <2>1, <2>3, WithinMore
  <2> QED BY <1>3, <2>1, <2>2, <2>3, <2>4, <2>5, <2>6
<1> QED BY <1>4, <1>5 DEF LayersInv

\* Every layer makes settings of settings.
LEMMA LayersTyped ==
  ASSUME ConfigTypes, NEW cfg \in Setting
  PROVE /\ \A data \in Edits \cup {FileValues} : ApplyYaml(cfg, data) \in Setting
        /\ ApplyEnv(cfg) \in Setting /\ Scale(cfg) \in Setting
<1>1. ASSUME NEW data \in Edits \cup {FileValues} PROVE ApplyYaml(cfg, data) \in Setting
  <2>1. data \in [DOMAIN data -> Int] BY ConfigValues
  <2> QED BY <2>1 DEF ApplyYaml, Setting
<1>2. ApplyEnv(cfg) \in Setting
  <2>1. environment \in [DOMAIN environment -> Int] BY ConfigValues DEF ConfigTypes
  <2> QED BY <2>1 DEF ApplyEnv, Setting
<1>3. Scale(cfg) \in Setting BY ConfigConstants DEF Scale, Setting
<1> QED BY <1>1, <1>2, <1>3

\* The published object, as it was.
LEMMA PublishedIs ==
  ASSUME ConfigTypes, config # 0
  PROVE objects[config] \in Setting
<1>1. Len(objects) \in Nat BY LenProperties DEF ConfigTypes
<1> QED BY <1>1, ElementOfSeq DEF ConfigTypes

\* A layer replaces the published object by what it makes of it, and moves one thread.
LEMMA LayerStages ==
  ASSUME ConfigTypes, NEW t \in ConfigThread, NEW at, NEW next \in {"env", "scale", "return"},
         NEW cfg \in Setting, Layer(t, at, next, cfg)
  PROVE /\ objects'[config] = cfg /\ config' = config /\ getter[t].at = at /\ getter'[t].at = next
        /\ \A u \in ConfigThread \ {t} : getter'[u] = getter[u]
<1>1. /\ config # 0 /\ config' = config /\ getter[t].at = at /\ To(t, next)
      /\ objects' = [objects EXCEPT ![config] = cfg]
  BY DEF Layer
<1>2. config \in DOMAIN objects
  <2>1. Len(objects) \in Nat /\ DOMAIN objects = 1..Len(objects) BY LenProperties DEF ConfigTypes
  <2> QED BY <1>1, <2>1 DEF ConfigTypes
<1>3. objects'[config] = cfg BY <1>1, <1>2
<1>4. next \in Free \cup {"env", "scale", "return"} OBVIOUS
<1>5. getter'[t].at = next /\ \A u \in ConfigThread \ {t} : getter'[u] = getter[u] BY <1>1, <1>4, ToEffect
<1> QED BY <1>1, <1>3, <1>5

\* The file is applied: its keys have their values, and only the environment is still missing.
LEMMA ApplyFileLayers ==
  ASSUME ConfigTypes, LayersInv, NEW t \in ConfigThread, ApplyFile(t), environment' = environment
  PROVE LayersInv'
<1> DEFINE cfg == ApplyYaml(objects[config], FileValues)
<1>1. Layer(t, "file", "env", cfg) /\ UNCHANGED <<edited, loadFailed, collided>>
  BY DEF ApplyFile, HistoryUnchanged
<1>2. config # 0 BY <1>1 DEF Layer
<1>3. cfg \in Setting BY <1>2, PublishedIs, LayersTyped
<1> HIDE DEF cfg
<1>4. /\ objects'[config] = cfg /\ config' = config /\ getter[t].at = "file" /\ getter'[t].at = "env"
      /\ \A u \in ConfigThread \ {t} : getter'[u] = getter[u]
  BY <1>1, <1>3, LayerStages
<1>5. Compared' = Compared BY <1>1 DEF Compared, Floored
<1>6. Filling({"file", "env"})' /\ Filling({"file", "env", "scale"})' BY <1>4 DEF Filling
<1>7. ASSUME NEW k \in Compared, ~loadFailed
      PROVE /\ OneOfOrFloor(k, cfg[k], {Default[k], BeforeEnv(k), Base(k)'}, CanLift')
            /\ OneOfOrFloor(k, cfg[k], {BeforeEnv(k), Base(k)'}, CanLift') \/ Filling({"file"})'
  <2> DEFINE v == objects[config][k]
  <2>1. Base(k)' = Base(k) /\ (CanLift => CanLift') BY <1>1, BaseSame
  <2>2. OneOfOrFloor(k, v, {Default[k], BeforeEnv(k), Base(k)}, CanLift) BY <1>2, <1>7 DEF LayersInv
  <2>3. cfg[k] = IF k \in DOMAIN FileValues THEN FileValues[k] ELSE v BY <1>7 DEF cfg, ApplyYaml, Compared
  <2> HIDE DEF v
  <2>4. CASE k \in DOMAIN FileValues
    <3>1. cfg[k] = BeforeEnv(k) BY <2>3, <2>4 DEF BeforeEnv
    <3> QED BY <2>1, <3>1 DEF OneOfOrFloor
  <2>5. CASE k \notin DOMAIN FileValues
    <3>1. BeforeEnv(k) = Default[k] /\ cfg[k] = v BY <2>3, <2>5 DEF BeforeEnv
    <3>2. OneOfOrFloor(k, v, {Default[k], BeforeEnv(k), Base(k)}, CanLift') BY <2>1, <2>2, WithinMore
    <3>3. {Default[k], BeforeEnv(k), Base(k)} = {BeforeEnv(k), Base(k)} BY <3>1
    <3> QED BY <2>1, <3>1, <3>2, <3>3
  <2> QED BY <2>4, <2>5
<1> QED BY <1>1, <1>4, <1>5, <1>6, <1>7 DEF LayersInv

\* Nothing is refused: every variable is read.
LEMMA AllRead ==
  ASSUME \A k \in Key : ~Refused(k)
  PROVE Read = Key
<1>1. \A n \in DOMAIN EnvOrder : \A m \in 1..n : EnvOrder[m] \in Key
  <2>1. EnvOrder \in Seq(Key) BY ConfigConstants
  <2>2. DOMAIN EnvOrder = 1..Len(EnvOrder) /\ Len(EnvOrder) \in Nat BY <2>1, LenProperties
  <2> QED BY <2>1, <2>2, ElementOfSeq
<1>2. {n \in DOMAIN EnvOrder : \A m \in 1..n : ~Refused(EnvOrder[m])} = DOMAIN EnvOrder BY <1>1
<1> QED BY <1>2, ConfigConstants DEF Read

\* The environment is applied: its keys have their values, and only the floors are still missing.
LEMMA ApplyEnvironmentLayers ==
  ASSUME ConfigTypes, LayersInv, NEW t \in ConfigThread, ApplyEnvironment(t), environment' = environment
  PROVE LayersInv'
<1> DEFINE cfg == ApplyEnv(objects[config])
           raises == \E k \in Key : Refused(k)
           next == IF raises THEN "raised" ELSE "scale"
<1>1. Layer(t, "env", next, cfg) /\ loadFailed' = (loadFailed \/ raises) /\ UNCHANGED <<edited, collided>>
  BY DEF ApplyEnvironment
<1>2. config # 0 BY <1>1 DEF Layer
<1>3. cfg \in Setting BY <1>2, PublishedIs, LayersTyped
<1>4. CASE raises BY <1>1, <1>4 DEF LayersInv
<1>5. CASE ~raises
  <2> HIDE DEF cfg
  <2>1. Layer(t, "env", "scale", cfg) /\ (loadFailed' <=> loadFailed) BY <1>1, <1>5
  <2>2. /\ objects'[config] = cfg /\ config' = config /\ getter[t].at = "env" /\ getter'[t].at = "scale"
        /\ \A u \in ConfigThread \ {t} : getter'[u] = getter[u]
    BY <1>3, <2>1, LayerStages
  <2>3. Compared' = Compared BY <1>1 DEF Compared, Floored
  <2>4. Filling({"file", "env", "scale"})' BY <2>2 DEF Filling
  <2>5. Filling({"file"}) => Filling({"file"})' /\ Filling({"file", "env"})' BY <2>2 DEF Filling
  <2>6. ASSUME NEW k \in Compared, ~loadFailed
        PROVE /\ OneOfOrFloor(k, cfg[k], {Default[k], BeforeEnv(k), Base(k)'}, CanLift')
              /\ OneOfOrFloor(k, cfg[k], {BeforeEnv(k), Base(k)'}, CanLift') \/ Filling({"file"})'
              /\ OneOfOrFloor(k, cfg[k], {Base(k)'}, CanLift') \/ Filling({"file", "env"})'
    <3> DEFINE v == objects[config][k]
    <3>1. Base(k)' = Base(k) /\ (CanLift => CanLift') BY <1>1, BaseSame
    <3>2. /\ OneOfOrFloor(k, v, {Default[k], BeforeEnv(k), Base(k)}, CanLift)
          /\ OneOfOrFloor(k, v, {BeforeEnv(k), Base(k)}, CanLift) \/ Filling({"file"})
      BY <1>2, <2>6 DEF LayersInv
    <3>3. cfg[k] = IF k \in DOMAIN environment /\ environment[k] # Malformed THEN environment[k] ELSE v
      BY <1>5, <2>6, AllRead DEF cfg, ApplyEnv, Compared
    <3> HIDE DEF v
    <3>4. CASE k \in DOMAIN environment /\ environment[k] # Malformed
      <4>1. cfg[k] = Base(k) BY <3>3, <3>4 DEF Base
      <4> QED BY <3>1, <4>1 DEF OneOfOrFloor
    <3>5. CASE ~(k \in DOMAIN environment /\ environment[k] # Malformed)
      <4>1. cfg[k] = v /\ Base(k) = BeforeEnv(k) BY <3>3, <3>5 DEF Base
      <4>2. OneOfOrFloor(k, v, {Default[k], BeforeEnv(k), Base(k)}, CanLift') BY <3>1, <3>2, WithinMore
      <4>3. OneOfOrFloor(k, v, {BeforeEnv(k), Base(k)}, CanLift') \/ Filling({"file"}) BY <3>1, <3>2, WithinMore
      <4>4. {BeforeEnv(k), Base(k)} = {Base(k)} BY <4>1
      <4> QED BY <2>5, <3>1, <4>1, <4>2, <4>3, <4>4
    <3> QED BY <3>4, <3>5
  <2> QED BY <2>1, <2>2, <2>3, <2>4, <2>6 DEF LayersInv
<1> QED BY <1>4, <1>5

\* The floors are raised: with reasoning on in the end, nothing is missing any more.
LEMMA ApplyScalingLayers ==
  ASSUME ConfigInv, NEW t \in ConfigThread, ApplyScaling(t), environment' = environment
  PROVE LayersInv'
<1> USE DEF ConfigInv
<1> DEFINE old == objects[config]
           cfg == Scale(old)
           rm == "reasoning_model"
<1>1. Layer(t, "scale", "return", cfg) /\ UNCHANGED <<edited, loadFailed, collided>>
  BY DEF ApplyScaling, HistoryUnchanged
<1>2. config # 0 BY <1>1 DEF Layer
<1>3. cfg \in Setting BY <1>2, PublishedIs, LayersTyped
<1>4. \A k \in Key : cfg[k] = IF old[rm] = 1 /\ k \in DOMAIN TokenFloors /\ old[k] < TokenFloors[k]
                              THEN TokenFloors[k] ELSE old[k]
  BY DEF Scale
<1> HIDE DEF cfg
<1>5. /\ objects'[config] = cfg /\ config' = config /\ getter[t].at = "scale" /\ getter'[t].at = "return"
      /\ \A u \in ConfigThread \ {t} : getter'[u] = getter[u]
  <2>1. ConfigTypes /\ Layer(t, "scale", "return", cfg) BY <1>1
  <2> HIDE DEF ConfigInv, old
  <2> QED BY <1>3, <2>1, LayerStages
<1>6. Compared' = Compared BY <1>1 DEF Compared, Floored
<1>7. /\ Filling({"file"})' <=> Filling({"file"})
      /\ Filling({"file", "env"})' <=> Filling({"file", "env"})
  BY <1>5 DEF Filling
<1>8. ASSUME NEW k \in Compared, ~loadFailed
      PROVE /\ OneOfOrFloor(k, old[k], {Default[k], BeforeEnv(k), Base(k)}, CanLift)
            /\ ~Filling({"file"}) => OneOfOrFloor(k, old[k], {BeforeEnv(k), Base(k)}, CanLift)
            /\ ~Filling({"file", "env"}) => OneOfOrFloor(k, old[k], {Base(k)}, CanLift)
  BY <1>2, <1>8 DEF LayersInv
<1>9. ASSUME NEW k \in Compared, k \in DOMAIN TokenFloors, ~loadFailed
      PROVE /\ old[rm] = 1 => CanLift
            /\ ~Filling({"file", "env"}) => old[rm] = Base(rm)
  <2>1. rm \in Compared /\ rm \notin DOMAIN TokenFloors BY <1>9, ConfigConstants DEF Compared, Floored
  <2>2. ~Filling({"file", "env"}) => old[rm] = Base(rm) BY <1>8, <1>9, <2>1 DEF OneOfOrFloor
  <2>3. old[rm] \in {Default[rm], BeforeEnv(rm), Base(rm)} BY <1>8, <1>9, <2>1 DEF OneOfOrFloor
  <2>4. CASE collided BY <2>2, <2>3, <2>4 DEF CanLift
  <2>5. CASE ~collided
    <3>1. t \in Busy BY <1>5 DEF Busy, Free
    <3>2. \A u \in Busy : u = t BY <2>5, <3>1 DEF AloneInv
    <3>3. ~Filling({"file", "env"}) BY <1>5, <3>2 DEF Filling, Busy, Free
    <3> QED BY <2>2, <3>3 DEF CanLift
  <2> QED BY <2>2, <2>4, <2>5
<1>10. ASSUME NEW k \in Compared, ~loadFailed
       PROVE /\ OneOfOrFloor(k, cfg[k], {Default[k], BeforeEnv(k), Base(k)'}, CanLift')
             /\ ~Filling({"file"})' => OneOfOrFloor(k, cfg[k], {BeforeEnv(k), Base(k)'}, CanLift')
             /\ ~Filling({"file", "env"})' => OneOfOrFloor(k, cfg[k], {Base(k)'}, CanLift')
             /\ ~Filling({"file", "env", "scale"})' /\ k \in DOMAIN TokenFloors =>
                  (Base(rm)' = 1 /\ Base(k)' < TokenFloors[k] => cfg[k] = TokenFloors[k])
  <2>1. Base(k)' = Base(k) /\ Base(rm)' = Base(rm) /\ (CanLift => CanLift') BY <1>1, BaseSame
  <2>2. k \in Key BY DEF Compared
  <2> DEFINE v == old[k]
  <2>3. /\ OneOfOrFloor(k, v, {Default[k], BeforeEnv(k), Base(k)}, CanLift)
        /\ ~Filling({"file"}) => OneOfOrFloor(k, v, {BeforeEnv(k), Base(k)}, CanLift)
        /\ ~Filling({"file", "env"}) => OneOfOrFloor(k, v, {Base(k)}, CanLift)
    BY <1>8, <1>10
  <2>4. CASE old[rm] = 1 /\ k \in DOMAIN TokenFloors /\ v < TokenFloors[k]
    <3>1. cfg[k] = TokenFloors[k] BY <1>4, <2>2, <2>4
    <3>2. CanLift BY <1>9, <1>10, <2>4
    <3> HIDE DEF v
    <3>3. /\ OneOfOrFloor(k, TokenFloors[k], {Default[k], BeforeEnv(k), Base(k)}, CanLift)
          /\ ~Filling({"file"}) => OneOfOrFloor(k, TokenFloors[k], {BeforeEnv(k), Base(k)}, CanLift)
          /\ ~Filling({"file", "env"}) => OneOfOrFloor(k, TokenFloors[k], {Base(k)}, CanLift)
      BY <2>3, <2>4, <3>2, WithinRaised
    <3>4. CanLift' <=> TRUE BY <2>1, <3>2
    <3> QED BY <1>7, <2>1, <3>1, <3>2, <3>3, <3>4, WithinMore
  <2>5. CASE ~(old[rm] = 1 /\ k \in DOMAIN TokenFloors /\ v < TokenFloors[k])
    <3>1. cfg[k] = v BY <1>4, <2>2, <2>5
    <3>2. ~Filling({"file", "env", "scale"})' /\ k \in DOMAIN TokenFloors =>
            (Base(rm) = 1 /\ Base(k) < TokenFloors[k] => v = TokenFloors[k])
      <4> SUFFICES ASSUME ~Filling({"file", "env", "scale"})', k \in DOMAIN TokenFloors,
                          Base(rm) = 1, Base(k) < TokenFloors[k]
                   PROVE v = TokenFloors[k]
        OBVIOUS
      <4>1. ~Filling({"file", "env"}) BY <1>7 DEF Filling
      <4>2. old[rm] = 1 BY <1>9, <1>10, <4>1
      <4>3. ~(v < TokenFloors[k]) BY <2>5, <4>2
      <4> HIDE DEF v
      <4>4. v = Base(k) \/ v = TokenFloors[k] BY <2>3, <4>1 DEF OneOfOrFloor
      <4> QED BY <4>3, <4>4
    <3> HIDE DEF v
    <3>3. OneOfOrFloor(k, v, {Default[k], BeforeEnv(k), Base(k)}, CanLift') BY <2>1, <2>3, WithinMore
    <3>4. ~Filling({"file"}) => OneOfOrFloor(k, v, {BeforeEnv(k), Base(k)}, CanLift') BY <2>1, <2>3, WithinMore
    <3>5. ~Filling({"file", "env"}) => OneOfOrFloor(k, v, {Base(k)}, CanLift') BY <2>1, <2>3, WithinMore
    <3> QED BY <1>7, <2>1, <3>1, <3>2, <3>3, <3>4, <3>5
  <2> QED BY <2>4, <2>5
<1> QED BY <1>1, <1>5, <1>6, <1>10 DEF LayersInv

\* A new object is published, and the thread that published it has every layer still to apply.
LEMMA PublishEffect ==
  ASSUME ConfigTypes, NEW t \in ConfigThread, Publish(t)
  PROVE /\ objects' \in Seq(Setting) /\ Len(objects') = Len(objects) + 1 /\ Len(objects') <= MaxObjects
        /\ Len(objects) \in Nat /\ config' = Len(objects) + 1 /\ objects'[config'] = Default
        /\ \A i \in 1..Len(objects) : objects'[i] = objects[i]
        /\ getter[t].at = "create" /\ getter' \in [ConfigThread -> Getter]
        /\ \A u \in ConfigThread \ {t} : getter'[u] = getter[u]
        /\ getter'[t].at = "file" /\ getter'[t].got = getter[t].got
<1>1. /\ getter[t].at = "create" /\ Len(objects) < MaxObjects /\ objects' = Append(objects, Default)
      /\ config' = Len(objects) + 1 /\ To(t, "file")
  BY DEF Publish
<1>2. objects \in Seq(Setting) /\ Default \in Setting BY ConfigValues DEF ConfigTypes, Setting
<1>3. /\ objects' \in Seq(Setting) /\ Len(objects') = Len(objects) + 1 /\ objects'[config'] = Default
      /\ \A i \in 1..Len(objects) : objects'[i] = objects[i]
  BY <1>1, <1>2, AppendProperties
<1>4. Len(objects) \in Nat BY <1>2, LenProperties
<1>5. Len(objects') <= MaxObjects BY <1>1, <1>3, <1>4, ConfigBounds
<1>6. /\ getter' \in [ConfigThread -> Getter] /\ \A u \in ConfigThread \ {t} : getter'[u] = getter[u]
      /\ getter'[t].at = "file" /\ getter'[t].got = getter[t].got
  BY <1>1, ToEffect
<1> QED BY <1>1, <1>3, <1>4, <1>5, <1>6

\* The first load publishes an object all three layers of which are in.
LEMMA PublishLayers ==
  ASSUME ConfigTypes, NEW t \in ConfigThread, Publish(t), environment' = environment
  PROVE LayersInv'
<1>1. objects'[config'] = Default /\ getter'[t].at = "file" BY PublishEffect
<1>2. Filling({"file"})' /\ Filling({"file", "env"})' /\ Filling({"file", "env", "scale"})' BY <1>1 DEF Filling
<1>3. \A k : OneOfOrFloor(k, Default[k], {Default[k], BeforeEnv(k), Base(k)'}, CanLift') BY DEF OneOfOrFloor
<1> QED BY <1>1, <1>2, <1>3 DEF LayersInv

\* An edit through the API: what is not edited stays in every object.
LEMMA UpdateEffect ==
  ASSUME ConfigTypes, NEW t \in ConfigThread, NEW data \in Edits, UpdateConfig(t, data)
  PROVE /\ objects' \in Seq(Setting) /\ Len(objects') = Len(objects) /\ edited \subseteq edited' /\ edited' \subseteq Key
        /\ \A i \in 1..Len(objects) : \A k \in Key \ edited' : objects'[i][k] = objects[i][k]
        /\ UNCHANGED <<config, getter, gets, loadFailed, met, collided>>
<1> DEFINE got == getter[t].got
           cfg == ApplyYaml(objects[got], data)
<1>1. /\ got # 0 /\ objects' = [objects EXCEPT ![got] = cfg] /\ edited' = edited \cup (DOMAIN data \cap Key)
      /\ UNCHANGED <<config, getter, gets, loadFailed, met, collided>>
  BY DEF UpdateConfig
<1>2. objects \in Seq(Setting) /\ got \in 1..Len(objects)
  <2>1. Len(objects) \in Nat /\ getter[t] \in Getter BY LenProperties DEF ConfigTypes
  <2>2. got \in Nat /\ got <= Len(objects) BY <2>1 DEF Getter, ConfigTypes
  <2> QED BY <1>1, <2>1, <2>2 DEF ConfigTypes
<1>3. cfg \in Setting BY <1>2, ElementOfSeq, LayersTyped
<1>4. \A k \in Key \ edited' : cfg[k] = objects[got][k] BY <1>1 DEF ApplyYaml
<1> HIDE DEF cfg, got
<1>5. /\ objects' \in Seq(Setting) /\ Len(objects') = Len(objects)
      /\ \A i \in 1..Len(objects) : objects'[i] = IF i = got THEN cfg ELSE objects[i]
  BY <1>1, <1>2, <1>3, ExceptSeq
<1>6. edited \subseteq edited' /\ edited' \subseteq Key BY <1>1 DEF ConfigTypes
<1> QED BY <1>1, <1>4, <1>5, <1>6

\* Saving and reloading leaves an object all three layers of which are in.
LEMMA UpdateLayers ==
  ASSUME ConfigTypes, LayersInv, NEW t \in ConfigThread, NEW data \in Edits, UpdateConfig(t, data),
         environment' = environment
  PROVE LayersInv'
<1>1. SUFFICES ASSUME config # 0, ~loadFailed PROVE LayersInv'
  BY UpdateEffect DEF LayersInv
<1>2. config \in 1..Len(objects)
  <2>1. Len(objects) \in Nat BY LenProperties DEF ConfigTypes
  <2> QED BY <1>1, <2>1 DEF ConfigTypes
<1>3. Compared' \subseteq Compared /\ Compared' \subseteq Key \ edited' BY UpdateEffect DEF Compared, Floored
<1>4. \A k \in Compared' : objects'[config][k] = objects[config][k] BY <1>2, <1>3, UpdateEffect
<1>5. UNCHANGED <<config, getter, loadFailed, collided>> BY UpdateEffect
<1>6. /\ \A k : Base(k)' = Base(k)
      /\ CanLift' <=> CanLift
  BY <1>5, BaseSame DEF CanLift, BeforeEnv, Base
<1>7. /\ Filling({"file"})' <=> Filling({"file"})
      /\ Filling({"file", "env"})' <=> Filling({"file", "env"})
      /\ Filling({"file", "env", "scale"})' <=> Filling({"file", "env", "scale"})
  BY <1>5 DEF Filling
<1>8. \A k \in Compared :
        /\ OneOfOrFloor(k, objects[config][k], {Default[k], BeforeEnv(k), Base(k)}, CanLift)
        /\ ~Filling({"file"}) => OneOfOrFloor(k, objects[config][k], {BeforeEnv(k), Base(k)}, CanLift)
        /\ ~Filling({"file", "env"}) => OneOfOrFloor(k, objects[config][k], {Base(k)}, CanLift)
        /\ ~Filling({"file", "env", "scale"}) /\ k \in DOMAIN TokenFloors =>
             (Base("reasoning_model") = 1 /\ Base(k) < TokenFloors[k] => objects[config][k] = TokenFloors[k])
  BY <1>1 DEF LayersInv
<1>9. ASSUME NEW k \in Compared'
      PROVE /\ OneOfOrFloor(k, objects'[config'][k], {Default[k], BeforeEnv(k), Base(k)'}, CanLift')
            /\ ~Filling({"file"})' => OneOfOrFloor(k, objects'[config'][k], {BeforeEnv(k), Base(k)'}, CanLift')
            /\ ~Filling({"file", "env"})' => OneOfOrFloor(k, objects'[config'][k], {Base(k)'}, CanLift')
            /\ ~Filling({"file", "env", "scale"})' /\ k \in DOMAIN TokenFloors =>
                 (Base("reasoning_model")' = 1 /\ Base(k)' < TokenFloors[k]
                    => objects'[config'][k] = TokenFloors[k])
  <2> DEFINE v == objects[config][k]
  <2>1. objects'[config'][k] = v /\ Base(k)' = Base(k) /\ Base("reasoning_model")' = Base("reasoning_model")
    BY <1>4, <1>5, <1>6
  <2>2. /\ OneOfOrFloor(k, v, {Default[k], BeforeEnv(k), Base(k)}, CanLift)
        /\ ~Filling({"file"}) => OneOfOrFloor(k, v, {BeforeEnv(k), Base(k)}, CanLift)
        /\ ~Filling({"file", "env"}) => OneOfOrFloor(k, v, {Base(k)}, CanLift)
        /\ ~Filling({"file", "env", "scale"}) /\ k \in DOMAIN TokenFloors =>
             (Base("reasoning_model") = 1 /\ Base(k) < TokenFloors[k] => v = TokenFloors[k])
    BY <1>3, <1>8, <1>9
  <2> HIDE DEF v
  <2>3. OneOfOrFloor(k, v, {Default[k], BeforeEnv(k), Base(k)}, CanLift') BY <1>6, <2>2, WithinMore
  <2>4. ~Filling({"file"}) => OneOfOrFloor(k, v, {BeforeEnv(k), Base(k)}, CanLift') BY <1>6, <2>2, WithinMore
  <2>5. ~Filling({"file", "env"}) => OneOfOrFloor(k, v, {Base(k)}, CanLift') BY <1>6, <2>2, WithinMore
  <2> QED BY <1>7, <2>1, <2>2, <2>3, <2>4, <2>5
<1> QED BY <1>9 DEF LayersInv

\* With nobody filling it, the published object is what the layers promise.
LEMMA KeepsNow ==
  ASSUME ConfigTypes, LayersInv, ~Filling({"file", "env", "scale"}), config # 0, ~loadFailed
  PROVE Keeps(objects[config])
<1>1. ~Filling({"file", "env"}) BY DEF Filling
<1>2. SUFFICES ASSUME NEW k \in Compared
               PROVE \/ objects[config][k] = Promised[k]
                     \/ LeftOver(k) /\ objects[config][k] = TokenFloors[k]
  BY DEF Keeps, Compared
<1> DEFINE v == objects[config][k]
           on == Base("reasoning_model") = 1
<1>3. k \in Key BY DEF Compared
<1>4. Promised[k] = IF k \in DOMAIN TokenFloors /\ on /\ Base(k) < TokenFloors[k]
                    THEN TokenFloors[k] ELSE Base(k)
  BY <1>3 DEF Promised
<1>5. OneOfOrFloor(k, v, {Base(k)}, CanLift) BY <1>1 DEF LayersInv
<1>6. k \in DOMAIN TokenFloors => (on /\ Base(k) < TokenFloors[k] => v = TokenFloors[k]) BY DEF LayersInv
<1> HIDE DEF v
<1>7. CASE v = Base(k) BY <1>4, <1>6, <1>7 DEF v
<1>8. CASE CanLift /\ k \in DOMAIN TokenFloors /\ v = TokenFloors[k] /\ Base(k) < TokenFloors[k]
  <2>1. CASE on BY <1>4, <1>8, <2>1 DEF v
  <2>2. CASE ~on
    <3>1. LeftOver(k) BY <1>8, <2>2 DEF CanLift, LeftOver
    <3> QED BY <1>8, <3>1 DEF v
  <2> QED BY <2>1, <2>2
<1> QED BY <1>5, <1>7, <1>8 DEF OneOfOrFloor

\* An object nobody fills stays what it is, but for what is edited.
LEMMA KeepsStays ==
  ASSUME environment' = environment, edited \subseteq edited', collided => collided', NEW i,
         \A k \in Key \ edited' : objects'[i][k] = objects[i][k], Keeps(objects[i])
  PROVE \A k \in Key \ (edited' \cup Floored') :
          objects'[i][k] = Promised'[k] \/ (LeftOver(k)' /\ objects'[i][k] = TokenFloors[k])
<1>1. \A k : Base(k)' = Base(k) BY BaseSame
<1>2. Base("reasoning_model")' = Base("reasoning_model") BY <1>1
<1>3. Promised' = Promised BY <1>1, <1>2 DEF Promised
<1>4. \A k : LeftOver(k) => LeftOver(k)' BY <1>2 DEF LeftOver, BeforeEnv
<1>5. Key \ (edited' \cup Floored') \subseteq Key \ (edited \cup Floored) BY DEF Floored
<1>6. \A k \in Key \ (edited \cup Floored) :
        objects[i][k] = Promised[k] \/ (LeftOver(k) /\ objects[i][k] = TokenFloors[k])
  BY DEF Keeps
<1> QED BY <1>3, <1>4, <1>5, <1>6

\* A call begins: it is alone if nobody else is busy, and otherwise none of them is.
LEMMA GetStep ==
  ASSUME ConfigInv, NEW t \in ConfigThread, NEW reload \in BOOLEAN, Get(t, reload), environment' = environment
  PROVE ConfigInv'
<1> USE DEF ConfigInv
<1>1. /\ getter[t].at \in Free /\ config' \in {0, config} /\ To(t, "check")
      /\ met' = IF Busy = {} THEN met \ {t} ELSE met \cup Busy \cup {t}
      /\ collided' = (collided \/ Busy # {})
      /\ UNCHANGED <<objects, edits, edited, loadFailed>>
  BY DEF Get
<1>2. /\ getter' \in [ConfigThread -> Getter] /\ \A u \in ConfigThread \ {t} : getter'[u] = getter[u]
      /\ getter'[t].at = "check" /\ getter'[t].got = getter[t].got
  BY <1>1, ToEffect
<1>3. Busy' = Busy \cup {t} BY <1>2 DEF Busy, Free
<1>4. ConfigTypes'
  <2>1. Busy \subseteq ConfigThread /\ Len(objects) \in Nat BY LenProperties DEF Busy, ConfigTypes
  <2>2. met' \subseteq ConfigThread BY <1>1, <2>1 DEF ConfigTypes
  <2>3. collided' \in BOOLEAN BY <1>1
  <2>4. config' \in 0..Len(objects) BY <1>1, <2>1 DEF ConfigTypes
  <2>5. \A u \in ConfigThread : getter'[u].got <= Len(objects) BY <1>2 DEF ConfigTypes
  <2> QED BY <1>1, <1>2, <2>2, <2>3, <2>4, <2>5 DEF ConfigTypes
<1>5. LayersInv'
  <2>1. \A u \in ConfigThread : \A a \in {"file", "env", "scale"} : getter'[u].at = a <=> getter[u].at = a
    BY <1>1, <1>2 DEF Free
  <2> QED BY <1>1, <2>1, LayersQuiet
<1>6. AloneInv'
  <2>1. ~collided' => \A u, w \in Busy' : u = w BY <1>1, <1>3
  <2> SUFFICES ASSUME NEW u \in ConfigThread, u \notin met'
               PROVE /\ u \in Busy' => Busy' = {u}
                     /\ getter'[u].at \in {"file", "env", "scale", "return"} => config' # 0
                     /\ getter'[u].at = "returned" =>
                          /\ getter'[u].got # 0
                          /\ getter'[u].got = config' => ~Filling({"create", "file", "env", "scale"})'
                          /\ ~loadFailed' => Keeps(objects[getter[u].got])'
    BY <2>1 DEF AloneInv
  <2>2. u \in Busy' => Busy' = {u} BY <1>1, <1>3
  <2>3. getter'[u].at \in {"file", "env", "scale", "return"} => config' # 0
    BY <1>1, <1>2, <1>3 DEF Busy, Free
  <2>4. ASSUME getter'[u].at = "returned"
        PROVE /\ getter'[u].got # 0
              /\ getter'[u].got = config' => ~Filling({"create", "file", "env", "scale"})'
              /\ ~loadFailed' => Keeps(objects[getter[u].got])'
    <3>1. u # t /\ getter'[u] = getter[u] /\ u \notin met BY <1>1, <1>2, <2>4
    <3>2. PICK g : g = getter[u].got OBVIOUS
    <3>3. /\ g # 0 /\ (g = config => ~Filling({"create", "file", "env", "scale"}))
          /\ (~loadFailed => Keeps(objects[g]))
      BY <2>4, <3>1, <3>2 DEF AloneInv
    <3>4. g = config' => ~Filling({"create", "file", "env", "scale"})' BY <1>1, <1>2, <3>3 DEF Filling
    <3>5. ~loadFailed => Keeps(objects[getter[u].got])'
      BY <1>1, <3>1, <3>2, <3>3, KeepsStays DEF Keeps
    <3> QED BY <1>1, <3>1, <3>2, <3>3, <3>4, <3>5
  <2> QED BY <2>2, <2>3, <2>4
<1> QED BY <1>4, <1>5, <1>6

\* What the steps within a call have in common for the calls that do not overlap it.
LEMMA AloneStep ==
  ASSUME ConfigInv, NEW t \in ConfigThread, environment' = environment, met' = met, collided' = collided,
         edited \subseteq edited', loadFailed => loadFailed',
         \A u \in ConfigThread \ {t} : getter'[u] = getter[u], t \in Busy' => t \in Busy,
         config' = config \/ config' > Len(objects),
         t \notin met /\ getter'[t].at \in {"file", "env", "scale", "return"} => config' # 0,
         getter'[t].at \in {"create", "file", "env", "scale"} =>
           config' # config \/ config = 0 \/ getter[t].at \in {"create", "file", "env", "scale"},
         \A i \in 1..Len(objects) :
           \/ \A k \in Key \ edited' : objects'[i][k] = objects[i][k]
           \/ i = config /\ getter[t].at \in {"file", "env", "scale"},
         getter'[t].at = "returned" =>
           \/ getter'[t] = getter[t]
           \/ t \notin met => /\ getter'[t].got # 0
                              /\ ~Filling({"create", "file", "env", "scale"})'
                              /\ ~loadFailed' => Keeps(objects[getter[t].got])'
  PROVE AloneInv'
<1> USE DEF ConfigInv
<1>1. Busy' \subseteq Busy BY DEF Busy
<1>2. ~collided' => \A u, w \in Busy' : u = w BY <1>1 DEF AloneInv
<1>3. Len(objects) \in Nat /\ \A u \in ConfigThread : getter[u].got \in Nat /\ getter[u].got <= Len(objects)
  BY LenProperties DEF ConfigTypes, Getter
<1> SUFFICES ASSUME NEW u \in ConfigThread, u \notin met
             PROVE /\ u \in Busy' => Busy' = {u}
                   /\ getter'[u].at \in {"file", "env", "scale", "return"} => config' # 0
                   /\ getter'[u].at = "returned" =>
                        /\ getter'[u].got # 0
                        /\ getter'[u].got = config' => ~Filling({"create", "file", "env", "scale"})'
                        /\ ~loadFailed' => Keeps(objects[getter[u].got])'
  BY <1>2 DEF AloneInv
<1>4. u \in Busy' => Busy' = {u}
  <2>1. u \in Busy => Busy = {u} BY DEF AloneInv
  <2> QED BY <1>1, <2>1
<1>5. getter'[u].at \in {"file", "env", "scale", "return"} => config' # 0
  <2>1. CASE u = t BY <2>1
  <2>2. CASE u # t
    <3>1. getter'[u].at \in {"file", "env", "scale", "return"} => config # 0 BY <2>2 DEF AloneInv
    <3>2. config' > Len(objects) => config' # 0 BY <1>3
    <3> QED BY <3>1, <3>2
  <2> QED BY <2>1, <2>2
<1>6. ASSUME getter'[u].at = "returned", getter'[u] = getter[u]
      PROVE /\ getter'[u].got # 0
            /\ getter'[u].got = config' => ~Filling({"create", "file", "env", "scale"})'
            /\ ~loadFailed' => Keeps(objects[getter[u].got])'
  <2>1. PICK g : g = getter[u].got OBVIOUS
  <2>2. /\ g # 0 /\ (g = config => ~Filling({"create", "file", "env", "scale"}))
        /\ (~loadFailed => Keeps(objects[g]))
    BY <1>6, <2>1 DEF AloneInv
  <2>3. g \in 1..Len(objects) BY <1>3, <2>1, <2>2
  <2>4. g = config' => g = config BY <1>3, <2>3
  <2>5. g = config => getter[t].at \notin {"create", "file", "env", "scale"} BY <2>2 DEF Filling
  <2>6. g = config' => ~Filling({"create", "file", "env", "scale"})' BY <2>2, <2>4, <2>5 DEF Filling
  <2>7. \A k \in Key \ edited' : objects'[g][k] = objects[g][k] BY <2>3, <2>5
  <2>8. ~loadFailed => \A k \in Key \ (edited' \cup Floored') :
          objects'[g][k] = Promised'[k] \/ (LeftOver(k)' /\ objects'[g][k] = TokenFloors[k])
    BY <2>2, <2>7, KeepsStays
  <2>9. ~loadFailed' => Keeps(objects[getter[u].got])' BY <1>6, <2>1, <2>8 DEF Keeps
  <2> QED BY <1>6, <2>1, <2>2, <2>6, <2>9
<1>7. CASE u = t BY <1>4, <1>5, <1>6, <1>7
<1>8. CASE u # t BY <1>4, <1>5, <1>6, <1>8
<1> QED BY <1>7, <1>8

\* The steps that fill nothing and publish nothing.
LEMMA CheckStep ==
  ASSUME ConfigInv, NEW t \in ConfigThread, Check(t), environment' = environment
  PROVE ConfigInv'
<1> USE DEF ConfigInv
<1> DEFINE next == IF config = 0 THEN "create" ELSE "return"
<1>1. /\ getter[t].at = "check" /\ To(t, next)
      /\ UNCHANGED <<objects, config, gets, edits, edited, loadFailed, met, collided>>
  BY DEF Check, HistoryUnchanged
<1>2. /\ getter' \in [ConfigThread -> Getter] /\ \A u \in ConfigThread \ {t} : getter'[u] = getter[u]
      /\ getter'[t].at = next /\ getter'[t].got = getter[t].got
  BY <1>1, ToEffect
<1>3. ConfigTypes'
  <2>1. \A u \in ConfigThread : getter'[u].got <= Len(objects) BY <1>2 DEF ConfigTypes
  <2> QED BY <1>1, <1>2, <2>1 DEF ConfigTypes
<1>4. LayersInv'
  <2>1. \A u \in ConfigThread : \A a \in {"file", "env", "scale"} : getter'[u].at = a <=> getter[u].at = a
    BY <1>1, <1>2
  <2> QED BY <1>1, <2>1, LayersQuiet
<1>5. AloneInv'
  <2>1. t \in Busy BY <1>1 DEF Busy, Free
  <2> QED BY <1>1, <1>2, <2>1, AloneStep
<1> QED BY <1>3, <1>4, <1>5

\* A call that was alone returns what the layers promise.
LEMMA ReturnStep ==
  ASSUME ConfigInv, NEW t \in ConfigThread, ReturnConfig(t), environment' = environment
  PROVE ConfigInv'
<1> USE DEF ConfigInv
<1> DEFINE new == [at |-> "returned", got |-> config]
<1>1. /\ getter[t].at = "return" /\ getter' = [getter EXCEPT ![t] = new]
      /\ UNCHANGED <<objects, config, gets, edits, edited, loadFailed, met, collided>>
  BY DEF ReturnConfig, HistoryUnchanged
<1>2. config \in Nat /\ config <= Len(objects) /\ Len(objects) \in Nat BY LenProperties DEF ConfigTypes
<1>3. new \in Getter /\ new.at = "returned" /\ new.got = config BY <1>2 DEF Getter, Free
<1> HIDE DEF new
<1>4. /\ getter' \in [ConfigThread -> Getter] /\ \A u \in ConfigThread \ {t} : getter'[u] = getter[u]
      /\ getter'[t].at = "returned" /\ getter'[t].got = config
  BY <1>1, <1>3 DEF ConfigTypes
<1>5. ConfigTypes'
  <2>1. \A u \in ConfigThread : getter'[u].got <= Len(objects) BY <1>2, <1>4 DEF ConfigTypes
  <2> QED BY <1>1, <1>4, <2>1 DEF ConfigTypes
<1>6. LayersInv'
  <2>1. \A u \in ConfigThread : \A a \in {"file", "env", "scale"} : getter'[u].at = a <=> getter[u].at = a
    BY <1>1, <1>4
  <2> QED BY <1>1, <2>1, LayersQuiet
<1>7. AloneInv'
  <2>1. t \in Busy BY <1>1 DEF Busy, Free
  <2>2. ASSUME t \notin met
        PROVE /\ config # 0 /\ ~Filling({"create", "file", "env", "scale"})
              /\ ~loadFailed => Keeps(objects[config])
    <3>1. config # 0 /\ Busy = {t} BY <1>1, <2>1, <2>2 DEF AloneInv
    <3>2. ~Filling({"create", "file", "env", "scale"}) BY <1>1, <3>1 DEF Filling, Busy, Free
    <3>3. ~Filling({"file", "env", "scale"}) BY <3>2 DEF Filling
    <3>4. ~loadFailed => Keeps(objects[config]) BY <3>1, <3>3, KeepsNow
    <3> QED BY <3>1, <3>2, <3>4
  <2>3. ~Filling({"create", "file", "env", "scale"}) => ~Filling({"create", "file", "env", "scale"})'
    BY <1>1, <1>4 DEF Filling
  <2>4. ASSUME t \notin met, ~loadFailed' PROVE Keeps(objects[getter[t].got])'
    <3>1. Keeps(objects[config]) BY <1>1, <2>2, <2>4
    <3>2. \A k \in Key \ (edited' \cup Floored') :
            objects'[config][k] = Promised'[k] \/ (LeftOver(k)' /\ objects'[config][k] = TokenFloors[k])
      BY <1>1, <3>1, KeepsStays
    <3> QED BY <1>4, <3>2 DEF Keeps
  <2> QED BY <1>1, <1>4, <2>1, <2>2, <2>3, <2>4, AloneStep
<1> QED BY <1>5, <1>6, <1>7

\* What get_config() publishes agrees with the file and the environment.
LEMMA PublishStep ==
  ASSUME ConfigInv, NEW t \in ConfigThread, Publish(t), environment' = environment
  PROVE ConfigInv'
<1> USE DEF ConfigInv
<1>1. UNCHANGED <<gets, edits, edited, loadFailed, met, collided>> BY DEF Publish, HistoryUnchanged
<1>2. /\ objects' \in Seq(Setting) /\ Len(objects') = Len(objects) + 1 /\ Len(objects') <= MaxObjects
      /\ Len(objects) \in Nat /\ config' = Len(objects) + 1
      /\ \A i \in 1..Len(objects) : objects'[i] = objects[i]
      /\ getter[t].at = "create" /\ getter' \in [ConfigThread -> Getter]
      /\ \A u \in ConfigThread \ {t} : getter'[u] = getter[u]
      /\ getter'[t].at = "file" /\ getter'[t].got = getter[t].got
  BY PublishEffect
<1>3. ConfigTypes'
  <2>1. \A u \in ConfigThread : getter[u].got \in Nat /\ getter'[u].got = getter[u].got
    BY <1>2 DEF ConfigTypes, Getter
  <2>2. \A u \in ConfigThread : getter'[u].got <= Len(objects') BY <1>2, <2>1 DEF ConfigTypes
  <2>3. config' \in 0..Len(objects') BY <1>2
  <2> QED BY <1>1, <1>2, <2>2, <2>3 DEF ConfigTypes
<1>4. LayersInv' BY PublishLayers
<1>5. AloneInv'
  <2>1. t \in Busy BY <1>2 DEF Busy, Free
  <2>2. config' > Len(objects) /\ config' # 0 BY <1>2
  <2> QED BY <1>1, <1>2, <2>1, <2>2, AloneStep
<1> QED BY <1>3, <1>4, <1>5

\* A layer, applied to the published object.
LEMMA LayerStep ==
  ASSUME ConfigInv, NEW t \in ConfigThread, NEW at \in {"file", "env", "scale"},
         NEW next \in {"raised", "env", "scale", "return"}, NEW cfg \in Setting, Layer(t, at, next, cfg),
         environment' = environment, loadFailed' \in BOOLEAN, loadFailed => loadFailed',
         UNCHANGED <<edited, met, collided>>
  PROVE ConfigTypes' /\ AloneInv'
<1> USE DEF ConfigInv
<1>1. /\ objects' \in Seq(Setting) /\ Len(objects') = Len(objects) /\ config \in 1..Len(objects)
      /\ \A i \in 1..Len(objects) : i # config => objects'[i] = objects[i]
      /\ config' = config /\ config # 0 /\ getter[t].at = at
      /\ getter' \in [ConfigThread -> Getter] /\ \A u \in ConfigThread \ {t} : getter'[u] = getter[u]
      /\ getter'[t].at = next /\ getter'[t].got = getter[t].got
  <2>1. /\ config # 0 /\ config' = config /\ getter[t].at = at /\ To(t, next)
        /\ objects' = [objects EXCEPT ![config] = cfg]
    BY DEF Layer
  <2>2. ConfigTypes /\ next \in Free \cup {"env", "scale", "return"} BY DEF Free
  <2> HIDE DEF ConfigInv
  <2>3. objects \in Seq(Setting) /\ config \in 1..Len(objects)
    <3>1. Len(objects) \in Nat BY <2>2, LenProperties DEF ConfigTypes
    <3> QED BY <2>1, <2>2, <3>1 DEF ConfigTypes
  <2>4. /\ objects' \in Seq(Setting) /\ Len(objects') = Len(objects)
        /\ \A i \in 1..Len(objects) : objects'[i] = IF i = config THEN cfg ELSE objects[i]
    BY <2>1, <2>3, ExceptSeq
  <2>5. /\ getter' \in [ConfigThread -> Getter] /\ \A u \in ConfigThread \ {t} : getter'[u] = getter[u]
        /\ getter'[t].at = next /\ getter'[t].got = getter[t].got
    BY <2>1, <2>2, ToEffect
  <2> QED BY <2>1, <2>3, <2>4, <2>5
<1>2. ConfigTypes'
  <2>1. \A u \in ConfigThread : getter'[u].got <= Len(objects') BY <1>1 DEF ConfigTypes
  <2> QED BY <1>1, <2>1 DEF ConfigTypes
<1>3. AloneInv'
  <2>1. t \in Busy BY <1>1 DEF Busy, Free
  <2>2. getter'[t].at # "returned" BY <1>1
  <2> QED BY <1>1, <2>1, <2>2, AloneStep
<1> QED BY <1>2, <1>3

\* A layer meets None: only calls that overlapped another one get there.
LEMMA LayerOnNoneStep ==
  ASSUME ConfigInv, NEW t \in ConfigThread, LayerOnNone(t), environment' = environment
  PROVE ConfigInv'
<1> USE DEF ConfigInv
<1>1. PICK next \in {"raised", "env", "scale"} :
        /\ getter[t].at \in {"file", "env", "scale"} /\ config = 0 /\ To(t, next)
        /\ loadFailed' \in BOOLEAN /\ (loadFailed => loadFailed')
        /\ UNCHANGED <<objects, config, gets, edits, edited, met, collided>>
  BY DEF LayerOnNone
<1>2. /\ getter' \in [ConfigThread -> Getter] /\ \A u \in ConfigThread \ {t} : getter'[u] = getter[u]
      /\ getter'[t].at = next /\ getter'[t].got = getter[t].got
  BY <1>1, ToEffect DEF Free
<1>3. ConfigTypes'
  <2>1. \A u \in ConfigThread : getter'[u].got <= Len(objects) BY <1>2 DEF ConfigTypes
  <2> QED BY <1>1, <1>2, <2>1 DEF ConfigTypes
<1>4. LayersInv' BY <1>1 DEF LayersInv
<1>5. AloneInv'
  <2>1. t \in Busy /\ t \in met BY <1>1 DEF Busy, Free, AloneInv
  <2>2. getter'[t].at # "returned" BY <1>2
  <2> QED BY <1>1, <1>2, <2>1, <2>2, AloneStep
<1> QED BY <1>3, <1>4, <1>5

\* So does what a saved and reloaded configuration becomes.
LEMMA UpdateStep ==
  ASSUME ConfigInv, NEW t \in ConfigThread, NEW data \in Edits, UpdateConfig(t, data),
         environment' = environment
  PROVE ConfigInv'
<1> USE DEF ConfigInv
<1>1. /\ objects' \in Seq(Setting) /\ Len(objects') = Len(objects) /\ edited \subseteq edited' /\ edited' \subseteq Key
      /\ \A i \in 1..Len(objects) : \A k \in Key \ edited' : objects'[i][k] = objects[i][k]
      /\ UNCHANGED <<config, getter, gets, loadFailed, met, collided>>
  BY UpdateEffect
<1>2. ConfigTypes' BY <1>1 DEF ConfigTypes
<1>3. LayersInv' BY UpdateLayers
<1>4. AloneInv'
  <2>1. t \in Busy' => t \in Busy BY <1>1 DEF Busy
  <2> QED BY <1>1, <2>1, AloneStep DEF AloneInv
<1> QED BY <1>2, <1>3, <1>4

\* The three layers.
LEMMA ApplyStep ==
  ASSUME ConfigInv, NEW t \in ConfigThread, ApplyFile(t) \/ ApplyEnvironment(t) \/ ApplyScaling(t),
         environment' = environment
  PROVE ConfigInv'
<1> USE DEF ConfigInv
<1>0. loadFailed \in BOOLEAN BY DEF ConfigTypes
<1>1. CASE ApplyFile(t)
  <2> DEFINE cfg == ApplyYaml(objects[config], FileValues)
  <2>1. Layer(t, "file", "env", cfg) /\ UNCHANGED <<edited, loadFailed, met, collided>>
    BY <1>1 DEF ApplyFile, HistoryUnchanged
  <2>2. cfg \in Setting BY <2>1, PublishedIs, LayersTyped DEF Layer
  <2> HIDE DEF cfg
  <2>3. ConfigTypes' /\ AloneInv' BY <1>0, <2>1, <2>2, LayerStep
  <2> QED BY <1>1, <2>3, ApplyFileLayers
<1>2. CASE ApplyEnvironment(t)
  <2> DEFINE cfg == ApplyEnv(objects[config])
             raises == \E k \in Key : Refused(k)
             next == IF raises THEN "raised" ELSE "scale"
  <2>1. /\ Layer(t, "env", next, cfg) /\ loadFailed' = (loadFailed \/ raises)
        /\ UNCHANGED <<edited, met, collided>>
    BY <1>2 DEF ApplyEnvironment
  <2>2. cfg \in Setting BY <2>1, PublishedIs, LayersTyped DEF Layer
  <2>3. next \in {"raised", "scale"} OBVIOUS
  <2>4. loadFailed' \in BOOLEAN /\ (loadFailed => loadFailed') BY <2>1
  <2> HIDE DEF cfg, next
  <2>5. ConfigTypes' /\ AloneInv' BY <2>1, <2>2, <2>3, <2>4, LayerStep
  <2> QED BY <1>2, <2>5, ApplyEnvironmentLayers
<1>3. CASE ApplyScaling(t)
  <2> DEFINE cfg == Scale(objects[config])
  <2>1. Layer(t, "scale", "return", cfg) /\ UNCHANGED <<edited, loadFailed, met, collided>>
    BY <1>3 DEF ApplyScaling, HistoryUnchanged
  <2>2. cfg \in Setting BY <2>1, PublishedIs, LayersTyped DEF Layer
  <2> HIDE DEF cfg
  <2>3. ConfigTypes' /\ AloneInv' BY <1>0, <2>1, <2>2, LayerStep
  <2> QED BY <1>3, <2>3, ApplyScalingLayers
<1> QED BY <1>1, <1>2, <1>3

\* The invariant of the configuration, from before the first load on.
LEMMA ConfigInductive == ConfigSpec => []ConfigInv
<1>1. ConfigInit => ConfigInv
  <2> SUFFICES ASSUME ConfigInit PROVE ConfigInv OBVIOUS
  <2>1. /\ environment \in Environments /\ objects = <<>> /\ config = 0
        /\ getter = [t \in ConfigThread |-> [at |-> "idle", got |-> 0]]
        /\ edited = {} /\ loadFailed = FALSE /\ met = {} /\ collided = FALSE
    BY DEF ConfigInit
  <2>2. ConfigTypes
    <3>1. objects \in Seq(Setting) /\ Len(objects) = 0 BY <2>1
    <3>2. getter \in [ConfigThread -> Getter] /\ \A t \in ConfigThread : getter[t].got = 0
      BY <2>1 DEF Getter, Free
    <3>3. Len(objects) <= MaxObjects /\ config \in 0..Len(objects) BY <2>1, <3>1, ConfigBounds
    <3>4. \A t \in ConfigThread : getter[t].got <= Len(objects) BY <3>1, <3>2
    <3>5. loadFailed \in BOOLEAN /\ collided \in BOOLEAN /\ edited \subseteq Key /\ met \subseteq ConfigThread BY <2>1
    <3> QED BY <2>1, <3>1, <3>2, <3>3, <3>4, <3>5 DEF ConfigTypes
  <2>3. LayersInv BY <2>1 DEF LayersInv
  <2>4. \A t \in ConfigThread : getter[t].at = "idle" BY <2>1
  <2>5. Busy = {} BY <2>4 DEF Busy, Free
  <2>6. AloneInv BY <2>4, <2>5 DEF AloneInv
  <2> QED BY <2>2, <2>3, <2>6 DEF ConfigInv
<1>2. ConfigInv /\ [ConfigNext]_configVars => ConfigInv'
  <2> SUFFICES ASSUME ConfigInv, [ConfigNext]_configVars PROVE ConfigInv' OBVIOUS
  <2>1. CASE UNCHANGED configVars
    <3>1. ConfigTypes' BY <2>1 DEF configVars, ConfigInv, ConfigTypes
    <3>2. LayersInv' BY <2>1, LayersQuiet DEF configVars, ConfigInv
    <3>3. AloneInv'
      <4>1. UNCHANGED <<environment, objects, config, getter, edited, loadFailed, met, collided>>
        BY <2>1 DEF configVars
      <4>2. Busy' = Busy /\ Filling({"create", "file", "env", "scale"})' = Filling({"create", "file", "env", "scale"})
        BY <4>1 DEF Busy, Filling
      <4>3. \A i : Keeps(objects[i]) => Keeps(objects[i])'
        BY <4>1 DEF Keeps, Promised, LeftOver, Base, BeforeEnv, Floored
      <4> QED BY <4>1, <4>2, <4>3 DEF ConfigInv, AloneInv
    <3> QED BY <3>1, <3>2, <3>3 DEF ConfigInv
  <2>2. ASSUME environment' = environment, NEW t \in ConfigThread, NEW reload \in BOOLEAN, Get(t, reload)
        PROVE ConfigInv'
    BY <2>2, GetStep
  <2>3. ASSUME environment' = environment, NEW t \in ConfigThread,
               \/ Check(t) \/ Publish(t) \/ ApplyFile(t) \/ ApplyEnvironment(t) \/ ApplyScaling(t)
               \/ LayerOnNone(t) \/ ReturnConfig(t)
        PROVE ConfigInv'
    BY <2>3, CheckStep, PublishStep, ApplyStep, LayerOnNoneStep, ReturnStep
  <2>4. ASSUME environment' = environment, NEW t \in ConfigThread, NEW data \in Edits, UpdateConfig(t, data)
        PROVE ConfigInv'
    BY <2>4, UpdateStep
  <2> QED BY <2>1, <2>2, <2>3, <2>4 DEF ConfigNext
<1> QED BY <1>1, <1>2, PTL DEF ConfigSpec

\* In every state of every run the configuration's variables have their types: the global names
\* an object that was made, with a value for every key (config.py:735).
THEOREM ConfigTypeCorrect == ConfigSpec => []ConfigTypeOK
<1>1. ConfigInv => ConfigTypeOK
  <2> SUFFICES ASSUME ConfigInv PROVE ConfigTypeOK OBVIOUS
  <2>1. DOMAIN objects = 1..Len(objects) /\ Len(objects) \in Nat
    BY LenProperties DEF ConfigInv, ConfigTypes
  <2>2. \A i \in DOMAIN objects : DOMAIN objects[i] = Key
    BY <2>1, ElementOfSeq DEF ConfigInv, ConfigTypes, Setting
  <2>3. \A t \in ConfigThread :
          /\ getter[t].at \in Free \cup {"check", "create", "file", "env", "scale", "return"}
          /\ getter[t].got \in 0..Len(objects)
    BY <2>1 DEF ConfigInv, ConfigTypes, Getter
  <2> QED BY <2>2, <2>3 DEF ConfigTypeOK, ConfigInv, ConfigTypes
<1> QED BY <1>1, ConfigInductive, PTL

\* Whenever nobody is loading, the published configuration is what the layers promise, and a
\* caller gets None or a half-filled configuration only if its call overlapped another one:
\* for any settings, layers, floors, environments, threads and edits (config.py:735).
THEOREM ConfigAgreesCorrect == ConfigSpec => []ConfigAgrees
<1>1. ConfigInv => ConfigAgrees
  <2> SUFFICES ASSUME ConfigInv PROVE ConfigAgrees OBVIOUS
  <2>1. Busy = {} => ~Filling({"file", "env", "scale"}) BY DEF Busy, Free, Filling
  <2>2. Busy = {} /\ config # 0 /\ ~loadFailed => Keeps(objects[config]) BY <2>1, KeepsNow DEF ConfigInv
  <2> QED BY <2>2 DEF ConfigAgrees, ConfigInv, AloneInv
<1> QED BY <1>1, ConfigInductive, PTL
-----------------------------------------------------------------------------
(* The ontology's store.  A relation in the list, or about to be appended to it, was checked   *)
(* against the types its endpoints had then; those change only as retyped and forgotten say.   *)
Triples == EntityId \X RelationNames \X EntityId
Makers == [at : {"rest", "save_entity", "append", "save_relation"}, id : {""} \cup EntityId,
           type : {""} \cup EntityTypes, rel : {<<>>} \cup Triples]
MakersInv ==
  /\ maker \in [StoreThread -> Makers]
  /\ \A t \in StoreThread : maker[t].at = "save_entity" => maker[t].id \in EntityId /\ maker[t].type \in EntityTypes
  /\ \A t \in StoreThread : maker[t].at \in {"append", "save_relation"} => maker[t].rel \in Triples
  /\ \A t \in StoreThread : maker[t].at = "save_relation" => maker[t].rel \in relations

StoredInv ==
  /\ entities \in [DOMAIN entities -> EntityTypes] /\ DOMAIN entities \subseteq EntityId
  /\ relations \subseteq Triples
  /\ entitiesFile \subseteq EntityId \X EntityTypes
  /\ \A e, f \in entitiesFile : e[1] = f[1] => e = f
  /\ relationsFile \subseteq relations

\* Relations that were checked, in the list or on their way to it.
Checked == relations \cup {maker[t].rel : t \in {u \in StoreThread : maker[u].at = "append"}}
There(i) == i \in DOMAIN entities \cup forgotten
EndsTyped(r) ==
  /\ There(r[1]) /\ There(r[3])
  /\ r[1] \notin retyped \cup forgotten /\ r[3] \notin retyped \cup forgotten =>
       ValidRelation(entities[r[1]], r[2], entities[r[3]])
EndpointsInv == \A r \in Checked : EndsTyped(r)

\* No cycle, and none when the relation that is on its way is in: the search that found no way
\* from its target to its source left a closed set with the one and without the other.
Acyclical(rel) == \A C \in (SUBSET EntityId) \ {{}} : \E i \in C : \A j \in C : <<i, rel, j>> \notin relations
OnItsWay(t, rel) == maker[t].at = "append" /\ maker[t].rel[2] = rel
CycleInv ==
  \A rel \in RelationNames \ overlapped : Acyclic(rel) =>
    /\ Acyclical(rel)
    /\ \A t, u \in StoreThread : OnItsWay(t, rel) /\ OnItsWay(u, rel) => t = u
    /\ \A t \in StoreThread : OnItsWay(t, rel) =>
         \E V \in SUBSET EntityId : maker[t].rel[3] \in V /\ maker[t].rel[1] \notin V /\ ClosedAlong(V, rel)

TypedInv == MakersInv /\ StoredInv /\ EndpointsInv /\ CycleInv

\* What each step makes of the stored relations and of those that were checked.
LEMMA CreateMakers ==
  ASSUME MakersInv, StoredInv, NEW t \in StoreThread, NEW i \in EntityId, NEW type \in EntityTypes,
         NEW props, CreateEntity(t, i, type, props)
  PROVE  /\ MakersInv' /\ StoredInv'
         /\ Checked' \subseteq Checked /\ \A rel : \A u \in StoreThread : OnItsWay(u, rel)' => OnItsWay(u, rel) /\ maker'[u] = maker[u]
<1> DEFINE new == [Resting EXCEPT !.at = "save_entity", !.id = i, !.type = type]
<1>1. new \in Makers /\ new.at = "save_entity" /\ new.id = i /\ new.type = type BY DEF Resting, Makers
<1> HIDE DEF new
<1>2. maker' = [maker EXCEPT ![t] = new] /\ relations' = relations /\ entitiesFile' = entitiesFile
      /\ relationsFile' = relationsFile
      /\ entities' = [j \in DOMAIN entities \cup {i} |-> IF j = i THEN type ELSE entities[j]]
  BY DEF CreateEntity, new
<1>3. maker'[t] = new /\ \A u \in StoreThread : u # t => maker'[u] = maker[u] BY <1>2 DEF MakersInv
<1>4. maker' \in [StoreThread -> Makers] BY <1>1, <1>2 DEF MakersInv
<1>5. MakersInv' BY <1>1, <1>2, <1>3, <1>4 DEF MakersInv
<1>6. entities' \in [DOMAIN entities' -> EntityTypes] /\ DOMAIN entities' \subseteq EntityId
  BY <1>2 DEF StoredInv
<1>7. StoredInv' BY <1>2, <1>6 DEF StoredInv
<1>8. \A u \in StoreThread : maker'[u].at = "append" => maker'[u] = maker[u] BY <1>1, <1>3
<1>9. Checked' \subseteq Checked BY <1>2, <1>8 DEF Checked
<1> QED BY <1>5, <1>7, <1>8, <1>9 DEF OnItsWay

\* The file's line of the entity is replaced; the relations stay.
LEMMA SaveEntityMakers ==
  ASSUME MakersInv, StoredInv, NEW t \in StoreThread, SaveEntity(t)
  PROVE  /\ MakersInv' /\ StoredInv'
         /\ Checked' \subseteq Checked /\ \A rel : \A u \in StoreThread : OnItsWay(u, rel)' => OnItsWay(u, rel) /\ maker'[u] = maker[u]
<1>1. Resting \in Makers /\ Resting.at = "rest" BY DEF Resting, Makers
<1>2. maker' = [maker EXCEPT ![t] = Resting] /\ UNCHANGED <<entities, relations, relationsFile>>
      /\ maker[t].id \in EntityId /\ maker[t].type \in EntityTypes
      /\ entitiesFile' = {e \in entitiesFile : e[1] # maker[t].id} \cup {<<maker[t].id, maker[t].type>>}
  BY DEF SaveEntity, MakersInv
<1>3. maker'[t] = Resting /\ \A u \in StoreThread : u # t => maker'[u] = maker[u] BY <1>2 DEF MakersInv
<1>4. maker' \in [StoreThread -> Makers] BY <1>1, <1>2 DEF MakersInv
<1>5. MakersInv' BY <1>1, <1>2, <1>3, <1>4 DEF MakersInv
<1>6. StoredInv' BY <1>2 DEF StoredInv
<1>8. \A u \in StoreThread : maker'[u].at = "append" => maker'[u] = maker[u] BY <1>1, <1>3
<1>9. Checked' \subseteq Checked BY <1>2, <1>8 DEF Checked
<1> QED BY <1>5, <1>6, <1>8, <1>9 DEF OnItsWay

\* The relation's line is in the file; the relations stay.
LEMMA SaveRelationMakers ==
  ASSUME MakersInv, StoredInv, NEW t \in StoreThread, SaveRelation(t)
  PROVE  /\ MakersInv' /\ StoredInv'
         /\ Checked' \subseteq Checked /\ \A rel : \A u \in StoreThread : OnItsWay(u, rel)' => OnItsWay(u, rel) /\ maker'[u] = maker[u]
<1>1. Resting \in Makers /\ Resting.at = "rest" BY DEF Resting, Makers
<1>2. maker' = [maker EXCEPT ![t] = Resting] /\ UNCHANGED <<entities, relations, entitiesFile>>
      /\ maker[t].rel \in relations /\ relationsFile' = relationsFile \cup {maker[t].rel}
  BY DEF SaveRelation, MakersInv
<1>3. maker'[t] = Resting /\ \A u \in StoreThread : u # t => maker'[u] = maker[u] BY <1>2 DEF MakersInv
<1>4. maker' \in [StoreThread -> Makers] BY <1>1, <1>2 DEF MakersInv
<1>5. MakersInv' BY <1>1, <1>2, <1>3, <1>4 DEF MakersInv
<1>6. StoredInv' BY <1>2 DEF StoredInv
<1>8. \A u \in StoreThread : maker'[u].at = "append" => maker'[u] = maker[u] BY <1>1, <1>3
<1>9. Checked' \subseteq Checked BY <1>2, <1>8 DEF Checked
<1> QED BY <1>5, <1>6, <1>8, <1>9 DEF OnItsWay

\* One more relation has been checked, and is on its way.
LEMMA CheckMakers ==
  ASSUME MakersInv, StoredInv, NEW t \in StoreThread, NEW from \in EntityId, NEW to \in EntityId,
         NEW rel \in RelationNames, CheckRelation(t, from, rel, to)
  PROVE  /\ MakersInv' /\ StoredInv'
         /\ Checked' \subseteq Checked \cup {<<from, rel, to>>}
         /\ maker'[t].at = "append" /\ maker'[t].rel = <<from, rel, to>>
         /\ \A u \in StoreThread : u # t => maker'[u] = maker[u]
<1> DEFINE r == <<from, rel, to>>
           new == [Resting EXCEPT !.at = "append", !.rel = r]
<1>1. r \in Triples /\ r[1] = from /\ r[2] = rel /\ r[3] = to BY DEF Triples
<1> HIDE DEF r
<1>2. new \in Makers /\ new.at = "append" /\ new.rel = r BY <1>1 DEF Resting, Makers
<1> HIDE DEF new
<1>3. maker' = [maker EXCEPT ![t] = new] /\ UNCHANGED <<entities, relations, entitiesFile, relationsFile>>
  BY DEF CheckRelation, new, r
<1>4. maker'[t] = new /\ \A u \in StoreThread : u # t => maker'[u] = maker[u] BY <1>3 DEF MakersInv
<1>5. maker' \in [StoreThread -> Makers] BY <1>2, <1>3 DEF MakersInv
<1>6. MakersInv' BY <1>1, <1>2, <1>3, <1>4, <1>5 DEF MakersInv
<1>7. StoredInv' BY <1>3 DEF StoredInv
<1>8. Checked' \subseteq Checked \cup {r} BY <1>2, <1>3, <1>4 DEF Checked
<1> QED BY <1>2, <1>4, <1>6, <1>7, <1>8 DEF r

\* The relation that was on its way is in.
LEMMA AppendMakers ==
  ASSUME MakersInv, StoredInv, NEW t \in StoreThread, AppendRelation(t)
  PROVE  /\ MakersInv' /\ StoredInv'
         /\ Checked' \subseteq Checked /\ relations' = relations \cup {maker[t].rel}
         /\ \A rel : \A u \in StoreThread : OnItsWay(u, rel)' => u # t /\ OnItsWay(u, rel) /\ maker'[u] = maker[u]
<1> DEFINE new == [maker[t] EXCEPT !.at = "save_relation"]
<1>1. maker[t] \in Makers /\ maker[t].rel \in Triples BY DEF AppendRelation, MakersInv
<1>2. new \in Makers /\ new.at = "save_relation" /\ new.rel = maker[t].rel BY <1>1 DEF Makers
<1> HIDE DEF new
<1>3. maker' = [maker EXCEPT ![t] = new] /\ UNCHANGED <<entities, entitiesFile, relationsFile>>
      /\ relations' = relations \cup {maker[t].rel} /\ maker[t].at = "append"
  BY DEF AppendRelation, MakersInv, new
<1>4. maker'[t] = new /\ \A u \in StoreThread : u # t => maker'[u] = maker[u] BY <1>3 DEF MakersInv
<1>5. maker' \in [StoreThread -> Makers] BY <1>2, <1>3 DEF MakersInv
<1>6. MakersInv' BY <1>1, <1>2, <1>3, <1>4, <1>5 DEF MakersInv
<1>7. StoredInv' BY <1>1, <1>3 DEF StoredInv
<1>8. \A u \in StoreThread : maker'[u].at = "append" => u # t /\ maker'[u] = maker[u] BY <1>2, <1>4
<1>9. Checked' \subseteq Checked BY <1>3, <1>8 DEF Checked
<1> QED BY <1>3, <1>6, <1>7, <1>8, <1>9 DEF OnItsWay

\* A restart takes up what the files hold: an id has one line at most that counts.
LEMMA ReopenEffect ==
  ASSUME MakersInv, StoredInv, Reopen
  PROVE  /\ MakersInv' /\ StoredInv'
         /\ Checked' \subseteq relations /\ relations' \subseteq relations
         /\ \A i \in DOMAIN entities : i \in DOMAIN entities' \cup forgotten'
         /\ \A i \in DOMAIN entities : i \notin retyped' \cup forgotten' => entities'[i] = entities[i]
         /\ retyped \subseteq retyped' /\ forgotten \subseteq forgotten'
         /\ \A rel : \A u \in StoreThread : ~OnItsWay(u, rel)'
<1>1. Resting \in Makers /\ Resting.at = "rest" BY DEF Resting, Makers
<1>2. maker' = [u \in StoreThread |-> Resting] /\ entitiesFile' = entitiesFile /\ relationsFile' = relationsFile
      /\ relations' = relationsFile /\ entities' = Loaded(entitiesFile)
      /\ retyped' = retyped \cup {i \in DOMAIN entities : <<i, entities[i]>> \notin entitiesFile}
      /\ forgotten' = forgotten \cup {i \in DOMAIN entities : \A e \in entitiesFile : e[1] # i}
  BY DEF Reopen
<1>3. \A u \in StoreThread : maker'[u] = Resting BY <1>2
<1>4. MakersInv' BY <1>1, <1>2, <1>3 DEF MakersInv
<1>5. \A e \in entitiesFile : e = <<e[1], e[2]>> /\ e[1] \in EntityId /\ e[2] \in EntityTypes BY DEF StoredInv
<1>6. \A i \in {e[1] : e \in entitiesFile} :
        /\ entities'[i] \in EntityTypes /\ <<i, entities'[i]>> \in entitiesFile
  <2> SUFFICES ASSUME NEW e \in entitiesFile
               PROVE  entities'[e[1]] \in EntityTypes /\ <<e[1], entities'[e[1]]>> \in entitiesFile
    OBVIOUS
  <2>1. e[2] \in EntityTypes /\ <<e[1], e[2]>> \in entitiesFile BY <1>5
  <2>2. entities'[e[1]] = CHOOSE ty \in EntityTypes : <<e[1], ty>> \in entitiesFile BY <1>2 DEF Loaded
  <2> QED BY <2>1, <2>2
<1>7. DOMAIN entities' = {e[1] : e \in entitiesFile} BY <1>2 DEF Loaded
<1>8. entities' \in [DOMAIN entities' -> EntityTypes]
  <2> DEFINE Held(i) == CHOOSE ty \in EntityTypes : <<i, ty>> \in entitiesFile
             D == {e[1] : e \in entitiesFile}
  <2>1. entities' = [i \in D |-> Held(i)] BY <1>2 DEF Loaded
  <2> HIDE DEF Held, D
  <2>2. \A i \in D : Held(i) \in EntityTypes BY <1>6, <2>1 DEF D
  <2> QED BY <2>1, <2>2
<1>8a. DOMAIN entities' \subseteq EntityId BY <1>5, <1>7
<1>9. StoredInv' BY <1>2, <1>8, <1>8a DEF StoredInv
<1>10. Checked' \subseteq relations BY <1>1, <1>2, <1>3 DEF Checked, StoredInv
<1>11. \A i \in DOMAIN entities : i \in DOMAIN entities' \cup forgotten' BY <1>2, <1>7
<1>12. ASSUME NEW i \in DOMAIN entities, i \notin retyped' \cup forgotten' PROVE entities'[i] = entities[i]
  <2>1. <<i, entities[i]>> \in entitiesFile BY <1>2, <1>12
  <2>2. i \in {e[1] : e \in entitiesFile} BY <2>1
  <2>3. <<i, entities'[i]>> \in entitiesFile BY <1>6, <2>2
  <2>4. <<i, entities'[i]>> = <<i, entities[i]>> BY <2>1, <2>3 DEF StoredInv
  <2> QED BY <2>4
<1> QED BY <1>1, <1>2, <1>3, <1>4, <1>9, <1>10, <1>11, <1>12 DEF OnItsWay, StoredInv

\* A step that leaves the entities as they are, or renames none of those that count, leaves what
\* is known of a checked relation.
LEMMA SoundStays ==
  ASSUME NEW r \in Triples, EndsTyped(r),
         \A i \in DOMAIN entities : i \in DOMAIN entities' \cup forgotten',
         \A i \in DOMAIN entities : i \notin retyped' \cup forgotten' => entities'[i] = entities[i],
         retyped \subseteq retyped', forgotten \subseteq forgotten'
  PROVE  EndsTyped(r)'
<1>1. There(r[1])' /\ There(r[3])' BY DEF EndsTyped, There
<1>2. ASSUME r[1] \notin retyped' \cup forgotten', r[3] \notin retyped' \cup forgotten'
      PROVE  ValidRelation(entities'[r[1]], r[2], entities'[r[3]])
  <2>1. r[1] \in DOMAIN entities /\ r[3] \in DOMAIN entities BY <1>2 DEF EndsTyped, There
  <2>2. ValidRelation(entities[r[1]], r[2], entities[r[3]]) BY <1>2 DEF EndsTyped
  <2>3. entities'[r[1]] = entities[r[1]] /\ entities'[r[3]] = entities[r[3]] BY <1>2, <2>1
  <2> QED BY <2>2, <2>3
<1> QED BY <1>1, <1>2 DEF EndsTyped

\* Each step keeps the endpoints of the relations, those on their way included.
LEMMA EndpointsStep ==
  ASSUME MakersInv, StoredInv, EndpointsInv, TypedNext
  PROVE  EndpointsInv'
<1>1. Checked \subseteq Triples
  <2>1. \A t \in StoreThread : maker[t].at = "append" => maker[t].rel \in Triples BY DEF MakersInv
  <2> QED BY <2>1 DEF Checked, StoredInv
<1>2. ASSUME Checked' \subseteq Checked,
             \A i \in DOMAIN entities : i \in DOMAIN entities' \cup forgotten',
             \A i \in DOMAIN entities : i \notin retyped' \cup forgotten' => entities'[i] = entities[i],
             retyped \subseteq retyped', forgotten \subseteq forgotten'
      PROVE  EndpointsInv'
  <2>1. \A r \in Checked : EndsTyped(r)' BY <1>1, <1>2, SoundStays DEF EndpointsInv
  <2> QED BY <1>2, <2>1 DEF EndpointsInv
<1>3. ASSUME NEW t \in StoreThread, NEW i \in EntityId, NEW type \in EntityTypes, NEW props \in Properties,
             CreateEntity(t, i, type, props)
      PROVE  EndpointsInv'
  <2>1. Checked' \subseteq Checked BY <1>3, CreateMakers
  <2>2. /\ entities' = [j \in DOMAIN entities \cup {i} |-> IF j = i THEN type ELSE entities[j]]
        /\ retyped' = IF i \in DOMAIN entities /\ entities[i] # type THEN retyped \cup {i} ELSE retyped
        /\ forgotten' = forgotten
    BY <1>3 DEF CreateEntity
  <2>3. \A j \in DOMAIN entities : j \notin retyped' => entities'[j] = entities[j] BY <2>2
  <2>4. \A j \in DOMAIN entities : j \in DOMAIN entities' BY <2>2
  <2>5. retyped \subseteq retyped' BY <2>2
  <2> QED BY <1>2, <2>1, <2>2, <2>3, <2>4, <2>5
<1>4. ASSUME NEW t \in StoreThread, NEW from \in EntityId, NEW to \in EntityId, NEW rel \in RelationNames,
             CheckRelation(t, from, rel, to)
      PROVE  EndpointsInv'
  <2> DEFINE r == <<from, rel, to>>
  <2>1. UNCHANGED <<entities, retyped, forgotten>> /\ from \in DOMAIN entities /\ to \in DOMAIN entities
        /\ ValidRelation(entities[from], rel, entities[to])
    BY <1>4 DEF CheckRelation
  <2>2. Checked' \subseteq Checked \cup {r} BY <1>4, CheckMakers
  <2>3. r[1] = from /\ r[2] = rel /\ r[3] = to OBVIOUS
  <2> HIDE DEF r
  <2>4. EndsTyped(r)' BY <2>1, <2>3 DEF EndsTyped, There
  <2>5. \A s \in Checked : EndsTyped(s)' BY <2>1 DEF EndpointsInv, EndsTyped, There
  <2> QED BY <2>2, <2>4, <2>5 DEF EndpointsInv
<1>5. ASSUME NEW t \in StoreThread, SaveEntity(t) \/ AppendRelation(t) \/ SaveRelation(t) PROVE EndpointsInv'
  <2>1. UNCHANGED <<entities, retyped, forgotten>> BY <1>5 DEF SaveEntity, AppendRelation, SaveRelation
  <2>2. Checked' \subseteq Checked BY <1>5, SaveEntityMakers, AppendMakers, SaveRelationMakers
  <2> QED BY <1>2, <2>1, <2>2
<1>6. CASE Reopen
  <2>1. Checked' \subseteq Checked BY <1>6, ReopenEffect DEF Checked
  <2> QED BY <1>2, <1>6, <2>1, ReopenEffect
<1> QED BY <1>3, <1>4, <1>5, <1>6 DEF TypedNext

\* Without a cycle, and with a closed set that has the target and not the source, the relation
\* from the source to the target makes none: a set in which everything leads on would meet the
\* closed set, and within it everything leads on without the new relation.
LEMMA NoNewCycle ==
  ASSUME NEW R, NEW rel, NEW from, NEW to, NEW V \in SUBSET EntityId,
         \A C \in (SUBSET EntityId) \ {{}} : \E i \in C : \A j \in C : <<i, rel, j>> \notin R,
         to \in V, from \notin V, \A i \in V, j \in EntityId : <<i, rel, j>> \in R => j \in V
  PROVE  \A C \in (SUBSET EntityId) \ {{}} : \E i \in C : \A j \in C : <<i, rel, j>> \notin R \cup {<<from, rel, to>>}
<1> SUFFICES ASSUME NEW C \in (SUBSET EntityId) \ {{}},
                    \A i \in C : \E j \in C : <<i, rel, j>> \in R \cup {<<from, rel, to>>}
             PROVE  FALSE
  OBVIOUS
<1>1. CASE to \in C
  <2> DEFINE D == C \cap V
  <2>1. D \in (SUBSET EntityId) \ {{}} BY <1>1
  <2>2. \A i \in D : \E j \in D : <<i, rel, j>> \in R
    <3> SUFFICES ASSUME NEW i \in D PROVE \E j \in D : <<i, rel, j>> \in R OBVIOUS
    <3>1. PICK j \in C : <<i, rel, j>> \in R \cup {<<from, rel, to>>} OBVIOUS
    <3>2. <<i, rel, j>> # <<from, rel, to>> OBVIOUS
    <3>3. <<i, rel, j>> \in R /\ j \in EntityId BY <3>1, <3>2
    <3> QED BY <3>3
  <2> HIDE DEF D
  <2> QED BY <2>1, <2>2
<1>2. CASE to \notin C
  <2>1. \A i \in C : \E j \in C : <<i, rel, j>> \in R BY <1>2
  <2> QED BY <2>1
<1> QED BY <1>1, <1>2

\* Each step keeps the relations without a cycle, the one on its way included.
LEMMA CycleStep ==
  ASSUME MakersInv, StoredInv, CycleInv, TypedNext
  PROVE  CycleInv'
<1>1. ASSUME relations' \subseteq relations, overlapped' = overlapped,
             \A rel : \A u \in StoreThread : OnItsWay(u, rel)' => OnItsWay(u, rel) /\ maker'[u] = maker[u]
      PROVE  CycleInv'
  <2> SUFFICES ASSUME NEW rel \in RelationNames \ overlapped, Acyclic(rel)
               PROVE  /\ Acyclical(rel)'
                      /\ \A t, u \in StoreThread : OnItsWay(t, rel)' /\ OnItsWay(u, rel)' => t = u
                      /\ \A t \in StoreThread : OnItsWay(t, rel)' =>
                           \E V \in SUBSET EntityId : maker'[t].rel[3] \in V /\ maker'[t].rel[1] \notin V /\ ClosedAlong(V, rel)'
    BY <1>1 DEF CycleInv, Acyclic
  <2>1. Acyclical(rel)' BY <1>1 DEF CycleInv, Acyclical
  <2>2. \A t, u \in StoreThread : OnItsWay(t, rel)' /\ OnItsWay(u, rel)' => t = u BY <1>1 DEF CycleInv
  <2>3. \A V : ClosedAlong(V, rel) => ClosedAlong(V, rel)' BY <1>1 DEF ClosedAlong
  <2>4. ASSUME NEW t \in StoreThread, OnItsWay(t, rel)'
        PROVE  \E V \in SUBSET EntityId : maker'[t].rel[3] \in V /\ maker'[t].rel[1] \notin V /\ ClosedAlong(V, rel)'
    <3>1. OnItsWay(t, rel) /\ maker'[t] = maker[t] BY <1>1, <2>4
    <3>2. PICK V \in SUBSET EntityId : maker[t].rel[3] \in V /\ maker[t].rel[1] \notin V /\ ClosedAlong(V, rel)
      BY <3>1 DEF CycleInv
    <3> QED BY <2>3, <3>1, <3>2
  <2> QED BY <2>1, <2>2, <2>4
<1>2. ASSUME NEW t \in StoreThread, NEW i \in EntityId, NEW type \in EntityTypes, NEW props \in Properties,
             CreateEntity(t, i, type, props)
      PROVE  CycleInv'
  BY <1>1, <1>2, CreateMakers DEF CreateEntity
<1>3. ASSUME NEW t \in StoreThread, SaveEntity(t) PROVE CycleInv'
  BY <1>1, <1>3, SaveEntityMakers DEF SaveEntity
<1>4. ASSUME NEW t \in StoreThread, SaveRelation(t) PROVE CycleInv'
  BY <1>1, <1>4, SaveRelationMakers DEF SaveRelation
<1>5. CASE Reopen
  <2>1. overlapped' = overlapped BY <1>5 DEF Reopen
  <2> QED BY <1>1, <1>5, <2>1, ReopenEffect
<1>6. ASSUME NEW t \in StoreThread, NEW from \in EntityId, NEW to \in EntityId, NEW name \in RelationNames,
             CheckRelation(t, from, name, to)
      PROVE  CycleInv'
  <2>1. /\ relations' = relations
        /\ overlapped' = IF Pending(name) = {} THEN overlapped ELSE overlapped \cup {name}
        /\ ~(Acyclic(name) /\ WouldCreateCycle(from, name, to))
    BY <1>6 DEF CheckRelation
  <2>2. /\ maker'[t].at = "append" /\ maker'[t].rel = <<from, name, to>>
        /\ \A u \in StoreThread : u # t => maker'[u] = maker[u]
    BY <1>6, CheckMakers
  <2> SUFFICES ASSUME NEW rel \in RelationNames \ overlapped', Acyclic(rel)
               PROVE  /\ Acyclical(rel)'
                      /\ \A u, v \in StoreThread : OnItsWay(u, rel)' /\ OnItsWay(v, rel)' => u = v
                      /\ \A u \in StoreThread : OnItsWay(u, rel)' =>
                           \E V \in SUBSET EntityId : maker'[u].rel[3] \in V /\ maker'[u].rel[1] \notin V /\ ClosedAlong(V, rel)'
    BY DEF CycleInv, Acyclic
  <2>3. rel \in RelationNames \ overlapped BY <2>1
  <2>4. Acyclical(rel)' BY <2>1, <2>3 DEF CycleInv, Acyclical
  <2>5. \A V : ClosedAlong(V, rel)' <=> ClosedAlong(V, rel) BY <2>1 DEF ClosedAlong
  <2>6. OnItsWay(t, rel)' => rel = name BY <2>2 DEF OnItsWay
  <2>7. rel = name => \A u \in StoreThread : ~OnItsWay(u, rel)
    <3> SUFFICES ASSUME rel = name, NEW u \in StoreThread, OnItsWay(u, rel) PROVE FALSE OBVIOUS
    <3>1. maker[u].rel \in Pending(name) BY DEF OnItsWay, Pending
    <3> QED BY <2>1, <3>1
  <2>8. \A u \in StoreThread : u # t /\ OnItsWay(u, rel)' => OnItsWay(u, rel) /\ maker'[u] = maker[u]
    BY <2>2 DEF OnItsWay
  <2>9. \A u, v \in StoreThread : OnItsWay(u, rel)' /\ OnItsWay(v, rel)' => u = v
    BY <2>3, <2>6, <2>7, <2>8 DEF CycleInv
  <2>10. ASSUME NEW u \in StoreThread, OnItsWay(u, rel)', u # t
         PROVE  \E V \in SUBSET EntityId : maker'[u].rel[3] \in V /\ maker'[u].rel[1] \notin V /\ ClosedAlong(V, rel)'
    <3>1. OnItsWay(u, rel) /\ maker'[u] = maker[u] BY <2>8, <2>10
    <3>2. PICK V \in SUBSET EntityId : maker[u].rel[3] \in V /\ maker[u].rel[1] \notin V /\ ClosedAlong(V, rel)
      BY <2>3, <3>1 DEF CycleInv
    <3> QED BY <2>5, <3>1, <3>2
  <2>11. ASSUME OnItsWay(t, rel)'
         PROVE  \E V \in SUBSET EntityId : maker'[t].rel[3] \in V /\ maker'[t].rel[1] \notin V /\ ClosedAlong(V, rel)'
    <3>1. PICK V \in SUBSET EntityId : to \in V /\ ClosedAlong(V, rel) /\ from \notin V
      BY <2>1, <2>6, <2>11 DEF WouldCreateCycle
    <3>2. maker'[t].rel[1] = from /\ maker'[t].rel[3] = to BY <2>2
    <3> QED BY <2>5, <3>1, <3>2
  <2> QED BY <2>4, <2>9, <2>10, <2>11
<1>7. ASSUME NEW t \in StoreThread, AppendRelation(t) PROVE CycleInv'
  <2>1. /\ relations' = relations \cup {maker[t].rel}
        /\ \A rel : \A u \in StoreThread : OnItsWay(u, rel)' => u # t /\ OnItsWay(u, rel) /\ maker'[u] = maker[u]
    BY <1>7, AppendMakers
  <2>2. maker[t].at = "append" /\ maker[t].rel \in Triples /\ overlapped' = overlapped
    BY <1>7 DEF AppendRelation, MakersInv
  <2>3. PICK from \in EntityId, name \in RelationNames, to \in EntityId : maker[t].rel = <<from, name, to>>
    BY <2>2 DEF Triples
  <2>3a. maker[t].rel[1] = from /\ maker[t].rel[2] = name /\ maker[t].rel[3] = to BY <2>3
  <2> SUFFICES ASSUME NEW rel \in RelationNames \ overlapped, Acyclic(rel)
               PROVE  /\ Acyclical(rel)'
                      /\ \A u, v \in StoreThread : OnItsWay(u, rel)' /\ OnItsWay(v, rel)' => u = v
                      /\ \A u \in StoreThread : OnItsWay(u, rel)' =>
                           \E V \in SUBSET EntityId : maker'[u].rel[3] \in V /\ maker'[u].rel[1] \notin V /\ ClosedAlong(V, rel)'
    BY <2>2 DEF CycleInv, Acyclic
  <2>4. CASE rel = name
    <3>1. OnItsWay(t, rel) BY <2>2, <2>3a, <2>4 DEF OnItsWay
    <3>2. PICK V \in SUBSET EntityId : to \in V /\ from \notin V /\ ClosedAlong(V, rel)
      BY <2>3a, <3>1 DEF CycleInv
    <3>3. \A i \in V, j \in EntityId : <<i, rel, j>> \in relations => j \in V BY <3>2 DEF ClosedAlong
    <3>4. \A C \in (SUBSET EntityId) \ {{}} : \E i \in C : \A j \in C : <<i, rel, j>> \notin relations
      BY DEF CycleInv, Acyclical
    <3>5. \A C \in (SUBSET EntityId) \ {{}} : \E i \in C : \A j \in C :
            <<i, rel, j>> \notin relations \cup {<<from, rel, to>>}
      BY <3>2, <3>3, <3>4, NoNewCycle
    <3>6. Acyclical(rel)' BY <2>1, <2>3, <2>4, <3>5 DEF Acyclical
    <3>7. \A u \in StoreThread : ~OnItsWay(u, rel)' BY <2>1, <3>1 DEF CycleInv
    <3> QED BY <3>6, <3>7
  <2>5. CASE rel # name
    <3>1. \A i, j : <<i, rel, j>> # <<from, name, to>> BY <2>5
    <3>2. Acyclical(rel)' BY <2>1, <2>3, <3>1 DEF CycleInv, Acyclical
    <3>3. \A u, v \in StoreThread : OnItsWay(u, rel)' /\ OnItsWay(v, rel)' => u = v BY <2>1 DEF CycleInv
    <3>4. \A V : ClosedAlong(V, rel) => ClosedAlong(V, rel)' BY <2>1, <2>3a, <2>5 DEF ClosedAlong
    <3>5. ASSUME NEW u \in StoreThread, OnItsWay(u, rel)'
          PROVE  \E V \in SUBSET EntityId : maker'[u].rel[3] \in V /\ maker'[u].rel[1] \notin V /\ ClosedAlong(V, rel)'
      <4>1. OnItsWay(u, rel) /\ maker'[u] = maker[u] BY <2>1, <3>5
      <4>2. PICK V \in SUBSET EntityId : maker[u].rel[3] \in V /\ maker[u].rel[1] \notin V /\ ClosedAlong(V, rel)
        BY <4>1 DEF CycleInv
      <4> QED BY <3>4, <4>1, <4>2
    <3> QED BY <3>2, <3>3, <3>5
  <2> QED BY <2>4, <2>5
<1> QED BY <1>2, <1>3, <1>4, <1>5, <1>6, <1>7 DEF TypedNext

\* The invariant of the typed store, from the empty store on.
LEMMA TypedInductive == TypedSpec => []TypedInv
<1>1. TypedInit => TypedInv
  <2> SUFFICES ASSUME TypedInit PROVE TypedInv OBVIOUS
  <2>1. Resting \in Makers /\ Resting.at = "rest" BY DEF Resting, Makers
  <2>2. maker = [t \in StoreThread |-> Resting] /\ entities = [i \in {} |-> ""] /\ relations = {}
        /\ entitiesFile = {} /\ relationsFile = {}
    BY DEF TypedInit
  <2>3. \A t \in StoreThread : maker[t] = Resting BY <2>2
  <2>4. MakersInv BY <2>1, <2>2, <2>3 DEF MakersInv
  <2>5. StoredInv BY <2>2 DEF StoredInv
  <2>6. Checked = {} BY <2>1, <2>2, <2>3 DEF Checked
  <2>7. EndpointsInv BY <2>6 DEF EndpointsInv
  <2>8. CycleInv BY <2>1, <2>2, <2>3 DEF CycleInv, OnItsWay, Acyclical
  <2> QED BY <2>4, <2>5, <2>7, <2>8 DEF TypedInv
<1>2. TypedInv /\ [TypedNext]_typedVars => TypedInv'
  <2> SUFFICES ASSUME TypedInv, [TypedNext]_typedVars PROVE TypedInv' OBVIOUS
  <2>1. CASE UNCHANGED typedVars
    BY <2>1 DEF typedVars, TypedInv, MakersInv, StoredInv, EndpointsInv, Checked, EndsTyped, There, CycleInv,
                Acyclical, OnItsWay, ClosedAlong, Acyclic
  <2>2. CASE TypedNext
    <3>1. MakersInv' /\ StoredInv'
      BY <2>2, CreateMakers, CheckMakers, SaveEntityMakers, AppendMakers, SaveRelationMakers, ReopenEffect
      DEF TypedNext, TypedInv
    <3> QED BY <2>2, <3>1, EndpointsStep, CycleStep DEF TypedInv
  <2> QED BY <2>1, <2>2
<1> QED BY <1>1, <1>2, PTL DEF TypedSpec

\* In every state of every run the store and its files hold entities and relations (ontology.py:483).
THEOREM TypedTypeCorrect == TypedSpec => []TypedTypeOK
<1>1. TypedInv => TypedTypeOK
  BY DEF TypedInv, MakersInv, StoredInv, TypedTypeOK, Makers, Triples
<1> QED BY <1>1, TypedInductive, PTL

\* For any types, relations, threads and crashes: an acyclic relation has a cycle only if two of
\* its relations were checked before either was in, and a relation lacks an endpoint, or joins
\* types it may not join, only if that id was lost in a crash or given another type (ontology.py:557).
THEOREM SchemaCorrect == TypedSpec => []SchemaHolds
<1>1. TypedInv => SchemaHolds
  <2> SUFFICES ASSUME TypedInv PROVE SchemaHolds OBVIOUS
  <2>1. NoCycle BY DEF TypedInv, CycleInv, Acyclical, NoCycle
  <2>2. \A r \in relations : EndsTyped(r) BY DEF TypedInv, EndpointsInv, Checked
  <2>3. EndpointsThere BY <2>2 DEF EndpointsThere, EndsTyped, There
  <2>4. EndpointsFit BY <2>2 DEF EndpointsFit, EndsTyped
  <2> QED BY <2>1, <2>3, <2>4 DEF SchemaHolds
<1> QED BY <1>1, TypedInductive, PTL

-----------------------------------------------------------------------------
(* The embedding cache.  An answer of the current era of its text is what the cache holds for  *)
(* it: a fresh entry is never replaced, and one that goes begins another era.                  *)
Asking == [at : {"idle", "computing", "computed", "returned"}, text : EText, vector : Sources \cup {"none"}, era : Nat]
AskingTypes ==
  /\ asking \in [Embedder -> Asking]
  /\ \A t \in Embedder : asking[t].at = "computed" => asking[t].vector \in Sources
  /\ asks \in 0..MaxAsks /\ era \in [EText -> Nat]
  /\ instant \in 0..MaxInstant /\ cleaned \in 0..instant

CacheInv ==
  /\ entries \subseteq CacheEntry /\ IsFiniteSet(entries) /\ Cardinality(entries) <= MaxEntries
  /\ \A e, f \in entries : e.text = f.text => e = f
  /\ \A e \in entries : e.stamp <= instant

HeldAnswer(x, v, n) == n <= era[x] /\ (n = era[x] => \E e \in entries : e.text = x /\ e.vector = v)
EraInv ==
  /\ \A t \in Embedder : asking[t].at = "returned" => HeldAnswer(asking[t].text, asking[t].vector, asking[t].era)
  /\ OneVectorPerEra

EmbeddingInv == AskingTypes /\ CacheInv /\ EraInv

\* What the cache may become: entries it had, and new ones only for texts that had no fresh one.
Renewed(c) == \A g \in c : g \in entries \/ FreshFor(g.text) = {}

\* An answer of the current era stays one, or its era ends.
LEMMA HeldStays ==
  ASSUME AskingTypes, CacheInv, NEW c, Renewed(c), CacheBecomes(c), NEW x \in EText, NEW v, NEW n \in Nat,
         HeldAnswer(x, v, n)
  PROVE  HeldAnswer(x, v, n)'
<1>1. entries' = c /\ era' = [y \in EText |-> IF y \in Lost(c) THEN era[y] + 1 ELSE era[y]]
  BY DEF CacheBecomes
<1>2. era[x] \in Nat BY DEF AskingTypes
<1>3. CASE x \in Lost(c)
  <2>1. era'[x] = era[x] + 1 BY <1>1, <1>3
  <2>2. n <= era'[x] /\ n # era'[x] BY <1>2, <2>1 DEF HeldAnswer
  <2> QED BY <2>2 DEF HeldAnswer
<1>4. CASE x \notin Lost(c)
  <2>1. era'[x] = era[x] BY <1>1, <1>4
  <2>2. ASSUME n = era[x] PROVE \E e \in c : e.text = x /\ e.vector = v
    <3>1. PICK e \in entries : e.text = x /\ e.vector = v BY <2>2 DEF HeldAnswer
    <3>2. ASSUME e \notin c PROVE FALSE
      <4>1. ~(instant - e.stamp >= Ttl) /\ \E g \in c : g.text = e.text BY <1>4, <3>1, <3>2 DEF Lost
      <4>2. PICK g \in c : g.text = x BY <3>1, <4>1
      <4>3. g \notin entries BY <3>1, <3>2, <4>2 DEF CacheInv
      <4>4. FreshFor(x) = {} BY <4>2, <4>3 DEF Renewed
      <4>5. e.stamp \in Nat /\ instant \in Nat /\ Ttl \in Nat
        BY EmbeddingConstants, EmbeddingBounds DEF CacheInv, CacheEntry, AskingTypes
      <4>6. instant - e.stamp < Ttl /\ instant - e.stamp <= Ttl BY <4>1, <4>5
      <4>7. e \in Swept BY <4>6 DEF Swept
      <4> QED BY <3>1, <4>4, <4>6, <4>7 DEF FreshFor
    <3> QED BY <3>1, <3>2
  <2> QED BY <1>1, <2>1, <2>2 DEF HeldAnswer
<1> QED BY <1>3, <1>4

\* What the cache becomes in a step: Others, Swept, or one with the new entry.
LEMMA SweptFacts ==
  ASSUME AskingTypes, CacheInv
  PROVE  /\ Swept \subseteq entries
         /\ \A x \in EText : Others(x) \subseteq entries /\ Got(x) \subseteq entries
         /\ \A x \in EText : \A e \in FreshFor(x) : e \in Swept /\ e.text = x /\ e.vector \in Sources
  BY DEF Swept, Others, Got, FreshFor, CacheInv, CacheEntry

\* Entries that go: nothing is new.
LEMMA SmallerCache ==
  ASSUME AskingTypes, CacheInv, NEW c, c \subseteq entries, CacheBecomes(c), UNCHANGED instant
  PROVE  CacheInv' /\ Renewed(c)
<1>1. entries' = c BY DEF CacheBecomes
<1>2. IsFiniteSet(c) /\ Cardinality(c) <= Cardinality(entries) BY FS_Subset DEF CacheInv
<1>3. Cardinality(c) \in Nat /\ Cardinality(entries) \in Nat BY <1>2, FS_CardinalityType DEF CacheInv
<1>4. Cardinality(c) <= MaxEntries BY <1>2, <1>3, EmbeddingConstants DEF CacheInv
<1> QED BY <1>1, <1>2, <1>4 DEF CacheInv, Renewed

\* Entries that go, and one put in for a text that has no fresh one.
LEMMA GrownCache ==
  ASSUME AskingTypes, CacheInv, NEW x \in EText, NEW v \in Sources, NEW c \in Evictions(Others(x)),
         FreshFor(x) = {}, CacheBecomes(c \cup {[text |-> x, vector |-> v, stamp |-> instant]}), UNCHANGED instant
  PROVE  /\ CacheInv' /\ Renewed(c \cup {[text |-> x, vector |-> v, stamp |-> instant]})
         /\ \E e \in entries' : e.text = x /\ e.vector = v
<1> DEFINE new == [text |-> x, vector |-> v, stamp |-> instant]
<1>1. new \in CacheEntry /\ new.text = x /\ new.vector = v /\ new.stamp = instant BY DEF CacheEntry, AskingTypes
<1>1a. entries' = c \cup {new} BY DEF CacheBecomes
<1>1b. Renewed(c \cup {new}) <=> Renewed(c \cup {[text |-> x, vector |-> v, stamp |-> instant]}) OBVIOUS
<1> HIDE DEF new
<1>2. Others(x) \subseteq entries /\ \A e \in Others(x) : e.text # x BY SweptFacts DEF Others
<1>3. IsFiniteSet(Others(x)) /\ Cardinality(Others(x)) <= Cardinality(entries) BY <1>2, FS_Subset DEF CacheInv
<1>4. Cardinality(Others(x)) \in Nat /\ Cardinality(entries) \in Nat BY <1>3, FS_CardinalityType DEF CacheInv
<1>5. c \subseteq Others(x) /\ IsFiniteSet(c) /\ Cardinality(c) + 1 <= MaxEntries
  <2>1. CASE Cardinality(Others(x)) < MaxEntries
    BY <1>3, <1>4, <2>1, EmbeddingConstants DEF Evictions
  <2>2. CASE ~(Cardinality(Others(x)) < MaxEntries)
    <3>1. PICK e \in Oldest(Others(x)) : c = Others(x) \ {e} BY <2>2 DEF Evictions
    <3>2. e \in Others(x) BY DEF Oldest
    <3>3. IsFiniteSet(c) /\ Cardinality(c) = Cardinality(Others(x)) - 1 BY <1>3, <3>1, <3>2, FS_RemoveElement
    <3> QED BY <1>3, <1>4, <3>1, <3>3, EmbeddingConstants DEF CacheInv
  <2> QED BY <2>1, <2>2
<1>6. new \notin c BY <1>1, <1>2, <1>5
<1>7. IsFiniteSet(c \cup {new}) /\ Cardinality(c \cup {new}) = Cardinality(c) + 1 BY <1>5, <1>6, FS_AddElement
<1>8. c \cup {new} \subseteq CacheEntry BY <1>1, <1>2, <1>5 DEF CacheInv
<1>9. \A e, f \in c \cup {new} : e.text = f.text => e = f BY <1>1, <1>2, <1>5 DEF CacheInv
<1>10. \A e \in c \cup {new} : e.stamp <= instant BY <1>1, <1>2, <1>5 DEF CacheInv, AskingTypes
<1>11. CacheInv' BY <1>1a, <1>5, <1>7, <1>8, <1>9, <1>10 DEF CacheInv
<1>12. Renewed(c \cup {new}) BY <1>1, <1>2, <1>5 DEF Renewed
<1> QED BY <1>1, <1>1a, <1>1b, <1>11, <1>12

\* The counters of eras only rise.
LEMMA CacheTypes ==
  ASSUME AskingTypes, NEW c, CacheBecomes(c)
  PROVE  era' \in [EText -> Nat] /\ (instant' = instant => cleaned' \in 0..instant')
<1>1. era' = [x \in EText |-> IF x \in Lost(c) THEN era[x] + 1 ELSE era[x]] BY DEF CacheBecomes
<1>2. cleaned' = IF Due THEN instant ELSE cleaned BY DEF CacheBecomes
<1>3. era' \in [EText -> Nat] BY <1>1 DEF AskingTypes
<1>4. instant \in Nat BY EmbeddingBounds DEF AskingTypes
<1> QED BY <1>2, <1>3, <1>4 DEF AskingTypes

\* A thread is given what the cache then holds for its text.
LEMMA AnswerStep ==
  ASSUME EmbeddingInv, NEW t \in Embedder, NEW x \in EText, NEW v \in Sources, NEW c, Renewed(c), CacheBecomes(c),
         Answer(t, x, v), CacheInv', \E e \in entries' : e.text = x /\ e.vector = v, UNCHANGED instant,
         asks' \in 0..MaxAsks
  PROVE  EmbeddingInv'
<1>1. era' \in [EText -> Nat] /\ cleaned' \in 0..instant' BY CacheTypes DEF EmbeddingInv
<1> DEFINE new == [at |-> "returned", text |-> x, vector |-> v, era |-> era'[x]]
<1>2. new \in Asking /\ new.at = "returned" /\ new.text = x /\ new.vector = v /\ new.era = era'[x]
  BY <1>1 DEF Asking
<1>3. asking' = [asking EXCEPT ![t] = new] BY DEF Answer
<1> HIDE DEF new
<1>4. asking'[t] = new /\ \A u \in Embedder : u # t => asking'[u] = asking[u]
  BY <1>3 DEF EmbeddingInv, AskingTypes
<1>5. asking' \in [Embedder -> Asking] BY <1>2, <1>3 DEF EmbeddingInv, AskingTypes
<1>6. AskingTypes' BY <1>1, <1>2, <1>4, <1>5 DEF EmbeddingInv, AskingTypes
<1>7. \A u \in Embedder : asking[u] \in Asking BY DEF EmbeddingInv, AskingTypes
<1>8. ASSUME NEW u \in Embedder, u # t, asking[u].at = "returned"
      PROVE  HeldAnswer(asking[u].text, asking[u].vector, asking[u].era)'
  <2>1. asking[u].text \in EText /\ asking[u].era \in Nat BY <1>7 DEF Asking
  <2>2. HeldAnswer(asking[u].text, asking[u].vector, asking[u].era) BY <1>8 DEF EmbeddingInv, EraInv
  <2>3. \A y \in EText, n \in Nat : \A w : HeldAnswer(y, w, n) => HeldAnswer(y, w, n)'
    BY HeldStays DEF EmbeddingInv
  <2>4. asking'[u] = asking[u] BY <1>4, <1>8
  <2>5. /\ asking[u].era <= era'[asking[u].text]
        /\ asking[u].era = era'[asking[u].text] =>
             \E e \in entries' : e.text = asking[u].text /\ e.vector = asking[u].vector
    BY <2>1, <2>2, <2>3 DEF HeldAnswer
  <2> QED BY <2>4, <2>5 DEF HeldAnswer
<1>9. \A u \in Embedder : asking'[u].at = "returned" =>
         /\ asking'[u].era <= era'[asking'[u].text]
         /\ asking'[u].era = era'[asking'[u].text] =>
              \E e \in entries' : e.text = asking'[u].text /\ e.vector = asking'[u].vector
  <2> SUFFICES ASSUME NEW u \in Embedder, asking'[u].at = "returned"
               PROVE  /\ asking'[u].era <= era'[asking'[u].text]
                      /\ asking'[u].era = era'[asking'[u].text] =>
                           \E e \in entries' : e.text = asking'[u].text /\ e.vector = asking'[u].vector
    OBVIOUS
  <2>1. CASE u = t BY <1>1, <1>2, <1>4, <2>1
  <2>2. CASE u # t BY <1>4, <1>8, <2>2 DEF HeldAnswer
  <2> QED BY <2>1, <2>2
<1>10. ASSUME NEW u \in Embedder, NEW w \in Embedder, asking'[u].at = "returned", asking'[w].at = "returned",
              asking'[u].text = asking'[w].text, asking'[u].era = asking'[w].era
       PROVE  asking'[u].vector = asking'[w].vector
  <2>1. CASE u # t /\ w # t BY <1>4, <1>10, <2>1 DEF EmbeddingInv, EraInv, OneVectorPerEra
  <2>2. CASE u = t \/ w = t
    <3>1. asking'[u].era = era'[asking'[u].text] /\ asking'[w].era = era'[asking'[w].text]
      BY <1>2, <1>4, <1>10, <2>2
    <3>2. PICK e \in entries' : e.text = asking'[u].text /\ e.vector = asking'[u].vector BY <1>9, <1>10, <3>1
    <3>3. PICK f \in entries' : f.text = asking'[w].text /\ f.vector = asking'[w].vector BY <1>9, <1>10, <3>1
    <3> QED BY <1>10, <3>2, <3>3 DEF CacheInv
  <2> QED BY <2>1, <2>2
<1>11. OneVectorPerEra' BY <1>10 DEF OneVectorPerEra
<1>12. EraInv' BY <1>9, <1>11 DEF EraInv, HeldAnswer
<1> QED BY <1>6, <1>12 DEF EmbeddingInv

\* A step that changes no answer, and the cache only as CacheBecomes does, or not at all.
LEMMA NoAnswerStep ==
  ASSUME EmbeddingInv, AskingTypes', CacheInv',
         (entries' = entries /\ era' = era) \/ \E c : Renewed(c) /\ CacheBecomes(c),
         \A u \in Embedder : asking'[u].at = "returned" => asking'[u] = asking[u]
  PROVE  EmbeddingInv'
<1>1. ASSUME NEW u \in Embedder, asking'[u].at = "returned"
      PROVE  /\ asking'[u].era <= era'[asking'[u].text]
             /\ asking'[u].era = era'[asking'[u].text] =>
                  \E e \in entries' : e.text = asking'[u].text /\ e.vector = asking'[u].vector
  <2>1. asking'[u] = asking[u] /\ asking[u] \in Asking BY <1>1 DEF EmbeddingInv, AskingTypes
  <2>2. asking[u].text \in EText /\ asking[u].era \in Nat BY <2>1 DEF Asking
  <2>3. HeldAnswer(asking[u].text, asking[u].vector, asking[u].era) BY <1>1, <2>1 DEF EmbeddingInv, EraInv
  <2>4. CASE entries' = entries /\ era' = era BY <2>1, <2>3, <2>4 DEF HeldAnswer
  <2>5. CASE \E c : Renewed(c) /\ CacheBecomes(c)
    <3>1. \A y \in EText, n \in Nat : \A w : HeldAnswer(y, w, n) => HeldAnswer(y, w, n)'
      BY <2>5, HeldStays DEF EmbeddingInv
    <3>2. /\ asking[u].era <= era'[asking[u].text]
          /\ asking[u].era = era'[asking[u].text] =>
               \E e \in entries' : e.text = asking[u].text /\ e.vector = asking[u].vector
      BY <2>2, <2>3, <3>1 DEF HeldAnswer
    <3> QED BY <2>1, <3>2
  <2> QED BY <2>4, <2>5
<1>2. OneVectorPerEra' BY DEF EmbeddingInv, EraInv, OneVectorPerEra
<1>3. EraInv' BY <1>1, <1>2 DEF EraInv, HeldAnswer
<1> QED BY <1>3 DEF EmbeddingInv

\* get(): the fresh entry is the answer, or stale ones go.
LEMMA AskStep ==
  ASSUME EmbeddingInv, NEW t \in Embedder, NEW x \in EText, Ask(t, x)
  PROVE  EmbeddingInv'
<1>1. CacheBecomes(Got(x)) /\ UNCHANGED instant /\ asks' = asks + 1 /\ asks < MaxAsks BY DEF Ask
<1>2. asks' \in 0..MaxAsks BY <1>1, EmbeddingBounds DEF EmbeddingInv, AskingTypes
<1>3. CacheInv' /\ Renewed(Got(x)) BY <1>1, SweptFacts, SmallerCache DEF EmbeddingInv
<1>4. CASE FreshFor(x) # {}
  <2>1. PICK e \in FreshFor(x) : Answer(t, x, e.vector) BY <1>4 DEF Ask
  <2>2. Got(x) = Swept /\ e \in Swept /\ e.text = x /\ e.vector \in Sources
    BY <1>4, SweptFacts DEF EmbeddingInv, Got
  <2>3. entries' = Got(x) BY <1>1 DEF CacheBecomes
  <2> QED BY <1>1, <1>2, <1>3, <2>1, <2>2, <2>3, AnswerStep
<1>5. CASE FreshFor(x) = {}
  <2> DEFINE new == [Unasked EXCEPT !.at = "computing", !.text = x]
  <2>1. new \in Asking /\ new.at = "computing" BY EmbeddingBounds DEF Unasked, Asking
  <2>2. asking' = [asking EXCEPT ![t] = new] BY <1>5 DEF Ask
  <2> HIDE DEF new
  <2>3. asking'[t] = new /\ \A u \in Embedder : u # t => asking'[u] = asking[u]
    BY <2>2 DEF EmbeddingInv, AskingTypes
  <2>4. asking' \in [Embedder -> Asking] BY <2>1, <2>2 DEF EmbeddingInv, AskingTypes
  <2>5. era' \in [EText -> Nat] /\ cleaned' \in 0..instant' BY <1>1, CacheTypes DEF EmbeddingInv
  <2>6. AskingTypes' BY <1>1, <1>2, <2>1, <2>3, <2>4, <2>5 DEF EmbeddingInv, AskingTypes
  <2>7. \A u \in Embedder : asking'[u].at = "returned" => asking'[u] = asking[u] BY <2>1, <2>3
  <2> QED BY <1>1, <1>3, <2>6, <2>7, NoAnswerStep
<1> QED BY <1>4, <1>5

\* A computation touches nothing of the cache.
LEMMA ComputeEmbeddingStep ==
  ASSUME EmbeddingInv, NEW t \in Embedder, ComputeEmbedding(t)
  PROVE  EmbeddingInv'
<1>1. PICK source \in Sources : asking' = [asking EXCEPT ![t].at = "computed", ![t].vector = source]
  BY DEF ComputeEmbedding
<1>2. UNCHANGED <<entries, cleaned, instant, era, asks>> BY DEF ComputeEmbedding
<1> DEFINE new == [asking[t] EXCEPT !.at = "computed", !.vector = source]
<1>3. asking[t] \in Asking BY DEF EmbeddingInv, AskingTypes
<1>4. new \in Asking /\ new.at = "computed" /\ new.vector = source BY <1>3 DEF Asking
<1>5. asking' = [asking EXCEPT ![t] = new] BY <1>1 DEF EmbeddingInv, AskingTypes
<1> HIDE DEF new
<1>6. asking'[t] = new /\ \A u \in Embedder : u # t => asking'[u] = asking[u]
  BY <1>5 DEF EmbeddingInv, AskingTypes
<1>7. asking' \in [Embedder -> Asking] BY <1>4, <1>5 DEF EmbeddingInv, AskingTypes
<1>8. AskingTypes' BY <1>2, <1>4, <1>6, <1>7 DEF EmbeddingInv, AskingTypes
<1>9. CacheInv' BY <1>2 DEF EmbeddingInv, CacheInv
<1>10. \A u \in Embedder : asking'[u].at = "returned" => asking'[u] = asking[u] BY <1>4, <1>6
<1> QED BY <1>2, <1>8, <1>9, <1>10, NoAnswerStep

\* The second get() under the lock: its entry is the answer, or the computed vector goes in.
LEMMA KeepStep ==
  ASSUME EmbeddingInv, NEW t \in Embedder, Keep(t)
  PROVE  EmbeddingInv'
<1> DEFINE x == asking[t].text
           v == asking[t].vector
<1>1. asking[t] \in Asking /\ asking[t].at = "computed" BY DEF EmbeddingInv, AskingTypes, Keep
<1>2. x \in EText /\ v \in Sources BY <1>1 DEF EmbeddingInv, AskingTypes, Asking
<1>3. /\ UNCHANGED <<instant, asks>>
      /\ IF FreshFor(x) # {} THEN CacheBecomes(Got(x)) /\ \E e \in FreshFor(x) : Answer(t, x, e.vector)
         ELSE CacheVector(t, x)
  BY DEF Keep
<1>4. CacheVector(t, x) <=>
        /\ \E c \in Evictions(Others(x)) : CacheBecomes(c \cup {[text |-> x, vector |-> v, stamp |-> instant]})
        /\ Answer(t, x, v)
  BY DEF CacheVector
<1> HIDE DEF x, v
<1>5. asks' \in 0..MaxAsks BY <1>3 DEF EmbeddingInv, AskingTypes
<1>6. CASE FreshFor(x) # {}
  <2>1. PICK e \in FreshFor(x) : Answer(t, x, e.vector) BY <1>3, <1>6
  <2>2. Got(x) = Swept /\ e \in Swept /\ e.text = x /\ e.vector \in Sources
    BY <1>2, <1>6, SweptFacts DEF EmbeddingInv, Got
  <2>3. CacheBecomes(Got(x)) /\ entries' = Got(x) BY <1>3, <1>6 DEF CacheBecomes
  <2>4. CacheInv' /\ Renewed(Got(x)) BY <1>2, <1>3, <2>3, SweptFacts, SmallerCache DEF EmbeddingInv
  <2> QED BY <1>2, <1>3, <1>5, <2>1, <2>2, <2>3, <2>4, AnswerStep
<1>7. CASE FreshFor(x) = {}
  <2>1. PICK c \in Evictions(Others(x)) : CacheBecomes(c \cup {[text |-> x, vector |-> v, stamp |-> instant]})
    BY <1>3, <1>4, <1>7
  <2>2. Answer(t, x, v) BY <1>3, <1>4, <1>7
  <2> DEFINE d == c \cup {[text |-> x, vector |-> v, stamp |-> instant]}
  <2>3. CacheInv' /\ Renewed(d) /\ \E e \in entries' : e.text = x /\ e.vector = v
    BY <1>2, <1>3, <1>7, <2>1, GrownCache DEF EmbeddingInv
  <2>4. CacheBecomes(d) BY <2>1
  <2> HIDE DEF d
  <2> QED BY <1>2, <1>3, <1>5, <2>2, <2>3, <2>4, AnswerStep
<1> QED BY <1>6, <1>7

\* The invariant of the cache, from the empty cache on.
LEMMA EmbeddingInductive == EmbeddingSpec => []EmbeddingInv
<1>1. EmbeddingInit => EmbeddingInv
  <2> SUFFICES ASSUME EmbeddingInit PROVE EmbeddingInv OBVIOUS
  <2>1. Unasked \in Asking /\ Unasked.at = "idle" BY EmbeddingBounds DEF Unasked, Asking
  <2>2. asking = [t \in Embedder |-> Unasked] /\ entries = {} /\ era = [x \in EText |-> 0]
        /\ instant = 0 /\ cleaned = 0 /\ asks = 0
    BY DEF EmbeddingInit
  <2>3. \A t \in Embedder : asking[t] = Unasked BY <2>2
  <2>4. AskingTypes BY <2>1, <2>2, <2>3, EmbeddingBounds DEF AskingTypes
  <2>5. CacheInv BY <2>2, FS_EmptySet, EmbeddingConstants DEF CacheInv
  <2>6. EraInv BY <2>1, <2>3 DEF EraInv, OneVectorPerEra
  <2> QED BY <2>4, <2>5, <2>6 DEF EmbeddingInv
<1>2. EmbeddingInv /\ [EmbeddingNext]_embeddingVars => EmbeddingInv'
  <2> SUFFICES ASSUME EmbeddingInv, [EmbeddingNext]_embeddingVars PROVE EmbeddingInv' OBVIOUS
  <2>1. ASSUME Tick \/ UNCHANGED embeddingVars PROVE EmbeddingInv'
    <3>1. UNCHANGED <<entries, cleaned, asking, era, asks>> BY <2>1 DEF Tick, embeddingVars
    <3>2. instant' \in 0..MaxInstant /\ instant' >= instant
      BY <2>1, EmbeddingBounds DEF Tick, embeddingVars, EmbeddingInv, AskingTypes
    <3>3. cleaned' \in 0..instant' BY <3>1, <3>2, EmbeddingBounds DEF EmbeddingInv, AskingTypes
    <3>4. AskingTypes' BY <3>1, <3>2, <3>3 DEF EmbeddingInv, AskingTypes
    <3>5. \A e \in entries : e.stamp <= instant'
      BY <3>2, EmbeddingBounds DEF EmbeddingInv, CacheInv, CacheEntry, AskingTypes
    <3>6. CacheInv' BY <3>1, <3>5 DEF EmbeddingInv, CacheInv
    <3> QED BY <3>1, <3>4, <3>6, NoAnswerStep
  <2> QED BY <2>1, AskStep, ComputeEmbeddingStep, KeepStep DEF EmbeddingNext
<1> QED BY <1>1, <1>2, PTL DEF EmbeddingSpec

\* In every state of every run the cache holds no more than it may, one entry at most for a
\* text, and none from the future (cache.py:24).
THEOREM EmbeddingTypeCorrect == EmbeddingSpec => []EmbeddingTypeOK
<1>1. EmbeddingInv => EmbeddingTypeOK
  <2> SUFFICES ASSUME EmbeddingInv PROVE EmbeddingTypeOK OBVIOUS
  <2>1. \A t \in Embedder : asking[t].at \in {"idle", "computing", "computed", "returned"}
    BY DEF EmbeddingInv, AskingTypes, Asking
  <2> QED BY <2>1 DEF EmbeddingInv, AskingTypes, CacheInv, EmbeddingTypeOK
<1> QED BY <1>1, EmbeddingInductive, PTL

\* Between two losses of its entry all threads are given the same vector for a text, whatever
\* source answered each of them: for any texts, threads, capacity and lifetime (vector_memory.py:136).
THEOREM OneVectorCorrect == EmbeddingSpec => []OneVectorPerEra
<1>1. EmbeddingInv => OneVectorPerEra BY DEF EmbeddingInv, EraInv
<1> QED BY <1>1, EmbeddingInductive, PTL
=============================================================================
