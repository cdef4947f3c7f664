------------------------------ MODULE ConfigLoad ------------------------------
(***************************************************************************)
(* The global configuration: get_config() publishes a default object and   *)
(* then fills it from the file and from the environment, without a lock;   *)
(* reload_config() drops it first; PUT /api/config changes the published   *)
(* object in memory.  Any thread may do any of these at any time.          *)
(***************************************************************************)
EXTENDS Integers, Sequences, FiniteSets

CONSTANTS FileValues,       \* section.key -> value, as config.yaml may hold them
          Environments,     \* the environments of a process: key -> value, or Malformed for no number
          EnvOrder,         \* the keys in the order in which _apply_env reads their variables
          Default,          \* key -> value of the dataclasses
          StrictInt,        \* keys whose variable is converted with a bare int() or float()
          TokenFloors,      \* key -> least value once reasoning_model is set
          ConfigThread, Edits, MaxObjects, MaxGets, MaxEdits

Malformed == -1
Key == DOMAIN Default
ASSUME ConfigConstants ==
  /\ "reasoning_model" \in Key \ DOMAIN TokenFloors /\ DOMAIN TokenFloors \subseteq Key
  /\ StrictInt \subseteq Key /\ TokenFloors \in [DOMAIN TokenFloors -> Nat]
  /\ EnvOrder \in Seq(Key) /\ {EnvOrder[i] : i \in DOMAIN EnvOrder} = Key
\* Every setting is a number here, and a variable is read only for a key there is.
ASSUME ConfigValues ==
  /\ Default \in [Key -> Int] /\ FileValues \in [DOMAIN FileValues -> Int]
  /\ \A e \in Environments : e \in [DOMAIN e -> Int]
  /\ \A e \in Edits : e \in [DOMAIN e -> Int]
ASSUME ConfigBounds == MaxObjects \in Nat

VARIABLES environment,  \* of this process
          objects,      \* every ZettelForgeConfig created, in order
          config,       \* _config: one of them, or 0 for None
          getter,       \* what each thread is doing, and the object it was given
          gets, edits,
          edited,       \* keys changed through the API (history)
          loadFailed,   \* has a load raised? (history)
          met,          \* threads whose call overlapped another one (history)
          collided      \* have two calls overlapped? (history)
configVars == <<environment, objects, config, getter, gets, edits, edited, loadFailed, met, collided>>

Free == {"idle", "returned", "raised"}
Busy == {t \in ConfigThread : getter[t].at \notin Free}

-----------------------------------------------------------------------------
\* _apply_yaml: unknown keys are passed over
ApplyYaml(cfg, data) == [k \in Key |-> IF k \in DOMAIN data THEN data[k] ELSE cfg[k]]
\* _apply_env: a malformed number raises at its turn, or is logged and passed over
Refused(k) == k \in StrictInt /\ k \in DOMAIN environment /\ environment[k] = Malformed
Read == {EnvOrder[i] : i \in {n \in DOMAIN EnvOrder : \A m \in 1..n : ~Refused(EnvOrder[m])}}
ApplyEnv(cfg) ==
  [k \in Key |-> IF k \in DOMAIN environment \cap Read /\ environment[k] # Malformed THEN environment[k] ELSE cfg[k]]
\* _apply_reasoning_model_scaling
Scale(cfg) ==
  [k \in Key |-> IF cfg["reasoning_model"] = 1 /\ k \in DOMAIN TokenFloors /\ cfg[k] < TokenFloors[k]
                 THEN TokenFloors[k] ELSE cfg[k]]

ConfigTypeOK ==
  /\ config \in 0..Len(objects) /\ Len(objects) <= MaxObjects
  /\ \A i \in DOMAIN objects : DOMAIN objects[i] = Key
  /\ \A t \in ConfigThread : getter[t].at \in Free \cup {"check", "create", "file", "env", "scale", "return"}
                             /\ getter[t].got \in 0..Len(objects)
  /\ edited \subseteq Key /\ met \subseteq ConfigThread

ConfigInit ==
  /\ environment \in Environments
  /\ objects = <<>> /\ config = 0 /\ getter = [t \in ConfigThread |-> [at |-> "idle", got |-> 0]]
  /\ gets = 0 /\ edits = 0 /\ edited = {} /\ loadFailed = FALSE /\ met = {}
  /\ collided = FALSE

To(t, at) == getter' = [getter EXCEPT ![t].at = at]
HistoryUnchanged == UNCHANGED <<gets, edits, edited, loadFailed, met, collided>>

\* get_config, and reload_config, which sets _config to None before it calls it
Get(t, reload) ==
  /\ getter[t].at \in Free /\ gets < MaxGets
  /\ gets' = gets + 1
  /\ config' = IF reload THEN 0 ELSE config
  /\ To(t, "check")
  /\ met' = IF Busy = {} THEN met \ {t} ELSE met \cup Busy \cup {t}
  /\ collided' = (collided \/ Busy # {})
  /\ UNCHANGED <<objects, edits, edited, loadFailed>>

Check(t) ==
  /\ getter[t].at = "check"
  /\ To(t, IF config = 0 THEN "create" ELSE "return")
  /\ UNCHANGED <<objects, config>> /\ HistoryUnchanged

Publish(t) ==
  /\ getter[t].at = "create" /\ Len(objects) < MaxObjects
  /\ objects' = Append(objects, Default) /\ config' = Len(objects) + 1
  /\ To(t, "file") /\ HistoryUnchanged

\* Each layer is applied to the object that _config names at that moment; None has no sections.
Layer(t, at, next, cfg) ==
  /\ getter[t].at = at /\ config # 0
  /\ objects' = [objects EXCEPT ![config] = cfg]
  /\ To(t, next) /\ UNCHANGED config

ApplyFile(t) == Layer(t, "file", "env", ApplyYaml(objects[config], FileValues)) /\ HistoryUnchanged

\* Mutation of ApplyEnvironment: the scaling is not run after it.
ApplyEnvironmentUnscaled(t) ==
  LET raises == \E k \in Key : Refused(k) IN
  /\ Layer(t, "env", IF raises THEN "raised" ELSE "return", ApplyEnv(objects[config]))
  /\ loadFailed' = (loadFailed \/ raises)
  /\ UNCHANGED <<gets, edits, edited, met, collided>>

ApplyEnvironment(t) ==
  LET raises == \E k \in Key : Refused(k) IN
  /\ Layer(t, "env", IF raises THEN "raised" ELSE "scale", ApplyEnv(objects[config]))
  /\ loadFailed' = (loadFailed \/ raises)
  /\ UNCHANGED <<gets, edits, edited, met, collided>>
ApplyScaling(t) == Layer(t, "scale", "return", Scale(objects[config])) /\ HistoryUnchanged

\* On None the first setting of a layer raises; a layer that has nothing to set passes.
LayerOnNone(t) ==
  LET at == getter[t].at
      raises == CASE at = "file" -> DOMAIN FileValues # {}
                  [] at = "env" -> \E k \in DOMAIN environment : Refused(k) \/ environment[k] # Malformed
                  [] OTHER -> TRUE IN
  /\ at \in {"file", "env", "scale"} /\ config = 0
  /\ To(t, IF raises THEN "raised" ELSE IF at = "file" THEN "env" ELSE "scale")
  /\ loadFailed' = (loadFailed \/ raises)
  /\ UNCHANGED <<objects, config, gets, edits, edited, met, collided>>

ReturnConfig(t) ==
  /\ getter[t].at = "return"
  /\ getter' = [getter EXCEPT ![t] = [at |-> "returned", got |-> config]]
  /\ UNCHANGED <<objects, config>> /\ HistoryUnchanged

\* update_config: the payload is applied to the object the handler got, restart-only fields
\* too; the scaling is not.
UpdateConfig(t, data) ==
  /\ getter[t].at = "returned" /\ getter[t].got # 0 /\ edits < MaxEdits
  /\ edits' = edits + 1
  /\ objects' = [objects EXCEPT ![getter[t].got] = ApplyYaml(@, data)]
  /\ edited' = edited \cup (DOMAIN data \cap Key)
  /\ UNCHANGED <<config, getter, gets, loadFailed, met, collided>>

ConfigNext ==
  /\ UNCHANGED environment
  /\ \E t \in ConfigThread :
    \/ \E reload \in BOOLEAN : Get(t, reload)
    \/ Check(t) \/ Publish(t) \/ ApplyFile(t) \/ ApplyEnvironment(t) \/ ApplyScaling(t) \/ LayerOnNone(t)
    \/ ReturnConfig(t)
    \/ \E data \in Edits : UpdateConfig(t, data)

ConfigSpec == ConfigInit /\ [][ConfigNext]_configVars

-----------------------------------------------------------------------------
\* The value the layers promise: environment over file over default, and the floors last.
BeforeEnv(k) == IF k \in DOMAIN FileValues THEN FileValues[k] ELSE Default[k]
Base(k) == IF k \in DOMAIN environment /\ environment[k] # Malformed THEN environment[k] ELSE BeforeEnv(k)
Promised ==
  [k \in Key |-> IF k \in DOMAIN TokenFloors /\ Base("reasoning_model") = 1 /\ Base(k) < TokenFloors[k]
                 THEN TokenFloors[k] ELSE Base(k)]
\* A floor that a lower layer's reasoning_model earned while two loads overlapped, and that
\* nothing takes back when a higher layer turns reasoning off.
LeftOver(k) ==
  /\ collided /\ k \in DOMAIN TokenFloors
  /\ Base("reasoning_model") # 1 /\ 1 \in {Default["reasoning_model"], BeforeEnv("reasoning_model")}
Floored == IF "reasoning_model" \in edited THEN DOMAIN TokenFloors ELSE {}
Keeps(cfg) ==
  \A k \in Key \ (edited \cup Floored) :
    cfg[k] = Promised[k] \/ (LeftOver(k) /\ cfg[k] = TokenFloors[k])

\* Whenever nobody is loading, the published configuration is what the layers promise, but for
\* keys once set through the API and floors that overlapping loads left, and unless a load raised and
\* left what it had applied so far; and a caller gets None or a configuration that is still being
\* filled only if its call overlapped another one (config.py:735).
ConfigAgrees ==
  /\ Busy = {} /\ config # 0 /\ ~loadFailed => Keeps(objects[config])
  /\ \A t \in ConfigThread \ met : getter[t].at = "returned" =>
       getter[t].got # 0 /\ (~loadFailed => Keeps(objects[getter[t].got]))
=============================================================================
