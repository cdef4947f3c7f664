------------------------------ MODULE MCServices ------------------------------
(* The service components, small instances for TLC.  They share no state: a   *)
(* behaviour exercises the one that focus picks, the others stay at one of    *)
(* their initial states.                                                      *)
EXTENDS WriteGate, GraphSearch, MCRecall, MCSynthesis, LlmCalls, RuleIngest, OsintRuns, TypedStore,
        ConfigLoad, WebApi, Migration, EmbeddingCache, FactIngest, TLC

VARIABLE focus

Components == {"gate", "search", "recall", "synthesis", "llm", "rules", "osint", "typed", "config", "web",
               "migration", "embedding", "facts"}

-----------------------------------------------------------------------------
\* Graphs of five nodes with short ways, long ways and a cycle.
CausalEdges == {<<"a", "b">>, <<"b", "c">>, <<"a", "c">>, <<"c", "d">>, <<"b", "n">>}
SomeEdges == CausalEdges \cup {<<"d", "n">>, <<"c", "b">>, <<"a", "n">>}

\* Texts that fit, that do not, and with a sentence that alone is too long.
ThreeTexts == {<<2, 3>>, <<9, 1>>, <<1, 1, 3>>}
OldNotes == {<<0, 1>>}

\* Files with a malformed line, a note rewritten, a node that comes twice, an edge to a node that is nowhere.
NoteLine(i, c) == [id |-> i, content |-> c, ok |-> TRUE]
BadLine == [ok |-> FALSE]
NodeLine(i, e) == [id |-> i, entity |-> e, ok |-> TRUE]
EdgeLine(a, b) == [from |-> a, to |-> b, rel |-> "uses", ok |-> TRUE]
SomeOldFiles ==
  [notes |-> <<NoteLine("n1", "old"), BadLine, NoteLine("n2", "old"), NoteLine("n1", "newer")>>,
   nodes |-> <<NodeLine("i1", "apt28"), NodeLine("i2", "mimikatz"), NodeLine("i1", "apt28"), NodeLine("", "cve")>>,
   edges |-> <<EdgeLine("i1", "i2"), EdgeLine("i2", "i9"), BadLine>>,
   mappings |-> <<[entity |-> "apt28", note |-> "n1", ok |-> TRUE]>>]
OldFileSet == {SomeOldFiles}

\* The application knows one entity of the files and one of its own.
OneLiveEdge == {<<"apt28", "uses", "fresh">>}

\* Two Sigma rules, one of them the successor of an older rule, and a YARA rule of an old store.
SomeRule(dialect, id, meta, tags) ==
  [dialect |-> dialect, id |-> id, meta |-> meta, tags |-> tags,
   facets |-> IF dialect = "sigma" THEN {"product:windows"} ELSE {}, related |-> {},
   cccs |-> IF dialect = "yara" THEN {[field |-> "actor", name |-> "APT28"]} ELSE {}]
SomeTag(kind, name) == [kind |-> kind, raw |-> "raw " \o name, name |-> name]
Technique == SomeRule("sigma", "s", "ok", {SomeTag("technique", "T1059")})
Successor == [SomeRule("sigma", "s2", "ok", {})
                EXCEPT !.related = {[id |-> "old", obsolete |-> TRUE]}, !.facets = {}]
OldYara == SomeRule("yara", "y", "missing_required", {SomeTag("cve", "CVE-2024-3094")})
ThreeRules == {Technique, Successor, OldYara}
Legacy == {OldYara}
SomeFiles ==
  <<[kind |-> "link", rules |-> <<>>], [kind |-> "directory", rules |-> <<>>],
    [kind |-> "rules", rules |-> <<Technique>>], [kind |-> "rules", rules |-> <<Successor>>],
    [kind |-> "rules", rules |-> <<OldYara>>]>>

\* Tuples of two collectors: right ones, a wrong endpoint type, an unreadable value, a relation
\* that does not exist.
SomeTuple(outType, out, edge, from, to, extra) ==
  [outType |-> outType, out |-> out, edge |-> edge, from |-> from, to |-> to, extra |-> extra]
SomeSpelling ==
  [v \in {"EXAMPLE.com.", "example.com", "8.8.8.8", "AS1", "1"} |->
     CASE v = "EXAMPLE.com." -> "example.com" [] v = "AS1" -> "1" [] OTHER -> v]
NoAddress == {<<"IPv4Address", "1">>}
OsintRelations ==
  [resolves_to |-> [from |-> {"DomainName"}, to |-> {"IPv4Address", "DomainName"}],
   part_of_as |-> [from |-> {"IPv4Address", "Netblock"}, to |-> {"ASNumber"}]]
SomeTuples ==
  {SomeTuple("IPv4Address", "8.8.8.8", "resolves_to", "DomainName", "IPv4Address", ""),
   SomeTuple("IPv4Address", "AS1", "resolves_to", "DomainName", "IPv4Address", ""),
   SomeTuple("ASNumber", "AS1", "part_of_as", "IPv4Address", "ASNumber", "8.8.8.8"),
   SomeTuple("ASNumber", "1", "part_of_as", "IPv4Address", "ASNumber", ""),
   SomeTuple("DomainName", "EXAMPLE.com.", "resolves_to", "DomainName", "DomainName", ""),
   SomeTuple("ASNumber", "1", "owned_by", "IPv4Address", "ASNumber", "8.8.8.8")}
TwoCollectors ==
  [dns |-> [inputs |-> {"DomainName"}, outputs |-> {<<"IPv4Address", "resolves_to">>, <<"DomainName", "resolves_to">>},
            maybe |-> {t \in SomeTuples : t.edge = "resolves_to"}],
   bgp |-> [inputs |-> {"DomainName", "ASNumber"}, outputs |-> {<<"ASNumber", "part_of_as">>},
            maybe |-> {t \in SomeTuples : t.edge # "resolves_to"}]]

OneType == [Note |-> [required |-> {"content"}, forbidden |-> {"secret"}, enums |-> [status |-> {"open"}],
                    ordered |-> TRUE]]
\* The custom schema lets the first relation lead to anything, and adds one of its own.
OneRelation == [superseded_by |-> [from |-> {"Note"}, to |-> {"Note"}, acyclic |-> TRUE]]
OwnRelations == [superseded_by |-> [from |-> {"Note"}, to |-> {}, acyclic |-> FALSE],
                 follows |-> [from |-> {}, to |-> {"Note"}, acyclic |-> TRUE]]
SomeProperties ==
  {{<<"content", "x">>}, {<<"content", "">>}, {<<"content", "x">>, <<"status", "shut">>},
   {<<"content", "x">>, <<"start", "9:00">>, <<"end", "8:00">>},
   {<<"content", "x">>, <<"start", "8:00">>, <<"end", "9:00">>}}
EndAfterStart == {<<"9:00", "8:00">>}

FourDefaults == [max_tokens |-> 4, reasoning_model |-> 0, max_content_length |-> 5, url |-> 0]
SomeFile == [max_tokens |-> 3, url |-> 1, unknown |-> 7, reasoning_model |-> 1]
SomeEnvironments ==
  {[max_tokens |-> Malformed, url |-> 2, max_content_length |-> 9],
   [max_content_length |-> Malformed, url |-> 2],
   [max_tokens |-> Malformed, reasoning_model |-> 0]}
Strict == {"max_content_length"}
Floors == [max_tokens |-> 8]
TwoEdits == {[reasoning_model |-> 0], [url |-> 6, max_tokens |-> 1]}
EnvSequence == <<"url", "max_tokens", "max_content_length", "reasoning_model">>

-----------------------------------------------------------------------------
\* A component out of focus starts in one state only.
ServicesInit ==
  /\ focus \in Components
  /\ GateInit /\ (focus # "gate" => settings = [mode |-> "audit", pii |-> "off", entities |-> FALSE, presidio |-> FALSE])
  /\ SearchInit /\ (focus # "search" => edges = {})
  /\ RecallInit /\ (focus # "recall" =>
       /\ world = CHOOSE w \in SomeWorlds : TRUE
       /\ options = [exclude_superseded |-> TRUE, include_expired |-> FALSE, timeout |-> FALSE]
       /\ present = Note /\ superseded = {} /\ expired = {})
  /\ SynthesisInit /\ (focus # "synthesis" => debug)
  /\ LlmInit /\ IngestInit /\ (focus # "rules" => hurt = {}) /\ OsintInit /\ TypedInit
  /\ ConfigInit /\ (focus # "config" => environment = CHOOSE e \in SomeEnvironments : TRUE)
  /\ WebInit /\ (focus # "web" => keyRequired)
  /\ EmbeddingInit
  /\ FactInit /\ (focus # "facts" => text = [doc |-> <<2, 3>>, entry |-> "report"])
  /\ MigrationInit

ServicesNext ==
  \/ focus = "gate" /\ GateNext
       /\ UNCHANGED <<searchVars, recallVars, synthesisVars, llmVars, ingestVars, osintVars, typedVars,
                      configVars, webVars, migrationVars, embeddingVars, factVars, focus>>
  \/ focus = "search" /\ SearchNext
       /\ UNCHANGED <<gateVars, recallVars, synthesisVars, llmVars, ingestVars, osintVars, typedVars,
                      configVars, webVars, migrationVars, embeddingVars, factVars, focus>>
  \/ focus = "recall" /\ RecallNext
       /\ UNCHANGED <<gateVars, searchVars, synthesisVars, llmVars, ingestVars, osintVars, typedVars,
                      configVars, webVars, migrationVars, embeddingVars, factVars, focus>>
  \/ focus = "synthesis" /\ SynthesisNext
       /\ UNCHANGED <<gateVars, searchVars, recallVars, llmVars, ingestVars, osintVars, typedVars,
                      configVars, webVars, migrationVars, embeddingVars, factVars, focus>>
  \/ focus = "llm" /\ LlmNext
       /\ UNCHANGED <<gateVars, searchVars, recallVars, synthesisVars, ingestVars, osintVars, typedVars,
                      configVars, webVars, migrationVars, embeddingVars, factVars, focus>>
  \/ focus = "rules" /\ IngestNext
       /\ UNCHANGED <<gateVars, searchVars, recallVars, synthesisVars, llmVars, osintVars, typedVars,
                      configVars, webVars, migrationVars, embeddingVars, factVars, focus>>
  \/ focus = "osint" /\ OsintNext
       /\ UNCHANGED <<gateVars, searchVars, recallVars, synthesisVars, llmVars, ingestVars, typedVars,
                      configVars, webVars, migrationVars, embeddingVars, factVars, focus>>
  \/ focus = "typed" /\ TypedNext
       /\ UNCHANGED <<gateVars, searchVars, recallVars, synthesisVars, llmVars, ingestVars, osintVars,
                      configVars, webVars, migrationVars, embeddingVars, factVars, focus>>
  \/ focus = "config" /\ ConfigNext
       /\ UNCHANGED <<gateVars, searchVars, recallVars, synthesisVars, llmVars, ingestVars, osintVars,
                      typedVars, webVars, migrationVars, embeddingVars, factVars, focus>>
  \/ focus = "web" /\ WebNext
       /\ UNCHANGED <<gateVars, searchVars, recallVars, synthesisVars, llmVars, ingestVars, osintVars,
                      typedVars, configVars, migrationVars, embeddingVars, factVars, focus>>
  \/ focus = "embedding" /\ EmbeddingNext
       /\ UNCHANGED <<gateVars, searchVars, recallVars, synthesisVars, llmVars, ingestVars, osintVars,
                      typedVars, configVars, webVars, migrationVars, factVars, focus>>
  \/ focus = "facts" /\ FactNext
       /\ UNCHANGED <<gateVars, searchVars, recallVars, synthesisVars, llmVars, ingestVars, osintVars,
                      typedVars, configVars, webVars, migrationVars, embeddingVars, focus>>
  \/ focus = "migration" /\ MigrationNext
       /\ UNCHANGED <<gateVars, searchVars, recallVars, synthesisVars, llmVars, ingestVars, osintVars,
                      typedVars, configVars, webVars, embeddingVars, factVars, focus>>

servicesVars == <<gateVars, searchVars, recallVars, synthesisVars, llmVars, ingestVars, osintVars, typedVars,
                  configVars, webVars, migrationVars, embeddingVars, factVars, focus>>
ServicesSpec == ServicesInit /\ [][ServicesNext]_servicesVars

\* Every component's type invariant.
ServicesTypeOK ==
  /\ GateTypeOK /\ SearchTypeOK /\ RecallTypeOK /\ SynthesisTypeOK /\ LlmTypeOK /\ IngestTypeOK
  /\ OsintTypeOK /\ TypedTypeOK /\ ConfigTypeOK /\ WebTypeOK /\ MigrationTypeOK /\ EmbeddingTypeOK /\ FactTypeOK
=============================================================================
