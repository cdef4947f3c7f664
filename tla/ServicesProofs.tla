----------------------------- MODULE ServicesProofs -----------------------------
(***************************************************************************)
(* The composition of the services: a behaviour of it is a behaviour of    *)
(* each component, so what is proved of the components holds of it.        *)
(***************************************************************************)
EXTENDS MCServices, NotePathProofs, RuntimeProofs, IngestionProofs

\* A step of the composition is a step of one component and leaves the others alone.
LEMMA GateAlone == ServicesSpec => GateSpec
<1>1. ServicesInit => GateInit BY DEF ServicesInit
<1>2. [ServicesNext]_servicesVars => [GateNext]_gateVars BY DEF ServicesNext, servicesVars
<1> QED BY <1>1, <1>2, PTL DEF ServicesSpec, GateSpec

\* The search of the graph.
LEMMA SearchAlone == ServicesSpec => SearchSpec
<1>1. ServicesInit => SearchInit BY DEF ServicesInit
<1>2. [ServicesNext]_servicesVars => [SearchNext]_searchVars BY DEF ServicesNext, servicesVars
<1> QED BY <1>1, <1>2, PTL DEF ServicesSpec, SearchSpec

\* Recall.
LEMMA RecallAlone == ServicesSpec => RecallSpec
<1>1. ServicesInit => RecallInit BY DEF ServicesInit
<1>2. [ServicesNext]_servicesVars => [RecallNext]_recallVars BY DEF ServicesNext, servicesVars
<1> QED BY <1>1, <1>2, PTL DEF ServicesSpec, RecallSpec

\* Synthesis.
LEMMA SynthesisAlone == ServicesSpec => SynthesisSpec
<1>1. ServicesInit => SynthesisInit BY DEF ServicesInit
<1>2. [ServicesNext]_servicesVars => [SynthesisNext]_synthesisVars BY DEF ServicesNext, servicesVars
<1> QED BY <1>1, <1>2, PTL DEF ServicesSpec, SynthesisSpec

\* The LLM providers.
LEMMA LlmAlone == ServicesSpec => LlmSpec
<1>1. ServicesInit => LlmInit BY DEF ServicesInit
<1>2. [ServicesNext]_servicesVars => [LlmNext]_llmVars BY DEF ServicesNext, servicesVars
<1> QED BY <1>1, <1>2, PTL DEF ServicesSpec, LlmSpec

\* The ingestion of rules.
LEMMA IngestAlone == ServicesSpec => IngestSpec
<1>1. ServicesInit => IngestInit BY DEF ServicesInit
<1>2. [ServicesNext]_servicesVars => [IngestNext]_ingestVars BY DEF ServicesNext, servicesVars
<1> QED BY <1>1, <1>2, PTL DEF ServicesSpec, IngestSpec

\* The OSINT runs.
LEMMA OsintAlone == ServicesSpec => OsintSpec
<1>1. ServicesInit => OsintInit BY DEF ServicesInit
<1>2. [ServicesNext]_servicesVars => [OsintNext]_osintVars BY DEF ServicesNext, servicesVars
<1> QED BY <1>1, <1>2, PTL DEF ServicesSpec, OsintSpec

\* The typed entity store.
LEMMA TypedAlone == ServicesSpec => TypedSpec
<1>1. ServicesInit => TypedInit BY DEF ServicesInit
<1>2. [ServicesNext]_servicesVars => [TypedNext]_typedVars BY DEF ServicesNext, servicesVars
<1> QED BY <1>1, <1>2, PTL DEF ServicesSpec, TypedSpec

\* The configuration.
LEMMA ConfigAlone == ServicesSpec => ConfigSpec
<1>1. ServicesInit => ConfigInit BY DEF ServicesInit
<1>2. [ServicesNext]_servicesVars => [ConfigNext]_configVars BY DEF ServicesNext, servicesVars
<1> QED BY <1>1, <1>2, PTL DEF ServicesSpec, ConfigSpec

\* The web application.
LEMMA WebAlone == ServicesSpec => WebSpec
<1>1. ServicesInit => WebInit BY DEF ServicesInit
<1>2. [ServicesNext]_servicesVars => [WebNext]_webVars BY DEF ServicesNext, servicesVars
<1> QED BY <1>1, <1>2, PTL DEF ServicesSpec, WebSpec

\* The migration.
LEMMA MigrationAlone == ServicesSpec => MigrationSpec
<1>1. ServicesInit => MigrationInit BY DEF ServicesInit
<1>2. [ServicesNext]_servicesVars => [MigrationNext]_migrationVars BY DEF ServicesNext, servicesVars
<1> QED BY <1>1, <1>2, PTL DEF ServicesSpec, MigrationSpec

\* The embedding cache.
LEMMA EmbeddingAlone == ServicesSpec => EmbeddingSpec
<1>1. ServicesInit => EmbeddingInit BY DEF ServicesInit
<1>2. [ServicesNext]_servicesVars => [EmbeddingNext]_embeddingVars BY DEF ServicesNext, servicesVars
<1> QED BY <1>1, <1>2, PTL DEF ServicesSpec, EmbeddingSpec

\* The facts of a long text.
LEMMA FactAlone == ServicesSpec => FactSpec
<1>1. ServicesInit => FactInit BY DEF ServicesInit
<1>2. [ServicesNext]_servicesVars => [FactNext]_factVars BY DEF ServicesNext, servicesVars
<1> QED BY <1>1, <1>2, PTL DEF ServicesSpec, FactSpec

\* In every state of every run of the services together each of them is of its type.
THEOREM ServicesTypeCorrect == ServicesSpec => []ServicesTypeOK
<1>1. ServicesSpec => []GateTypeOK BY GateAlone, GateTypeCorrect, PTL
<1>2. ServicesSpec => []SearchTypeOK BY SearchAlone, SearchTypeCorrect, PTL
<1>3. ServicesSpec => []RecallTypeOK BY RecallAlone, RecallTypeCorrect, PTL
<1>4. ServicesSpec => []SynthesisTypeOK BY SynthesisAlone, SynthesisTypeCorrect, PTL
<1>5. ServicesSpec => []LlmTypeOK BY LlmAlone, LlmTypeCorrect, PTL
<1>6. ServicesSpec => []IngestTypeOK BY IngestAlone, IngestTypeCorrect, PTL
<1>7. ServicesSpec => []OsintTypeOK BY OsintAlone, OsintTypeCorrect, PTL
<1>8. ServicesSpec => []TypedTypeOK BY TypedAlone, TypedTypeCorrect, PTL
<1>9. ServicesSpec => []ConfigTypeOK BY ConfigAlone, ConfigTypeCorrect, PTL
<1>10. ServicesSpec => []WebTypeOK BY WebAlone, WebTypeCorrect, PTL
<1>11. ServicesSpec => []MigrationTypeOK BY MigrationAlone, MigrationTypeCorrect, PTL
<1>12. ServicesSpec => []EmbeddingTypeOK BY EmbeddingAlone, EmbeddingTypeCorrect, PTL
<1>13. ServicesSpec => []FactTypeOK BY FactAlone, FactTypeCorrect, PTL
<1>14. /\ GateTypeOK /\ SearchTypeOK /\ RecallTypeOK /\ SynthesisTypeOK /\ LlmTypeOK /\ IngestTypeOK /\ OsintTypeOK
      /\ TypedTypeOK /\ ConfigTypeOK /\ WebTypeOK /\ MigrationTypeOK /\ EmbeddingTypeOK /\ FactTypeOK
      => ServicesTypeOK
  BY DEF ServicesTypeOK
<1> QED BY <1>1, <1>2, <1>3, <1>4, <1>5, <1>6, <1>7, <1>8, <1>9, <1>10, <1>11, <1>12, <1>13, <1>14, PTL

\* What the services promise: on the way in, of the store, on the way out and of what they share.
ServicesPromises ==
  /\ RedactionExact /\ TextTakenInUpToAPoint /\ RulesExplained /\ TuplesWholeAndCounted /\ MigratedWhole
  /\ SchemaHolds /\ HopsExact /\ WalksExact /\ CausalNearestFirst /\ NothingStaleReturned
  /\ RegistryCurrent /\ OneVectorPerEra /\ ConfigAgrees /\ RateBounded /\ StreamFollowsLog

\* What each of the services promises holds of them together.
THEOREM ServicesCorrect == ServicesSpec => []ServicesPromises
<1>1. ServicesSpec => []RedactionExact BY GateAlone, RedactionExactCorrect, PTL
<1>2. ServicesSpec => []HopsExact /\ []WalksExact /\ []CausalNearestFirst
  BY SearchAlone, HopsExactCorrect, WalksExactCorrect, CausalNearestCorrect, PTL
<1>3. ServicesSpec => []NothingStaleReturned BY RecallAlone, NothingStaleCorrect, PTL
<1>4. ServicesSpec => []RegistryCurrent BY LlmAlone, RegistryCurrentCorrect, PTL
<1>5. ServicesSpec => []RulesExplained BY IngestAlone, RulesExplainedCorrect, PTL
<1>6. ServicesSpec => []TuplesWholeAndCounted BY OsintAlone, TuplesCorrect, PTL
<1>7. ServicesSpec => []SchemaHolds BY TypedAlone, SchemaCorrect, PTL
<1>8. ServicesSpec => []ConfigAgrees BY ConfigAlone, ConfigAgreesCorrect, PTL
<1>9. ServicesSpec => []RateBounded /\ []StreamFollowsLog
  BY WebAlone, RateBoundedCorrect, StreamFollowsLogCorrect, PTL
<1>10. ServicesSpec => []MigratedWhole BY MigrationAlone, MigratedWholeCorrect, PTL
<1>11. ServicesSpec => []OneVectorPerEra BY EmbeddingAlone, OneVectorCorrect, PTL
<1>12. ServicesSpec => []TextTakenInUpToAPoint BY FactAlone, TextTakenInCorrect, PTL
<1>13. /\ RedactionExact /\ TextTakenInUpToAPoint /\ RulesExplained /\ TuplesWholeAndCounted
       /\ MigratedWhole /\ SchemaHolds /\ HopsExact /\ WalksExact /\ CausalNearestFirst
       /\ NothingStaleReturned /\ RegistryCurrent /\ OneVectorPerEra /\ ConfigAgrees /\ RateBounded
       /\ StreamFollowsLog
       => ServicesPromises
  BY DEF ServicesPromises
<1> QED BY <1>1, <1>2, <1>3, <1>4, <1>5, <1>6, <1>7, <1>8, <1>9, <1>10, <1>11, <1>12, <1>13, PTL
=============================================================================
