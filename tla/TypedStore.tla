------------------------------ MODULE TypedStore ------------------------------
(***************************************************************************)
(* The ontology's TypedEntityStore: entities and relations kept in memory  *)
(* and appended to two JSONL files, checked by OntologyValidator before    *)
(* they enter.  The store has no lock: threads share it between any two of *)
(* their steps, and a restart reloads what the files hold.                 *)
(***************************************************************************)
EXTENDS Integers, Sequences

CONSTANTS EntityId,
          TypeDefs,               \* type -> [required, forbidden, enums, ordered], a custom schema's
                                  \* definitions before ENTITY_TYPES; other types are free
          BuiltInRelations,       \* RELATION_TYPES: relation -> [from, to, acyclic]
          CustomRelations,        \* those of a custom schema, which may redefine some; others are free
          Properties,             \* properties a caller may give: sets of <<field, value>>
          NotBefore,              \* pairs <<end, start>> that compare, the end not being the smaller
          EntityTypes, RelationNames, StoreThread, MaxStoreCalls, MaxReopens

ASSUME DefinedTypes ==
  DOMAIN TypeDefs \subseteq EntityTypes /\ DOMAIN BuiltInRelations \cup DOMAIN CustomRelations \subseteq RelationNames

VARIABLES entities, relations,    \* in memory: id -> type, and the relations
          entitiesFile, relationsFile,
          maker,                  \* what each thread is doing
          storeCalls, reopens,
          overlapped,             \* relations checked while another one of them was being added (history)
          retyped,                \* ids whose entity was replaced by one of another type (history)
          forgotten               \* ids a crash took between memory and file (history)
typedVars == <<entities, relations, entitiesFile, relationsFile, maker, storeCalls, reopens, overlapped, retyped, forgotten>>

Resting == [at |-> "rest", id |-> "", type |-> "", rel |-> <<>>]
Loaded(log) == [i \in {e[1] : e \in log} |-> CHOOSE t \in EntityTypes : <<i, t>> \in log]

-----------------------------------------------------------------------------
\* OntologyValidator.validate_entity, validate_relation
Fields(props) == {p[1] : p \in props}
ValidEntityOf(type, props) ==
  type \in DOMAIN TypeDefs =>
    /\ \A f \in TypeDefs[type].required : \E p \in props : p[1] = f /\ p[2] # ""
    /\ TypeDefs[type].forbidden \cap Fields(props) = {}
    /\ \A p \in props : p[1] \in DOMAIN TypeDefs[type].enums => p[2] \in TypeDefs[type].enums[p[1]]
    /\ TypeDefs[type].ordered =>
         \A p, q \in props : p[1] = "end" /\ q[1] = "start" => <<p[2], q[2]>> \in NotBefore

RelationDef(rel) == IF rel \in DOMAIN CustomRelations THEN CustomRelations[rel] ELSE BuiltInRelations[rel]
ValidRelation(from, rel, to) ==
  rel \in DOMAIN CustomRelations \cup DOMAIN BuiltInRelations =>
    /\ RelationDef(rel).from # {} => from \in RelationDef(rel).from
    /\ RelationDef(rel).to # {} => to \in RelationDef(rel).to
\* create_relation looks in RELATION_TYPES alone: what a custom schema says of cycles is not read.
Acyclic(rel) == rel \in DOMAIN BuiltInRelations /\ BuiltInRelations[rel].acyclic

\* With an entity, V has everything the relation leads to from it.
ClosedAlong(V, rel) == \A r \in relations : r[2] = rel /\ r[1] \in V => r[3] \in V

\* Mutation of WouldCreateCycle: from the source to the target.
CycleFromSource(from, rel, to) == \A V \in SUBSET EntityId : from \in V /\ ClosedAlong(V, rel) => to \in V

\* _would_create_cycle: the search from the target visits the least set that has the target and
\* is closed along the relation; it comes to the source if every such set has it.
WouldCreateCycle(from, rel, to) == \A V \in SUBSET EntityId : to \in V /\ ClosedAlong(V, rel) => from \in V

TypedTypeOK ==
  /\ DOMAIN entities \subseteq EntityId /\ \A i \in DOMAIN entities : entities[i] \in EntityTypes
  /\ relations \subseteq EntityId \X RelationNames \X EntityId
  /\ entitiesFile \subseteq EntityId \X EntityTypes /\ relationsFile \subseteq EntityId \X RelationNames \X EntityId
  /\ \A t \in StoreThread : maker[t].at \in {"rest", "save_entity", "append", "save_relation"}

TypedInit ==
  /\ entities = [i \in {} |-> ""] /\ relations = {} /\ entitiesFile = {} /\ relationsFile = {}
  /\ maker = [t \in StoreThread |-> Resting] /\ storeCalls = 0 /\ reopens = 0
  /\ overlapped = {} /\ retyped = {} /\ forgotten = {}

BeginCall(t) == maker[t].at = "rest" /\ storeCalls < MaxStoreCalls /\ storeCalls' = storeCalls + 1

\* create_entity; a caller may give an id that is taken, and the entity is replaced.
CreateEntity(t, i, type, props) ==
  /\ BeginCall(t) /\ ValidEntityOf(type, props)
  /\ entities' = [j \in DOMAIN entities \cup {i} |-> IF j = i THEN type ELSE entities[j]]
  /\ retyped' = IF i \in DOMAIN entities /\ entities[i] # type THEN retyped \cup {i} ELSE retyped
  /\ maker' = [maker EXCEPT ![t] = [Resting EXCEPT !.at = "save_entity", !.id = i, !.type = type]]
  /\ UNCHANGED <<relations, entitiesFile, relationsFile, reopens, overlapped, forgotten>>

\* The last line of an id wins when the file is loaded.
SaveEntity(t) ==
  /\ maker[t].at = "save_entity"
  /\ entitiesFile' = {e \in entitiesFile : e[1] # maker[t].id} \cup {<<maker[t].id, maker[t].type>>}
  /\ maker' = [maker EXCEPT ![t] = Resting]
  /\ UNCHANGED <<entities, relations, relationsFile, storeCalls, reopens, overlapped, retyped, forgotten>>

\* create_relation up to its checks: the endpoints exist, their types fit, no cycle.
Pending(rel) == {maker[t].rel : t \in {u \in StoreThread : maker[u].at = "append" /\ maker[u].rel[2] = rel}}
CheckRelation(t, from, rel, to) ==
  /\ BeginCall(t)
  /\ from \in DOMAIN entities /\ to \in DOMAIN entities
  /\ ValidRelation(entities[from], rel, entities[to])
  /\ ~(Acyclic(rel) /\ WouldCreateCycle(from, rel, to))
  /\ maker' = [maker EXCEPT ![t] = [Resting EXCEPT !.at = "append", !.rel = <<from, rel, to>>]]
  /\ overlapped' = IF Pending(rel) = {} THEN overlapped ELSE overlapped \cup {rel}
  /\ UNCHANGED <<entities, relations, entitiesFile, relationsFile, reopens, retyped, forgotten>>

AppendRelation(t) ==
  /\ maker[t].at = "append"
  /\ relations' = relations \cup {maker[t].rel}
  /\ maker' = [maker EXCEPT ![t].at = "save_relation"]
  /\ UNCHANGED <<entities, entitiesFile, relationsFile, storeCalls, reopens, overlapped, retyped, forgotten>>

SaveRelation(t) ==
  /\ maker[t].at = "save_relation"
  /\ relationsFile' = relationsFile \cup {maker[t].rel}
  /\ maker' = [maker EXCEPT ![t] = Resting]
  /\ UNCHANGED <<entities, relations, entitiesFile, storeCalls, reopens, overlapped, retyped, forgotten>>

\* A crash, and _load when the store is next opened.
Reopen ==
  /\ reopens < MaxReopens /\ reopens' = reopens + 1
  /\ entities' = Loaded(entitiesFile) /\ relations' = relationsFile
  /\ retyped' = retyped \cup {i \in DOMAIN entities : <<i, entities[i]>> \notin entitiesFile}
  /\ forgotten' = forgotten \cup {i \in DOMAIN entities : \A e \in entitiesFile : e[1] # i}
  /\ maker' = [t \in StoreThread |-> Resting]
  /\ UNCHANGED <<entitiesFile, relationsFile, storeCalls, overlapped>>

TypedNext ==
  \/ \E t \in StoreThread :
       \/ \E i \in EntityId, type \in EntityTypes, props \in Properties : CreateEntity(t, i, type, props)
       \/ \E from, to \in EntityId, rel \in RelationNames : CheckRelation(t, from, rel, to)
       \/ SaveEntity(t) \/ AppendRelation(t) \/ SaveRelation(t)
  \/ Reopen

TypedSpec == TypedInit /\ [][TypedNext]_typedVars

-----------------------------------------------------------------------------
\* What the schema says of the relations holds of the store as long as its callers do not
\* overlap: a relation that RELATION_TYPES calls acyclic, redefined or not, has a cycle only if
\* two of its relations were checked before either was in (ontology.py:557; an acyclic relation
\* of a custom schema may have cycles), and a relation lacks an endpoint, or joins types it may not
\* join, only if that id was lost in a crash or replaced by an entity of another type.  Without
\* a cycle, every set of entities has one that leads to none of them.
NoCycle ==
  \A rel \in RelationNames \ overlapped : Acyclic(rel) =>
    \A C \in (SUBSET EntityId) \ {{}} : \E i \in C : \A j \in C : <<i, rel, j>> \notin relations
EndpointsThere == \A r \in relations : \A i \in {r[1], r[3]} : i \in DOMAIN entities \cup forgotten
EndpointsFit ==
  \A r \in relations : {r[1], r[3]} \cap (retyped \cup forgotten) = {} =>
    ValidRelation(entities[r[1]], r[2], entities[r[3]])
SchemaHolds == NoCycle /\ EndpointsThere /\ EndpointsFit
=============================================================================
