------------------------------- MODULE MCStores -------------------------------
(* The six stores and maintenance components, small instances for TLC.  They  *)
(* share no state: a behaviour exercises the one that focus picks.            *)
EXTENDS SqliteBackend, JsonlStore, EntityIndexFile, KnowledgeGraphLog, Consolidation, LanceMaintenance

VARIABLE focus
storesVars == <<sqliteVars, jsonlVars, indexVars, graphVars, gamVars, lanceVars, focus>>

OneEdge == {<<"a", "b", CHOOSE n \in Notes : TRUE>>}

Alias == <<"apt28", "sofacy", "SUPERSEDES">>
Uses == <<"apt28", "mimikatz", "USES">>
OneTemporal == {Alias}
OnePlain == {Uses}
Heuristic == [stamp |-> 0, type |-> "heuristic"]
EmptyOrLegacyLog ==
  {<<>>, <<[key |-> Uses, edge |-> Heuristic, shape |-> "legacy"],
           [key |-> Alias, edge |-> Heuristic, shape |-> "malformed"]>>}

ThreeFacts == {"k1", "k2", "k3"}
FactEntities == [k1 |-> {"x", "y"}, k2 |-> {"x"}, k3 |-> {"y"}]
OneNegated == {"k2"}

StoresInit ==
  /\ focus \in {"sqlite", "jsonl", "index", "graph", "gam", "lance"}
  /\ SqliteInit /\ JsonlInit /\ IndexInit /\ GraphLogInit /\ GamInit /\ LanceInit
  /\ focus # "graph" => log = <<>>

StoresNext ==
  \/ focus = "sqlite" /\ SqliteNext
       /\ UNCHANGED <<jsonlVars, indexVars, graphVars, gamVars, lanceVars, focus>>
  \/ focus = "jsonl" /\ JsonlNext
       /\ UNCHANGED <<sqliteVars, indexVars, graphVars, gamVars, lanceVars, focus>>
  \/ focus = "index" /\ IndexNext
       /\ UNCHANGED <<sqliteVars, jsonlVars, graphVars, gamVars, lanceVars, focus>>
  \/ focus = "graph" /\ GraphLogNext
       /\ UNCHANGED <<sqliteVars, jsonlVars, indexVars, gamVars, lanceVars, focus>>
  \/ focus = "gam" /\ GamNext
       /\ UNCHANGED <<sqliteVars, jsonlVars, indexVars, graphVars, lanceVars, focus>>
  \/ focus = "lance" /\ LanceNext
       /\ UNCHANGED <<sqliteVars, jsonlVars, indexVars, graphVars, gamVars, focus>>
StoresSpec == StoresInit /\ [][StoresNext]_storesVars

\* Every component's type invariant.
StoresTypeOK ==
  SqliteTypeOK /\ JsonlTypeOK /\ IndexTypeOK /\ GraphLogTypeOK /\ GamTypeOK /\ LanceTypeOK
=============================================================================
