-------------------------- MODULE ProviderConnections --------------------------
(***************************************************************************)
(* The ProviderConnectionStore (llm/connections.ts) behind the             *)
(* /api/providers routes (core/server.ts), and the ProviderRegistry        *)
(* (llm/registry.ts) the enabled connections are registered in.            *)
(*                                                                         *)
(* The store is one object, changed in memory and then written to its file *)
(* as a whole; a write that fails throws out of the route, and leaves the  *)
(* memory ahead of the file.  A health check waits for its endpoint, and   *)
(* records its answer on whatever connection has the id by then.           *)
(* Load and registration at a start are lazy in the code; nothing changes  *)
(* the file before them.                                                   *)
(***************************************************************************)
EXTENDS FiniteSets, Naturals

CONSTANTS Provider,             \* connection ids
          Preset,               \* those of the catalog, seeded when missing
          BuiltInProvider,      \* ids the registry registers by itself
          HealthRequest,        \* requests to validate one or check all
          MaxProviderRestarts   \* bound on the restarts of the server

ASSUME ProviderAssumption ==
    /\ Preset \subseteq Provider
    /\ BuiltInProvider \subseteq Provider
    /\ MaxProviderRestarts \in Nat

VARIABLES store,             \* the connections, and the ids the user deleted
          storeFile,         \* the same as last written
          inRegistry,        \* ids in the provider registry
          checking,          \* the endpoints a health request waits for
          deleted,           \* history: ids whose DELETE was answered ok
          providerRestarts   \* bounded by MaxProviderRestarts

providerVars == <<store, storeFile, inRegistry, checking, deleted,
                  providerRestarts>>

Stores == [listed : SUBSET Provider, enabled : SUBSET Provider,
           checked : SUBSET Provider, removed : SUBSET Provider]

\* A connection that is enabled or has a health is a connection.
ProvidersTypeOK ==
    /\ {store, storeFile} \subseteq Stores
    /\ \A s \in {store, storeFile} : s.enabled \cup s.checked \subseteq s.listed
    /\ inRegistry \subseteq Provider
    /\ checking \in [HealthRequest -> SUBSET Provider]
    /\ deleted \subseteq Provider
    /\ providerRestarts \in 0 .. MaxProviderRestarts

\* Seeded fault: the presets the user deleted are seeded again.
Loaded_Reseeds(s) ==
    LET seeds == Preset \ s.listed
    IN [s EXCEPT !.listed = @ \cup seeds, !.enabled = @ \cup seeds]

\* load(): the stored connections, and the presets the file has never seen.
Loaded(s) ==
    LET seeds == Preset \ (s.listed \cup s.removed)
    IN [s EXCEPT !.listed = @ \cup seeds, !.enabled = @ \cup seeds]

\* applyConnections(): every enabled connection is registered, every
\* disabled one is not; other ids are left alone.
Applied(ids, s) == (ids \ (s.listed \ s.enabled)) \cup s.enabled

EmptyStore == [listed |-> {}, enabled |-> {}, checked |-> {}, removed |-> {}]

\* The first start, without a file.
ProvidersInit ==
    /\ storeFile = EmptyStore
    /\ store = Loaded(EmptyStore)
    /\ inRegistry = Applied(BuiltInProvider, Loaded(EmptyStore))
    /\ checking = [h \in HealthRequest |-> {}]
    /\ deleted = {}
    /\ providerRestarts = 0

\* upsert() of a new connection, or of one with the id.  A connection keeps
\* its last health when it is edited, and is registered after the write.
Upsert(id, on) ==
    /\ store' = [store EXCEPT !.listed = @ \cup {id},
                              !.enabled = IF on THEN @ \cup {id} ELSE @ \ {id}]
    /\ \/ storeFile' = store' /\ inRegistry' = Applied(inRegistry, store')
       \/ UNCHANGED <<storeFile, inRegistry>>
    /\ UNCHANGED <<checking, providerRestarts>>

\* POST: an id that exists is refused.
CreateConnection(id, on) ==
    /\ id \notin store.listed
    /\ Upsert(id, on)
    /\ deleted' = deleted \ {id}

\* PUT: an id that does not exist is not found.
EditConnection(id, on) ==
    /\ id \in store.listed
    /\ Upsert(id, on)
    /\ UNCHANGED deleted

\* DELETE: the id leaves the store and then the registry.
DeleteConnection(id) ==
    /\ id \in store.listed
    /\ store' = [listed  |-> store.listed \ {id}, enabled |-> store.enabled \ {id},
                 checked |-> store.checked \ {id}, removed |-> store.removed \cup {id}]
    /\ \/ /\ storeFile' = store'
          /\ inRegistry' = inRegistry \ {id}
          /\ deleted' = deleted \cup {id}
       \/ UNCHANGED <<storeFile, inRegistry, deleted>>
    /\ UNCHANGED <<checking, providerRestarts>>

\* POST .../validate asks one endpoint, GET .../health every enabled one.
CheckHealth(h, ids) ==
    /\ checking[h] = {}
    /\ ids # {}
    /\ \/ ids = store.enabled
       \/ ids \subseteq store.listed /\ Cardinality(ids) = 1
    /\ checking' = [checking EXCEPT ![h] = ids]
    /\ UNCHANGED <<store, storeFile, inRegistry, deleted, providerRestarts>>

\* recordHealth(): nothing to record on when the connection is gone.
Recorded(id) ==
    IF id \in store.listed THEN [store EXCEPT !.checked = @ \cup {id}] ELSE store

\* An endpoint has answered, or the check failed: either is a health.
AnswerHealth(h, id) ==
    /\ id \in checking[h]
    /\ checking' = [checking EXCEPT ![h] = @ \ {id}]
    /\ store' = Recorded(id)
    /\ storeFile' \in IF id \in store.listed THEN {storeFile, store'} ELSE {storeFile}
    /\ UNCHANGED <<inRegistry, deleted, providerRestarts>>

\* The server stops at any point and starts again on the file.
RestartProviders ==
    /\ providerRestarts < MaxProviderRestarts
    /\ providerRestarts' = providerRestarts + 1
    /\ store' = Loaded(storeFile)
    /\ inRegistry' = Applied(BuiltInProvider, store')
    /\ checking' = [h \in HealthRequest |-> {}]
    /\ UNCHANGED <<storeFile, deleted>>

ProvidersNext ==
    \/ \E id \in Provider, on \in BOOLEAN :
         CreateConnection(id, on) \/ EditConnection(id, on)
    \/ \E id \in Provider : DeleteConnection(id)
    \/ \E h \in HealthRequest, ids \in SUBSET Provider : CheckHealth(h, ids)
    \/ \E h \in HealthRequest, id \in Provider : AnswerHealth(h, id)
    \/ RestartProviders

ProvidersSpec == ProvidersInit /\ [][ProvidersNext]_providerVars

-----------------------------------------------------------------------------
(* Properties.                                                             *)

\* "Preset ids the user deleted; they must not be re-seeded on restart"
\* (connections.ts:116): a connection whose deletion was confirmed is not
\* listed again until the user creates it, across restarts, writes that
\* fail and health answers that arrive late.
DeletedStaysDeleted == deleted \cap store.listed = {}
=============================================================================
