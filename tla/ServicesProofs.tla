---------------------------- MODULE ServicesProofs ----------------------------
(***************************************************************************)
(* Proofs about the services that keep state of their own: the LLM         *)
(* provider connections, for any connections, presets and health requests; *)
(* the coding sessions, for any of them; and the life of the runtime, for  *)
(* any plugins, services and agents.  The last part puts the services of   *)
(* MCServices together.                                                    *)
(***************************************************************************)
EXTENDS AgentsProofs, MCServices

-----------------------------------------------------------------------------
(* The provider connections.  DeletedStaysDeleted is not inductive: a      *)
(* restart lists what the file lists, and the presets the file does not    *)
(* know as removed.  So the invariant says of the file what it says of the *)
(* memory, and that a confirmed deletion is among the removed ids of both. *)

\* A confirmed deletion is in the file, and stays there although a write
\* that fails leaves the file behind.
DeletionKept ==
    /\ deleted \cap storeFile.listed = {}
    /\ deleted \subseteq store.removed
    /\ deleted \subseteq storeFile.removed

ProvidersInv == ProvidersTypeOK /\ DeletedStaysDeleted /\ DeletionKept

-----------------------------------------------------------------------------
(* What the operators do to a store.                                       *)

Whole(s) == s.enabled \cup s.checked \subseteq s.listed

\* load() lists more, but none of the removed ids, and forgets no removal.
LEMMA LoadedKeeps ==
    ASSUME NEW s \in Stores, Whole(s)
    PROVE  /\ Loaded(s) \in Stores
           /\ Whole(Loaded(s))
           /\ Loaded(s).removed = s.removed
           /\ Loaded(s).listed \subseteq s.listed \cup (Provider \ s.removed)
BY ProviderAssumption DEF Stores, Whole, Loaded

\* applyConnections() registers connections.
LEMMA AppliedType ==
    ASSUME NEW s \in Stores, NEW ids \in SUBSET Provider
    PROVE  Applied(ids, s) \in SUBSET Provider
BY DEF Stores, Applied

-----------------------------------------------------------------------------
(* The initial states and the steps.                                       *)

LEMMA ProvidersInvInit == ProvidersInit => ProvidersInv
<1> SUFFICES ASSUME ProvidersInit PROVE ProvidersInv
    OBVIOUS
<1>1. EmptyStore \in Stores /\ Whole(EmptyStore)
    BY DEF EmptyStore, Stores, Whole
<1>2. /\ Loaded(EmptyStore) \in Stores
      /\ Whole(Loaded(EmptyStore))
    BY <1>1, LoadedKeeps
<1>3. Applied(BuiltInProvider, Loaded(EmptyStore)) \in SUBSET Provider
    BY <1>2, AppliedType, ProviderAssumption
<1> QED
    BY <1>1, <1>2, <1>3, ProviderAssumption
    DEF ProvidersInit, ProvidersInv, ProvidersTypeOK, DeletedStaysDeleted,
        DeletionKept, Whole

LEMMA UpsertKeeps ==
    ASSUME ProvidersInv, NEW id \in Provider, NEW on \in BOOLEAN, Upsert(id, on)
    PROVE  /\ {store', storeFile'} \subseteq Stores
           /\ Whole(store')
           /\ inRegistry' \subseteq Provider
           /\ store'.removed = store.removed
           /\ store'.listed = store.listed \cup {id}
           /\ storeFile' \in {storeFile, store'}
           /\ UNCHANGED <<checking, providerRestarts>>
<1>1. /\ store' \in Stores
      /\ Whole(store')
      /\ store'.removed = store.removed
      /\ store'.listed = store.listed \cup {id}
    BY DEF ProvidersInv, ProvidersTypeOK, Upsert, Stores, Whole
<1>2. Applied(inRegistry, store') \in SUBSET Provider
    BY <1>1, AppliedType DEF ProvidersInv, ProvidersTypeOK
<1> QED
    BY <1>1, <1>2 DEF ProvidersInv, ProvidersTypeOK, Upsert

LEMMA ProvidersInvStep == ProvidersInv /\ [ProvidersNext]_providerVars => ProvidersInv'
<1> SUFFICES ASSUME ProvidersInv, [ProvidersNext]_providerVars
             PROVE  ProvidersInv'
    OBVIOUS
<1> USE DEF ProvidersInv, ProvidersTypeOK, DeletedStaysDeleted, DeletionKept
<1>1. ASSUME NEW id \in Provider, NEW on \in BOOLEAN, CreateConnection(id, on)
      PROVE  ProvidersInv'
    <2>1. Upsert(id, on) /\ deleted' = deleted \ {id}
        BY <1>1 DEF CreateConnection
    <2> QED
        BY <2>1, UpsertKeeps DEF Whole
<1>2. ASSUME NEW id \in Provider, NEW on \in BOOLEAN, EditConnection(id, on)
      PROVE  ProvidersInv'
    <2>1. Upsert(id, on) /\ deleted' = deleted /\ id \in store.listed
        BY <1>2 DEF EditConnection
    <2> QED
        BY <2>1, UpsertKeeps DEF Whole
<1>3. ASSUME NEW id \in Provider, DeleteConnection(id)
      PROVE  ProvidersInv'
    <2>1. /\ store' \in Stores
          /\ Whole(store')
          /\ store'.listed = store.listed \ {id}
          /\ store'.removed = store.removed \cup {id}
        BY <1>3 DEF DeleteConnection, Stores, Whole
    <2>2. \/ storeFile' = store' /\ deleted' = deleted \cup {id}
          \/ storeFile' = storeFile /\ deleted' = deleted
        BY <1>3 DEF DeleteConnection
    <2>3. /\ inRegistry' \subseteq inRegistry
          /\ UNCHANGED <<checking, providerRestarts>>
        BY <1>3 DEF DeleteConnection
    <2> QED
        BY <2>1, <2>2, <2>3 DEF Whole
<1>4. ASSUME NEW h \in HealthRequest, NEW ids \in SUBSET Provider, CheckHealth(h, ids)
      PROVE  ProvidersInv'
    BY <1>4 DEF CheckHealth
<1>5. ASSUME NEW h \in HealthRequest, NEW id \in Provider, AnswerHealth(h, id)
      PROVE  ProvidersInv'
    <2>1. /\ store' \in Stores
          /\ Whole(store')
          /\ store'.listed = store.listed
          /\ store'.removed = store.removed
        BY <1>5 DEF AnswerHealth, Recorded, Stores, Whole
    <2>2. /\ storeFile' \in {storeFile, store'}
          /\ checking' \in [HealthRequest -> SUBSET Provider]
          /\ UNCHANGED <<inRegistry, deleted, providerRestarts>>
        BY <1>5 DEF AnswerHealth
    <2> QED
        BY <2>1, <2>2 DEF Whole
<1>6. CASE RestartProviders
    <2>1. storeFile \in Stores /\ Whole(storeFile)
        BY DEF Whole
    <2> QED
        BY <1>6, <2>1, LoadedKeeps, AppliedType, ProviderAssumption
        DEF RestartProviders, Whole
<1>7. CASE UNCHANGED providerVars
    BY <1>7 DEF providerVars
<1> QED
    BY <1>1, <1>2, <1>3, <1>4, <1>5, <1>6, <1>7 DEF ProvidersNext

-----------------------------------------------------------------------------
(* The theorems.                                                           *)

LEMMA ProvidersInvAlways == ProvidersSpec => []ProvidersInv
BY ProvidersInvInit, ProvidersInvStep, PTL DEF ProvidersSpec

\* The store, its file and the registry hold connections of known ids, and
\* an enabled or checked connection is a listed one (connections.ts:113).
THEOREM ProvidersTypeCorrect == ProvidersSpec => []ProvidersTypeOK
<1>1. ProvidersInv => ProvidersTypeOK
    BY DEF ProvidersInv
<1> QED
    BY <1>1, ProvidersInvAlways, PTL

\* A deletion that was confirmed lasts until the user creates the id anew,
\* over restarts, failing writes and late health answers
\* (recordHealth, connections.ts:333).
THEOREM DeletedStaysDeletedAlways == ProvidersSpec => []DeletedStaysDeleted
<1>1. ProvidersInv => DeletedStaysDeleted
    BY DEF ProvidersInv
<1> QED
    BY <1>1, ProvidersInvAlways, PTL

-----------------------------------------------------------------------------
(* Coding sessions.                                                        *)

\* A session that was never created has nothing under way.
UncreatedIsEmpty ==
    \A s \in CodingSession : status[s] = "none" =>
        /\ cli[s] = "none"
        /\ task[s] = "none"
        /\ ~inTurn[s]

\* A stop in progress has already stopped its CLI session, which is never
\* opened again, although a failed one may be; so a turn that a stop ends
\* leaves a session that accepts no other one, and only such a session has a
\* task without a turn.  A CLI session that is gone runs no task.
StopsAreFinal ==
    \A s \in CodingSession :
        /\ stopping[s] # "none" => cli[s] = "stopped"
        /\ cli[s] # "stopped" /\ task[s] # "none" => status[s] = "running"
        /\ cli[s] = "none" =>
             task[s] = "none" /\ resolving[s] = 0 /\ spawned[s] = 0

CodingInv ==
    CodingTypeOK /\ RunningHasATask /\ UncreatedIsEmpty /\ StopsAreFinal

LEMMA CodingInvInit == CodingInit => CodingInv
BY CodingAssumption
DEF CodingInit, CodingInv, CodingTypeOK, RunningHasATask, UncreatedIsEmpty,
    StopsAreFinal

\* Every step keeps the invariant, and begins a turn only without a task.
LEMMA CodingInvStep ==
    ASSUME CodingInv, [CodingNext]_sessionVars
    PROVE  /\ CodingInv'
           /\ \A s \in CodingSession : inTurn'[s] /\ ~inTurn[s] => task[s] = "none"
<1> USE DEF CodingInv, CodingTypeOK, RunningHasATask, UncreatedIsEmpty,
            StopsAreFinal
<1> DEFINE Begun == \A s \in CodingSession : inTurn'[s] /\ ~inTurn[s] => task[s] = "none"
<1>1. ASSUME NEW s \in CodingSession, NEW isolate \in BOOLEAN,
             CreateSession(s, isolate)
      PROVE  CodingInv' /\ Begun
    BY <1>1 DEF CreateSession
<1>2. ASSUME NEW s \in CodingSession, BeginCodingTurn(s)
      PROVE  CodingInv' /\ Begun
    BY <1>2 DEF BeginCodingTurn, Accepts
<1>3. ASSUME NEW s \in CodingSession, SpawnProcess(s)
      PROVE  CodingInv' /\ Begun
    BY <1>3 DEF SpawnProcess
<1>4. ASSUME NEW s \in CodingSession, ResolveFails(s)
      PROVE  CodingInv' /\ Begun
    BY <1>4 DEF ResolveFails, SettleTask, SetCli
<1>5. ASSUME NEW s \in CodingSession, ProcessExits(s)
      PROVE  CodingInv' /\ Begun
    <2>1. PICK outcome \in {"idle", "failed", "cancelled"}, ran \in BOOLEAN :
             SettleTask(s, outcome) /\ TaskOver(s, ran)
        BY <1>5 DEF ProcessExits
    <2>2. UNCHANGED <<resolved, resolving, spawned, signalled, stopping, reloads>>
        BY <1>5 DEF ProcessExits
    <2>3. task[s] # "none"
        BY <1>5 DEF ProcessExits
    <2> QED
        BY <2>1, <2>2, <2>3 DEF SettleTask, TaskOver, SetCli
<1>6. ASSUME NEW s \in CodingSession, NEW outcome \in {"cancelled", "closed"},
             StopSession(s, outcome)
      PROVE  CodingInv' /\ Begun
    BY <1>6 DEF StopSession, StopCli
<1>7. ASSUME NEW s \in CodingSession, FinishStop(s)
      PROVE  CodingInv' /\ Begun
    BY <1>7 DEF FinishStop, cliVars
<1>8. ASSUME NEW s \in CodingSession,
             \/ SendDirectTask(s) \/ DirectResolves(s)
             \/ DirectEnds(s) \/ DeleteCli(s)
      PROVE  CodingInv' /\ Begun
    <2>1. CASE SendDirectTask(s)
        <3>1. resolving' \in [CodingSession -> Nat] /\ spawned' \in [CodingSession -> Nat]
            BY <2>1 DEF SendDirectTask
        <3>2. /\ cli[s] = "open"
              /\ \A t \in CodingSession \ {s} :
                    resolving'[t] = resolving[t] /\ spawned'[t] = spawned[t]
            BY <2>1 DEF SendDirectTask
        <3>3. activeAbort' \in [CodingSession -> {"none", "turn", "direct"}]
            BY <2>1 DEF SendDirectTask
        <3>4. UNCHANGED <<status, cli, resolved, task, inTurn, signalled,
                          stopping, reloads>>
            BY <2>1 DEF SendDirectTask
        <3> QED
            BY <3>1, <3>2, <3>3, <3>4
    <2>2. CASE DirectResolves(s)
        <3>1. resolving' \in [CodingSession -> Nat] /\ spawned' \in [CodingSession -> Nat]
            BY <2>2 DEF DirectResolves
        <3>2. /\ cli[s] # "none" /\ (cli[s] = "stopped" <=> cli'[s] = "stopped")
              /\ cli'[s] # "none"
              /\ \A t \in CodingSession \ {s} :
                    /\ resolving'[t] = resolving[t] /\ spawned'[t] = spawned[t]
                    /\ cli'[t] = cli[t]
            BY <2>2 DEF DirectResolves, SetCli
        <3>3. /\ activeAbort' \in [CodingSession -> {"none", "turn", "direct"}]
              /\ resolved' \in [CodingSession -> BOOLEAN]
              /\ cli' \in [CodingSession -> {"none", "open", "failed", "stopped"}]
            BY <2>2 DEF DirectResolves, SetCli
        <3>4. UNCHANGED <<status, task, inTurn, signalled, stopping, reloads>>
            BY <2>2 DEF DirectResolves
        <3> QED
            BY <3>1, <3>2, <3>3, <3>4
    <2>3. CASE DirectEnds(s)
        BY <2>3 DEF DirectEnds, TaskOver, SetCli
    <2>4. CASE DeleteCli(s)
        BY <2>4 DEF DeleteCli, StopCli
    <2> QED
        BY <1>8, <2>1, <2>2, <2>3, <2>4
<1>9. CASE ReloadSessions
    BY <1>9, CodingAssumption DEF ReloadSessions, Restored
<1>10. CASE UNCHANGED sessionVars
    BY <1>10 DEF sessionVars, cliVars
<1> QED
    BY <1>1, <1>2, <1>3, <1>4, <1>5, <1>6, <1>7, <1>8, <1>9, <1>10
    DEF CodingNext, CancelSession, CloseSession

LEMMA CodingInvAlways == CodingSpec => []CodingInv
BY CodingInvInit, CodingInvStep, PTL DEF CodingSpec

\* The record of a session, its CLI session and its task are in states the
\* code names (sessions.ts:130).
THEOREM CodingTypeCorrect == CodingSpec => []CodingTypeOK
<1>1. CodingInv => CodingTypeOK
    BY DEF CodingInv
<1> QED
    BY <1>1, CodingInvAlways, PTL

\* No session is left "running" without a turn that waits for a live task,
\* whatever the order of cancel, close, exit and restart
\* (streamTurn, sessions.ts:452).
THEOREM RunningHasATaskAlways == CodingSpec => []RunningHasATask
<1>1. CodingInv => RunningHasATask
    BY DEF CodingInv
<1> QED
    BY <1>1, CodingInvAlways, PTL

\* The turns of a session never overlap: none begins beside a task that
\* outlived an earlier turn, whatever the API does to the CLI session
\* (streamTurn, sessions.ts:311).
THEOREM TurnsNeverOverlapAlways == CodingSpec => TurnsNeverOverlap
<1>1. CodingInv /\ [CodingNext]_sessionVars =>
         [\A s \in CodingSession : inTurn'[s] /\ ~inTurn[s] => task[s] = "none"]_sessionVars
    BY CodingInvStep
<1> QED
    BY <1>1, CodingInvAlways, PTL DEF CodingSpec, TurnsNeverOverlap

-----------------------------------------------------------------------------
(* The runtime's life.                                                     *)

\* The phase is behind or beside main(): it is left by no startup that has
\* not begun, and a startup that may still advance has not been stopped.
PhaseFollowsMain ==
    /\ mainAt = "listening" =>
         /\ lifecycle \in {"created", "stopped"}
         /\ component = [c \in Component |-> "registered"]
         /\ started = 0
    /\ lifecycle = "created" => mainAt = "listening"
    /\ lifecycle = "initializing" => mainAt = "starting"
    /\ lifecycle = "running" => mainAt = "started"
    /\ mainAt = "starting" /\ Alive => started < Len(StartOrder)

\* A startup that may still advance has started what it has been through.
StartedInOrder ==
    lifecycle = "initializing" =>
        \A i \in 1 .. started : component[StartOrder[i]] \in {"active", "failed"}

\* One shutdown drains, in the phase "draining", and has something to stop.
OneDrains ==
    \A d \in Shutdown : shutdown[d] = "draining" =>
        /\ lifecycle = "draining"
        /\ Alive => drained < Len(StopOrder)
        /\ \A e \in Shutdown : shutdown[e] = "draining" => e = d

LifecycleInv ==
    /\ LifecycleTypeOK
    /\ RunningIsWhole
    /\ PhaseFollowsMain
    /\ StartedInOrder
    /\ OneDrains

\* Both orders list the infrastructure, and are of one length.
LEMMA OrdersFit ==
    /\ Len(StartOrder) \in Nat \ {0}
    /\ Len(StopOrder) = Len(StartOrder)
    /\ DOMAIN StartOrder = 1 .. Len(StartOrder)
<1> DEFINE P == {Plugins[i] : i \in DOMAIN Plugins}
           V == {Services[i] : i \in DOMAIN Services}
<1>1. Plugins \in Seq(P \cup V) /\ Services \in Seq(P \cup V)
    BY LifecycleAssumption
<1> HIDE DEF P, V
<1>2. /\ StartOrder \in Seq(P \cup V)
      /\ Len(StartOrder) = Len(Plugins) + Len(Services)
      /\ Len(StopOrder) = Len(Services) + Len(Plugins)
    BY <1>1 DEF StartOrder, StopOrder
<1>3. Len(StartOrder) # 0
    BY <1>2, LifecycleAssumption
<1> QED
    BY <1>1, <1>2, <1>3

LEMMA LifecycleInvInit == LifecycleInit => LifecycleInv
BY OrdersFit
DEF LifecycleInit, LifecycleInv, LifecycleTypeOK, RunningIsWhole,
    PhaseFollowsMain, StartedInOrder, OneDrains

\* After the last of StartOrder, everything in it was started.
LEMMA StartNextKeeps ==
    ASSUME LifecycleInv, StartNext
    PROVE  LifecycleInv'
<1> USE DEF LifecycleInv
<1>1. /\ started < Len(StartOrder)
      /\ started' = started + 1
      /\ started \in Nat
    BY OrdersFit DEF StartNext, PhaseFollowsMain, LifecycleTypeOK
<1>2. PICK outcome \in {"active", "failed"} :
         LET begun == [component EXCEPT ![StartOrder[started']] = outcome]
         IN  IF started' < Len(StartOrder)
             THEN /\ component' = begun
                  /\ UNCHANGED <<lifecycle, mainAt, asked, exit>>
             ELSE IF MayAdvance
             THEN /\ component' = [c \in Component |->
                         IF c \in RuntimeAgent THEN "active" ELSE begun[c]]
                  /\ lifecycle' = "running"
                  /\ mainAt' = "started"
                  /\ asked' = {}
                  /\ UNCHANGED exit
             ELSE /\ component' = begun
                  /\ exit' = "failure"
                  /\ UNCHANGED <<lifecycle, mainAt, asked>>
    BY DEF StartNext
<1> DEFINE begun == [component EXCEPT ![StartOrder[started + 1]] = outcome]
<1>3. /\ begun \in [Component -> {"registered", "active", "failed", "stopped"}]
      /\ \A c \in Component : begun[c] \in {component[c], outcome}
      /\ begun[StartOrder[started + 1]] = outcome
    <2>1. StartOrder[started + 1] \in Component
        BY <1>1, OrdersFit DEF Component, Infrastructure
    <2> QED
        BY <2>1 DEF LifecycleTypeOK
<1>4. \A i \in 1 .. started : StartOrder[i] \in Component
    BY <1>1, OrdersFit DEF Component, Infrastructure
<1>5. lifecycle = "initializing" =>
         \A i \in 1 .. started + 1 : begun[StartOrder[i]] \in {"active", "failed"}
    BY <1>1, <1>3, <1>4 DEF StartedInOrder
<1>6. UNCHANGED <<drained, shutdown>> /\ mainAt = "starting"
    BY DEF StartNext
<1>7. CASE started + 1 < Len(StartOrder)
    <2>1. component' = begun /\ UNCHANGED <<lifecycle, mainAt, asked, exit>>
        BY <1>1, <1>2, <1>7
    <2> HIDE DEF begun
    <2>2. LifecycleTypeOK'
        BY <1>1, <1>3, <1>6, <2>1, <1>7, OrdersFit DEF LifecycleTypeOK
    <2> QED
        BY <1>1, <1>3, <1>5, <1>6, <1>7, <2>1, <2>2, OrdersFit
        DEF RunningIsWhole, PhaseFollowsMain, StartedInOrder, OneDrains, Alive
<1>8. CASE started + 1 = Len(StartOrder) /\ MayAdvance
    <2>1. /\ component' = [c \in Component |->
                 IF c \in RuntimeAgent THEN "active" ELSE begun[c]]
          /\ lifecycle' = "running"
          /\ mainAt' = "started"
          /\ asked' = {}
          /\ UNCHANGED exit
        BY <1>1, <1>2, <1>8
    <2> HIDE DEF begun
    <2>2. \A c \in Infrastructure : begun[c] \in {"active", "failed"}
        BY <1>5, <1>8, OrdersFit DEF Infrastructure, MayAdvance
    <2>3. /\ \A c \in Infrastructure : component'[c] \in {"active", "failed"}
          /\ \A c \in RuntimeAgent : component'[c] = "active"
        BY <2>1, <2>2, LifecycleAssumption DEF Component
    <2>4. \A d \in Shutdown : shutdown'[d] # "draining"
        BY <1>6, <1>8 DEF OneDrains, MayAdvance
    <2>5. LifecycleTypeOK'
        BY <1>1, <1>6, <2>1, <2>3, <1>8, OrdersFit DEF LifecycleTypeOK, Component
    <2> QED
        BY <1>6, <2>1, <2>3, <2>4, <2>5
        DEF RunningIsWhole, PhaseFollowsMain, StartedInOrder, OneDrains
<1>9. CASE started + 1 = Len(StartOrder) /\ ~MayAdvance
    <2>1. /\ component' = begun
          /\ exit' = "failure"
          /\ UNCHANGED <<lifecycle, mainAt, asked>>
        BY <1>1, <1>2, <1>9
    <2> HIDE DEF begun
    <2>2. LifecycleTypeOK'
        BY <1>1, <1>3, <1>6, <2>1, <1>9, OrdersFit DEF LifecycleTypeOK
    <2> QED
        BY <1>6, <1>9, <2>1, <2>2
        DEF RunningIsWhole, PhaseFollowsMain, StartedInOrder, OneDrains, Alive,
            MayAdvance
<1> QED
    BY <1>1, <1>7, <1>8, <1>9, OrdersFit

LEMMA ReceiveSignalKeeps ==
    ASSUME LifecycleInv, NEW d \in Shutdown, ReceiveSignal(d)
    PROVE  LifecycleInv'
<1> USE DEF LifecycleInv, LifecycleTypeOK, RunningIsWhole, PhaseFollowsMain,
            StartedInOrder, OneDrains, Alive, MoveShutdown
<1>1. Alive /\ shutdown[d] = "none" /\ UNCHANGED <<mainAt, started>>
    BY DEF ReceiveSignal
<1>2. CASE SignalCreated(d)
    BY <1>1, <1>2 DEF SignalCreated
<1>3. CASE SignalStopped(d)
    BY <1>1, <1>3 DEF SignalStopped
<1>4. CASE SignalRunning(d)
    BY <1>1, <1>4, OrdersFit, LifecycleAssumption
    DEF SignalRunning, Component, Infrastructure
<1>5. CASE SignalDraining(d)
    BY <1>1, <1>5 DEF SignalDraining
<1> QED
    BY <1>2, <1>3, <1>4, <1>5 DEF ReceiveSignal

LEMMA StopNextKeeps ==
    ASSUME LifecycleInv, NEW d \in Shutdown, StopNext(d)
    PROVE  LifecycleInv'
<1> USE DEF LifecycleInv, LifecycleTypeOK, RunningIsWhole, PhaseFollowsMain,
            StartedInOrder, OneDrains, Alive, MoveShutdown
<1>1. /\ shutdown[d] = "draining" /\ lifecycle = "draining"
      /\ drained < Len(StopOrder)
      /\ drained' = drained + 1
      /\ UNCHANGED <<mainAt, started, asked, exit>>
    BY DEF StopNext
<1>2. component' \in [Component -> {"registered", "active", "failed", "stopped"}]
    BY DEF StopNext
<1>3. CASE drained' < Len(StopOrder)
    <2>1. UNCHANGED <<lifecycle, shutdown>>
        BY <1>3 DEF StopNext
    <2> QED
        BY <1>1, <1>2, <1>3, <2>1, OrdersFit
<1>4. CASE ~(drained' < Len(StopOrder))
    <2>1. /\ lifecycle' = "stopped"
          /\ shutdown' = [shutdown EXCEPT ![d] = "closing"]
        BY <1>4 DEF StopNext
    <2> QED
        BY <1>1, <1>2, <1>4, <2>1, OrdersFit
<1> QED
    BY <1>3, <1>4

LEMMA LifecycleInvStep ==
    LifecycleInv /\ [LifecycleNext]_lifecycleVars => LifecycleInv'
<1> SUFFICES ASSUME LifecycleInv, [LifecycleNext]_lifecycleVars
             PROVE  LifecycleInv'
    OBVIOUS
<1>1. CASE Listen
    BY <1>1, OrdersFit
    DEF Listen, LifecycleInv, LifecycleTypeOK, RunningIsWhole,
        PhaseFollowsMain, StartedInOrder, OneDrains, Alive
<1>2. ASSUME NEW d \in Shutdown, CloseServer(d)
      PROVE  LifecycleInv'
    BY <1>2
    DEF CloseServer, MoveShutdown, LifecycleInv, LifecycleTypeOK,
        RunningIsWhole, PhaseFollowsMain, StartedInOrder, OneDrains, Alive
<1>3. CASE UNCHANGED lifecycleVars
    BY <1>3
    DEF lifecycleVars, LifecycleInv, LifecycleTypeOK, RunningIsWhole,
        PhaseFollowsMain, StartedInOrder, OneDrains, Alive
<1>4. ASSUME NEW c \in RuntimeAgent, StartAgentByApi(c) \/ StopAgentByApi(c)
      PROVE  LifecycleInv'
    <2>1. PICK s \in {"active", "stopped"} :
             /\ component' = [component EXCEPT ![c] = s]
             /\ asked' = IF s = "active" THEN asked \ {c} ELSE asked \cup {c}
        BY <1>4 DEF StartAgentByApi, StopAgentByApi
    <2>2. /\ UNCHANGED <<lifecycle, mainAt, started, drained, shutdown, exit>>
          /\ mainAt # "listening"
        BY <1>4 DEF StartAgentByApi, StopAgentByApi, ApiServes
    <2>3. \A i \in 1 .. started :
             StartOrder[i] \in Infrastructure \/ ~LifecycleTypeOK
        BY OrdersFit DEF Infrastructure, LifecycleTypeOK
    <2>4. \A e \in Infrastructure : component'[e] = component[e]
        BY <2>1, LifecycleAssumption DEF LifecycleInv, LifecycleTypeOK, Component
    <2>5. LifecycleTypeOK' /\ RunningIsWhole'
        BY <2>1, <2>2, <2>4
        DEF LifecycleInv, LifecycleTypeOK, RunningIsWhole, Component
    <2>6. StartedInOrder'
        BY <2>2, <2>3, <2>4 DEF LifecycleInv, StartedInOrder
    <2> QED
        BY <2>2, <2>5, <2>6 DEF LifecycleInv, PhaseFollowsMain, OneDrains, Alive
<1> QED
    BY <1>1, <1>2, <1>3, <1>4, StartNextKeeps, ReceiveSignalKeeps, StopNextKeeps
    DEF LifecycleNext

LEMMA LifecycleInvAlways == LifecycleSpec => []LifecycleInv
BY LifecycleInvInit, LifecycleInvStep, PTL DEF LifecycleSpec

\* The phases, counters and component states are the code's (lifecycle.ts:9).
THEOREM LifecycleTypeCorrect == LifecycleSpec => []LifecycleTypeOK
<1>1. LifecycleInv => LifecycleTypeOK
    BY DEF LifecycleInv
<1> QED
    BY <1>1, LifecycleInvAlways, PTL

\* The runtime says "running" only when every plugin and service was started,
\* successfully or not, every agent runs that the API was not asked to stop,
\* and nothing drains, whenever signals came during the startup
\* (FinanceRuntime.start, packages/core/src/runtime.ts:236).
THEOREM RunningIsWholeAlways == LifecycleSpec => []RunningIsWhole
<1>1. LifecycleInv => RunningIsWhole
    BY DEF LifecycleInv
<1> QED
    BY <1>1, LifecycleInvAlways, PTL

-----------------------------------------------------------------------------
(* The services together.  They share no state, so a step of one of them   *)
(* leaves the others as they are, and what holds of each by itself holds   *)
(* of each beside the others.                                              *)

\* The two explorations of the AgentRuntime take steps of it, and no other.
LEMMA RuntimeExplored == RegistryNext \/ RunsNext => RuntimeNext
BY MembersAssumption DEF RegistryNext, RunsNext, RuntimeNext, RegistryStep

LEMMA EachServiceSteps ==
    [ServicesNext]_servicesVars =>
        /\ [GatewayNext]_gatewayVars
        /\ [SupervisorNext]_supervisorVars
        /\ [RuntimeNext]_runtimeVars
        /\ [CodingNext]_sessionVars
        /\ [LifecycleNext]_lifecycleVars
        /\ [ProvidersNext]_providerVars
BY RuntimeExplored DEF ServicesNext, servicesVars

\* The composed system runs each service as that service's own specification
\* allows: no service needs the others to stand still, or to help.
THEOREM ServicesRunEach ==
    ServicesSpec =>
        /\ GatewaySpec
        /\ SupervisorSpec
        /\ RuntimeSpec
        /\ CodingSpec
        /\ LifecycleSpec
        /\ ProvidersSpec
<1>1. ServicesInit =>
        /\ GatewayInit
        /\ SupervisorInit
        /\ RuntimeInit
        /\ CodingInit
        /\ LifecycleInit
        /\ ProvidersInit
    BY DEF ServicesInit
<1> QED
    BY <1>1, EachServiceSteps, PTL
       DEF ServicesSpec, GatewaySpec, SupervisorSpec, RuntimeSpec, CodingSpec,
           LifecycleSpec, ProvidersSpec

\* Every service keeps its types beside the others.
THEOREM ServicesTypeCorrect == ServicesSpec => []ServicesTypeOK
<1>1. /\ GatewayTypeOK
      /\ SupervisorTypeOK
      /\ RuntimeTypeOK
      /\ CodingTypeOK
      /\ LifecycleTypeOK
      /\ ProvidersTypeOK
      => ServicesTypeOK
    BY DEF ServicesTypeOK
<1> QED
    BY <1>1, ServicesRunEach, GatewayTypeCorrect, SupervisorTypeCorrect,
       RuntimeTypeCorrect, CodingTypeCorrect, LifecycleTypeCorrect,
       ProvidersTypeCorrect, PTL
=============================================================================
