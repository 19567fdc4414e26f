----------------------------- MODULE AgentRuntime -----------------------------
(***************************************************************************)
(* The AgentRuntime (llm/agent-runtime.ts) and its AgentPersistence        *)
(* (llm/persistence.ts): the registry of coworkers, which agents.json      *)
(* backs, and their runs, one LLM turn and one round of tool calls after   *)
(* the other, under the exclusive-run lock `activeRuns'.                   *)
(*                                                                         *)
(* A save makes the directory before it queues its write, so saves that    *)
(* are under way together may be written in either order.  A coworker has  *)
(* one conversation here: the runs whose messages it holds, in order.      *)
(* What the provider and the tools answer is left open.                    *)
(***************************************************************************)
EXTENDS Naturals, FiniteSets, Sequences

CONSTANTS Coworker,
          BuiltIn,        \* BUILT_IN_AGENT_IDS: the default coworkers
          Run,            \* calls of runAgentStream
          NoRun,
          CoworkerOf,     \* the coworker of each run
          MaxIterations,  \* LLM turns of a run
          MaxAgentSaves,  \* bound on the saves of agents.json under way
          MaxBoots        \* bound on the restarts of the runtime

ASSUME AgentRuntimeAssumption ==
    /\ BuiltIn \subseteq Coworker
    /\ CoworkerOf \in [Run -> Coworker]
    /\ NoRun \notin Run
    /\ MaxIterations \in Nat \ {0}
    /\ MaxAgentSaves \in Nat \ {0} /\ MaxBoots \in Nat

VARIABLES registered,  \* agentConfigs
          agentsFile,  \* agents.json
          agentSaves,  \* the contents of the saves under way
          loading,     \* how far init() is
          unread,      \* the coworkers it read and has still to register
          boots,       \* bounded by MaxBoots
          active,      \* activeRuns, the controller named by its run
          aborted,     \* the runs whose controller is aborted
          stage,       \* where each run is
          turns,       \* its LLM turns
          base,        \* the conversation it began with
          conv,        \* the conversations in memory
          convFile     \* and their files

registryVars == <<registered, agentsFile, agentSaves, loading, unread, boots>>

runVars == <<active, aborted, stage, turns, base, conv, convFile>>

runtimeVars == <<registryVars, runVars>>

\* What the registry and its file say of each coworker.
Registry == [Coworker -> {"absent", "active", "archived"}]

LiveStage == {"truncating", "routing", "turn", "tools", "saving"}

RuntimeTypeOK ==
    /\ {registered, agentsFile, unread} \cup agentSaves \subseteq Registry
    /\ loading \in {"reading", "registering", "over"}
    /\ boots \in 0 .. MaxBoots
    /\ active \in [Coworker -> Run \cup {NoRun}]
    /\ aborted \subseteq Run
    /\ stage \in [Run -> LiveStage \cup {"new", "over"}]
    /\ turns \in [Run -> 0 .. MaxIterations]
    /\ base \in [Run -> Seq(Run)]
    /\ {conv, convFile} \subseteq [Coworker -> Seq(Run)]

Nobody == [c \in Coworker |-> "absent"]

Defaults == [c \in Coworker |-> IF c \in BuiltIn THEN "active" ELSE "absent"]

\* The constructor registers the default coworkers, saves them and starts
\* to load the saved ones.
RuntimeInit ==
    /\ registered = Defaults
    /\ agentsFile = Nobody
    /\ agentSaves = {Defaults}
    /\ loading = "reading"
    /\ unread = Nobody
    /\ boots = 0
    /\ active = [c \in Coworker |-> NoRun]
    /\ aborted = {}
    /\ stage = [r \in Run |-> "new"]
    /\ turns = [r \in Run |-> 0]
    /\ base = [r \in Run |-> <<>>]
    /\ conv = [c \in Coworker |-> <<>>]
    /\ convFile = conv

-----------------------------------------------------------------------------
(* The registry.                                                           *)

\* A coworker of the registry changes, and saveAgents begins.
SetRegistered(c, status) ==
    /\ registered' = [registered EXCEPT ![c] = status]
    /\ agentSaves' = agentSaves \cup {registered'}
    /\ Cardinality(agentSaves') <= MaxAgentSaves
    /\ UNCHANGED <<agentsFile, loading, unread, boots>>

\* cancelAgent: aborts the run the lock knows, and forgets it.
CancelAgent(c) ==
    /\ aborted' = aborted \cup ({active[c]} \ {NoRun})
    /\ active' = [active EXCEPT ![c] = NoRun]
    /\ UNCHANGED <<stage, turns, base, conv, convFile>>

\* registerAgent, of a new coworker or of a copy of one.
RegisterAgent(c) ==
    /\ registered[c] = "absent"
    /\ SetRegistered(c, "active")
    /\ UNCHANGED runVars

\* updateAgent and setAgentModel keep the archived flag.
UpdateAgent(c) ==
    /\ registered[c] # "absent"
    /\ SetRegistered(c, registered[c])
    /\ UNCHANGED runVars

\* setArchived, either way: archiving cancels the run first.
Archive(c) ==
    /\ c \notin BuiltIn
    /\ registered[c] = "active"
    /\ CancelAgent(c)
    /\ SetRegistered(c, "archived")

Unarchive(c) ==
    /\ c \notin BuiltIn
    /\ registered[c] = "archived"
    /\ SetRegistered(c, "active")
    /\ UNCHANGED runVars

DeleteAgent(c) ==
    /\ c \notin BuiltIn
    /\ registered[c] # "absent"
    /\ CancelAgent(c)
    /\ SetRegistered(c, "absent")

\* One of the saves under way replaces agents.json.
WriteAgents(saved) ==
    /\ saved \in agentSaves
    /\ agentsFile' = saved
    /\ agentSaves' = agentSaves \ {saved}
    /\ UNCHANGED <<registered, loading, unread, boots, runVars>>

\* init() has registered everyone it read.
LoadingAfter(rest) == IF rest = Nobody THEN "over" ELSE "registering"

\* init() has read agents.json.
ReadAgents ==
    /\ loading = "reading"
    /\ unread' = agentsFile
    /\ loading' = LoadingAfter(unread')
    /\ UNCHANGED <<registered, agentsFile, agentSaves, boots, runVars>>

\* One of the coworkers it read and his conversation replace those in
\* memory; reading the conversation of the next one takes time.
LoadAgent(c) ==
    /\ unread[c] # "absent"
    /\ registered' = [registered EXCEPT ![c] = unread[c]]
    /\ conv' = [conv EXCEPT ![c] = convFile[c]]
    /\ unread' = [unread EXCEPT ![c] = "absent"]
    /\ loading' = LoadingAfter(unread')
    /\ UNCHANGED <<agentsFile, agentSaves, boots, active, aborted, stage,
                   turns, base, convFile>>

\* The process ends, and a new one constructs the runtime.
RestartRuntime ==
    /\ boots < MaxBoots
    /\ boots' = boots + 1
    /\ registered' = Defaults
    /\ agentSaves' = {Defaults}
    /\ loading' = "reading"
    /\ unread' = Nobody
    /\ active' = [c \in Coworker |-> NoRun]
    /\ aborted' = {}
    /\ stage' = [r \in Run |-> IF stage[r] \in LiveStage THEN "over" ELSE stage[r]]
    /\ turns' = [r \in Run |-> 0]
    /\ base' = [r \in Run |-> <<>>]
    /\ conv' = convFile
    /\ UNCHANGED <<agentsFile, convFile>>

-----------------------------------------------------------------------------
(* The runs.                                                               *)

MoveTo(r, s) == stage' = [stage EXCEPT ![r] = s]

\* The lock: cancelOthers aborts the runs it knows of other coworkers, and
\* the run takes the place of an earlier one of its own coworker.
Others(r) == {active[c] : c \in Coworker \ {CoworkerOf[r]}} \ {NoRun}

TakeLock(r) ==
    /\ aborted' = aborted \cup Others(r)
    /\ active' = [c \in Coworker |-> IF c = CoworkerOf[r] THEN r ELSE NoRun]

\* Seeded fault: the entry goes whichever run it is of.
Unlocked_Always(r) == [active EXCEPT ![CoworkerOf[r]] = NoRun]

\* The finally clause: a run removes the entry only when it is its own.
Unlocked(r) ==
    [active EXCEPT ![CoworkerOf[r]] = IF @ = r THEN NoRun ELSE @]

\* The run is over, and its local state gone.
Finish(r) ==
    /\ MoveTo(r, "over")
    /\ aborted' = aborted \ {r}
    /\ turns' = [turns EXCEPT ![r] = 0]
    /\ base' = [base EXCEPT ![r] = <<>>]

StartRun(r) ==
    /\ stage[r] = "new"
    /\ registered[CoworkerOf[r]] # "absent"
    /\ TakeLock(r)
    /\ MoveTo(r, "routing")
    /\ UNCHANGED <<turns, base, conv, convFile>>

\* regenerateConversation drops the last exchange, and saves.
Regenerate(r) ==
    LET c == CoworkerOf[r]
    IN  /\ stage[r] = "new"
        /\ registered[c] # "absent"
        /\ conv[c] # <<>>
        /\ conv' = [conv EXCEPT ![c] = SubSeq(@, 1, Len(@) - 1)]
        /\ base' = [base EXCEPT ![r] = conv'[c]]
        /\ MoveTo(r, "truncating")
        /\ UNCHANGED <<active, aborted, turns, convFile>>

\* The truncated conversation is written, or not, and its prompt runs again.
Rerun(r) ==
    /\ stage[r] = "truncating"
    /\ \/ convFile' = [convFile EXCEPT ![CoworkerOf[r]] = base[r]]
       \/ UNCHANGED convFile
    /\ TakeLock(r)
    /\ MoveTo(r, "routing")
    /\ UNCHANGED <<turns, base, conv>>

\* buildRoutePlan throws, outside of the try: the lock keeps its entry.
RouteFails(r) ==
    /\ stage[r] = "routing"
    /\ Finish(r)
    /\ UNCHANGED <<active, conv, convFile>>

\* One more LLM turn begins, unless the run is aborted or has had them all.
TakesTurn(r) == r \notin aborted /\ turns[r] < MaxIterations

BeginTurn(r) ==
    /\ TakesTurn(r)
    /\ turns' = [turns EXCEPT ![r] = @ + 1]
    /\ MoveTo(r, "turn")
    /\ UNCHANGED conv

\* saveConversation: what the run began with and its own exchange replace
\* the conversation in memory; the file follows.
BeginSave(r, history) ==
    /\ conv' = [conv EXCEPT ![CoworkerOf[r]] = Append(history, r)]
    /\ MoveTo(r, "saving")
    /\ UNCHANGED turns

\* The providers are resolved and the conversation is read.
Route(r) ==
    /\ stage[r] = "routing"
    /\ base' = [base EXCEPT ![r] = conv[CoworkerOf[r]]]
    /\ \/ BeginTurn(r)
       \/ ~TakesTurn(r) /\ BeginSave(r, base'[r])
    /\ UNCHANGED <<active, aborted, convFile>>

\* Seeded fault: the check before the tool calls is left out.
MayCallTools_Unchecked(r) == TRUE

MayCallTools(r) == r \notin aborted

\* The stream of the turn ends with tool calls, and they start.
CallTools(r) ==
    /\ stage[r] = "turn"
    /\ MayCallTools(r)
    /\ MoveTo(r, "tools")
    /\ UNCHANGED <<active, aborted, turns, base, conv, convFile>>

\* It ends with the answer or with an error, or with tool calls of an
\* aborted run.
EndTurns(r) ==
    /\ stage[r] = "turn"
    /\ BeginSave(r, base[r])
    /\ UNCHANGED <<active, aborted, base, convFile>>

\* The caller gives up at an error event: only the finally clause runs.
Abandon(r) ==
    /\ stage[r] = "turn"
    /\ active' = Unlocked(r)
    /\ Finish(r)
    /\ UNCHANGED <<conv, convFile>>

\* The tools have answered.
ToolsAnswer(r) ==
    /\ stage[r] = "tools"
    /\ \/ BeginTurn(r)
       \/ ~TakesTurn(r) /\ BeginSave(r, base[r])
    /\ UNCHANGED <<active, aborted, base, convFile>>

\* The conversation is written, or the write fails and is logged.
EndRun(r) ==
    /\ stage[r] = "saving"
    /\ \/ convFile' = [convFile EXCEPT ![CoworkerOf[r]] = Append(base[r], r)]
       \/ UNCHANGED convFile
    /\ active' = Unlocked(r)
    /\ Finish(r)
    /\ UNCHANGED conv

StopAgentRun(c) ==
    /\ active[c] # NoRun
    /\ CancelAgent(c)
    /\ UNCHANGED registryVars

RunStep(r) ==
    /\ \/ StartRun(r) \/ Regenerate(r) \/ Rerun(r)
       \/ RouteFails(r) \/ Route(r)
       \/ CallTools(r) \/ EndTurns(r) \/ Abandon(r) \/ ToolsAnswer(r)
       \/ EndRun(r)
    /\ UNCHANGED registryVars

RegistryStep ==
    \/ \E c \in Coworker :
          \/ RegisterAgent(c) \/ UpdateAgent(c)
          \/ Archive(c) \/ Unarchive(c) \/ DeleteAgent(c)
          \/ LoadAgent(c)
    \/ ReadAgents
    \/ \E saved \in agentSaves : WriteAgents(saved)

RuntimeNext ==
    \/ RegistryStep
    \/ RestartRuntime
    \/ \E c \in Coworker : StopAgentRun(c)
    \/ \E r \in Run : RunStep(r)

RuntimeSpec == RuntimeInit /\ [][RuntimeNext]_runtimeVars

-----------------------------------------------------------------------------
(* Properties.                                                             *)

\* A run that was aborted, by a newer run, a stop, an archiving or a
\* deletion, begins neither an LLM turn nor a tool call any more, wherever
\* the abort met it.
AbortedRunsStopActing ==
    [][\A r \in aborted : /\ turns'[r] <= turns[r]
                          /\ stage'[r] = "tools" => stage[r] = "tools"]_runtimeVars

\* The lock lets go of a run that is not over only by aborting it, or for a
\* newer run of the same coworker: a run that ends after it was replaced
\* must not free the newer one, which could not be stopped any more.
LockHeldByTheLatest ==
    [][\A r \in Run : \E c \in Coworker :
          (\A d \in Coworker : active[d] # r) \/
          /\ active[c] = r
          /\ \/ active'[c] \in Run
             \/ r \in aborted' \/ stage'[r] \notin LiveStage]_runtimeVars

\* "bots live in agents.json" (docs/API.md:217): when the runtime has read the
\* file and no save is under way, the file has every coworker it knows.
BotsLiveInFile ==
    loading = "over" /\ agentSaves = {} =>
        \A c \in Coworker : registered[c] # "absent" => agentsFile[c] # "absent"
=============================================================================
