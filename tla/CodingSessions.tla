---------------------------- MODULE CodingSessions ----------------------------
(***************************************************************************)
(* The CodingSessionManager (coding/sessions.ts) over the managed sessions *)
(* of the CliManager (cli/cli-manager.ts): conversations with a CLI coding *)
(* agent, each turn one process of the CLI.  All sessions are of one       *)
(* project and one provider.                                               *)
(*                                                                         *)
(* A turn waits for its task and for the event stream of its CLI session,  *)
(* and ends with whichever ends first; a stop closes the stream when its   *)
(* timer fires, although the task may live on.  The records are persisted  *)
(* at every change.                                                        *)
(*                                                                         *)
(* The CLI sessions are open to the API as well (core/server.ts): it sends *)
(* them tasks of its own, which run beside a turn, share its executable    *)
(* and take its place as the process a stop kills, and it stops them,      *)
(* which the record of the session does not learn.                         *)
(***************************************************************************)
EXTENDS Naturals

CONSTANTS CodingSession,
          MaxDirect,  \* bound on the tasks of the API in one CLI session
          MaxReloads  \* bound on the restarts of the server

ASSUME CodingAssumption == MaxDirect \in Nat /\ MaxReloads \in Nat

VARIABLES status,     \* of the record, "none" before it is created
          cli,        \* the CLI session; "open" is starting, ready or busy
          resolved,   \* it has resolved its executable
          task,       \* the task of its latest turn: its process, live or killed
          resolving,  \* tasks of the API that wait for the executable
          spawned,    \* tasks of the API that have a process
          activeAbort, \* whose process a stop kills
          inTurn,     \* streamTurn waits for the task or the stream
          signalled,  \* cancel aborted the controller of the turn
          stopping,   \* the call whose stop waits for its timer
          reloads     \* bounded by MaxReloads

cliVars == <<cli, resolved, resolving, spawned, activeAbort>>

sessionVars == <<status, cliVars, task, inTurn, signalled, stopping, reloads>>

CodingTypeOK ==
    /\ status \in [CodingSession ->
         {"none", "idle", "running", "cancelled", "failed", "closed"}]
    /\ cli \in [CodingSession -> {"none", "open", "failed", "stopped"}]
    /\ task \in [CodingSession -> {"none", "resolving", "live", "killed"}]
    /\ {resolving, spawned} \subseteq [CodingSession -> Nat]
    /\ activeAbort \in [CodingSession -> {"none", "turn", "direct"}]
    /\ stopping \in [CodingSession -> {"none", "cancelled", "closed", "deleted"}]
    /\ {resolved, inTurn, signalled} \subseteq [CodingSession -> BOOLEAN]
    /\ reloads \in 0 .. MaxReloads

CodingInit ==
    /\ status = [s \in CodingSession |-> "none"]
    /\ cli = [s \in CodingSession |-> "none"]
    /\ resolved = [s \in CodingSession |-> FALSE]
    /\ task = [s \in CodingSession |-> "none"]
    /\ resolving = [s \in CodingSession |-> 0]
    /\ spawned = [s \in CodingSession |-> 0]
    /\ activeAbort = [s \in CodingSession |-> "none"]
    /\ inTurn = [s \in CodingSession |-> FALSE]
    /\ signalled = [s \in CodingSession |-> FALSE]
    /\ stopping = [s \in CodingSession |-> "none"]
    /\ reloads = 0

\* create(): without a worktree it is refused while a session of the
\* project runs.  It may also fail on the way, with nothing changed.
CreateSession(s, isolate) ==
    /\ status[s] = "none"
    /\ isolate \/ \A t \in CodingSession : status[t] # "running"
    /\ status' = [status EXCEPT ![s] = "idle"]
    /\ cli' = [cli EXCEPT ![s] = "open"]
    /\ UNCHANGED <<resolved, resolving, spawned, activeAbort, task, inTurn,
                   signalled, stopping, reloads>>

-----------------------------------------------------------------------------
(* Tasks of a CLI session.                                                 *)

\* setStatus: a stopped CLI session stays stopped.
SetCli(s, value) == cli' = [cli EXCEPT ![s] = IF @ = "stopped" THEN @ ELSE value]

\* What becomes of the CLI session when one of its processes is over: ready
\* again, even if another task failed it, or failed when it never ran.
TaskOver(s, ran) ==
    /\ SetCli(s, IF ran THEN "open" ELSE "failed")
    /\ activeAbort' = [activeAbort EXCEPT ![s] = "none"]

\* POST /api/cli/sessions/:id/tasks: refused by a stopped or failed CLI
\* session, never by a busy one.
SendDirectTask(s) ==
    /\ cli[s] = "open"
    /\ resolving[s] + spawned[s] < MaxDirect
    /\ IF resolved[s]
       THEN /\ spawned' = [spawned EXCEPT ![s] = @ + 1]
            /\ activeAbort' = [activeAbort EXCEPT ![s] = "direct"]
            /\ UNCHANGED resolving
       ELSE /\ resolving' = [resolving EXCEPT ![s] = @ + 1]
            /\ UNCHANGED <<spawned, activeAbort>>
    /\ UNCHANGED <<status, cli, resolved, task, inTurn, signalled, stopping, reloads>>

\* Its executable is found or not.
DirectResolves(s) ==
    /\ resolving[s] > 0
    /\ resolving' = [resolving EXCEPT ![s] = @ - 1]
    /\ \/ /\ resolved' = [resolved EXCEPT ![s] = TRUE]
          /\ spawned' = [spawned EXCEPT ![s] = @ + 1]
          /\ activeAbort' = [activeAbort EXCEPT ![s] = "direct"]
          /\ UNCHANGED cli
       \/ /\ resolved' = [resolved EXCEPT ![s] = FALSE]
          /\ SetCli(s, "failed")
          /\ UNCHANGED <<spawned, activeAbort>>
    /\ UNCHANGED <<status, task, inTurn, signalled, stopping, reloads>>

DirectEnds(s) ==
    /\ spawned[s] > 0
    /\ spawned' = [spawned EXCEPT ![s] = @ - 1]
    /\ \E ran \in BOOLEAN : TaskOver(s, ran)
    /\ UNCHANGED <<status, resolved, resolving, task, inTurn, signalled,
                   stopping, reloads>>

-----------------------------------------------------------------------------
(* Turns.                                                                  *)

\* Seeded fault: the state of the CLI session is not looked at.
Accepts_AnyCli(s) == status[s] \notin {"none", "running", "closed"}

\* A turn is refused while one runs, when the session is closed, and when
\* its CLI session is gone, stopped or failed.
Accepts(s) ==
    /\ status[s] \notin {"none", "running", "closed"}
    /\ cli[s] = "open"

\* streamTurn() up to its first wait.  The first task of a CLI session
\* resolves the executable before it spawns.
BeginCodingTurn(s) ==
    /\ Accepts(s)
    /\ status' = [status EXCEPT ![s] = "running"]
    /\ inTurn' = [inTurn EXCEPT ![s] = TRUE]
    /\ signalled' = [signalled EXCEPT ![s] = FALSE]
    /\ task' = [task EXCEPT ![s] = IF resolved[s] THEN "live" ELSE "resolving"]
    /\ activeAbort' = [activeAbort EXCEPT ![s] = IF resolved[s] THEN "turn" ELSE @]
    /\ UNCHANGED <<cli, resolved, resolving, spawned, stopping, reloads>>

\* The task is over.  A turn that still waits for it takes over its outcome.
SettleTask(s, outcome) ==
    /\ task' = [task EXCEPT ![s] = "none"]
    /\ inTurn' = [inTurn EXCEPT ![s] = FALSE]
    /\ status' = [status EXCEPT ![s] = IF inTurn[s] THEN outcome ELSE @]

\* The executable is found, and the process spawned; it is killed at once
\* when the turn was cancelled meanwhile.
SpawnProcess(s) ==
    /\ task[s] = "resolving"
    /\ task' = [task EXCEPT ![s] = IF signalled[s] THEN "killed" ELSE "live"]
    /\ resolved' = [resolved EXCEPT ![s] = TRUE]
    /\ activeAbort' = [activeAbort EXCEPT ![s] = "turn"]
    /\ UNCHANGED <<status, cli, resolving, spawned, inTurn, signalled,
                   stopping, reloads>>

\* No executable: the CLI session fails.
ResolveFails(s) ==
    /\ task[s] = "resolving"
    /\ resolved' = [resolved EXCEPT ![s] = FALSE]
    /\ SetCli(s, "failed")
    /\ SettleTask(s, "failed")
    /\ UNCHANGED <<resolving, spawned, activeAbort, signalled, stopping, reloads>>

\* The process exits, by itself, at its timeout or killed, or was none.
ProcessExits(s) ==
    /\ \/ task[s] = "live" /\ \E outcome \in {"idle", "failed"} :
             /\ SettleTask(s, outcome)
             /\ \E ran \in {TRUE, outcome # "failed"} : TaskOver(s, ran)
       \/ task[s] = "killed" /\ SettleTask(s, "cancelled") /\ TaskOver(s, TRUE)
    /\ UNCHANGED <<resolved, resolving, spawned, signalled, stopping, reloads>>

-----------------------------------------------------------------------------
(* Stops.                                                                  *)

\* stop() of the CLI session, the first one: the process it knows of is
\* killed, and a timer set for the call that made it.
StopCli(s, caller) ==
    /\ cli' = [cli EXCEPT ![s] = "stopped"]
    /\ stopping' = [stopping EXCEPT ![s] = caller]

\* cancel() and close() stop the CLI session; cancel() first aborts the
\* turn.  The status follows when the stop returns: at once when there is
\* nothing to stop.
StopSession(s, outcome) ==
    LET aborts == outcome = "cancelled" /\ inTurn[s]
        stops  == cli[s] \in {"open", "failed"}
        kills  == aborts \/ (stops /\ activeAbort[s] = "turn")
    IN  /\ status[s] # "none"
        /\ task' = [task EXCEPT ![s] = IF @ = "live" /\ kills THEN "killed" ELSE @]
        /\ signalled' = [signalled EXCEPT ![s] = @ \/ aborts]
        /\ IF stops
           THEN StopCli(s, outcome) /\ UNCHANGED status
           ELSE /\ status' = [status EXCEPT ![s] = outcome]
                /\ UNCHANGED <<cli, stopping>>
        /\ UNCHANGED <<resolved, resolving, spawned, activeAbort, inTurn, reloads>>

CancelSession(s) == StopSession(s, "cancelled")

CloseSession(s) == StopSession(s, "closed")

\* DELETE /api/cli/sessions/:id, which leaves the record alone.
DeleteCli(s) ==
    /\ cli[s] \in {"open", "failed"}
    /\ StopCli(s, "deleted")
    /\ task' = [task EXCEPT ![s] =
                  IF @ = "live" /\ activeAbort[s] = "turn" THEN "killed" ELSE @]
    /\ UNCHANGED <<status, resolved, resolving, spawned, activeAbort, inTurn,
                   signalled, reloads>>

\* The timer of the stop fires and the event stream closes.  A turn that
\* still waits ends as if nothing had happened, or failed when the stream
\* brought the failure of another task; its status and that of the caller
\* are written one right after the other.
FinishStop(s) ==
    /\ stopping[s] # "none"
    /\ \E final \in (IF inTurn[s] THEN {"idle", "failed"} ELSE {})
                    \cup (IF stopping[s] # "deleted" THEN {stopping[s]}
                          ELSE IF inTurn[s] THEN {} ELSE {status[s]}) :
          status' = [status EXCEPT ![s] = final]
    /\ inTurn' = [inTurn EXCEPT ![s] = FALSE]
    /\ stopping' = [stopping EXCEPT ![s] = "none"]
    /\ UNCHANGED <<cliVars, task, signalled, reloads>>

-----------------------------------------------------------------------------
(* Restarts.                                                               *)

\* Seeded fault: the status is restored as it was persisted.
Restored_AsPersisted(s) == status[s]

\* load(): no session is restored as running.
Restored(s) == IF status[s] = "running" THEN "idle" ELSE status[s]

\* The server restarts: the CLI sessions are gone, and so are their
\* processes, as load() takes it.
ReloadSessions ==
    /\ reloads < MaxReloads
    /\ reloads' = reloads + 1
    /\ status' = [s \in CodingSession |-> Restored(s)]
    /\ cli' = [s \in CodingSession |-> "none"]
    /\ resolved' = [s \in CodingSession |-> FALSE]
    /\ task' = [s \in CodingSession |-> "none"]
    /\ resolving' = [s \in CodingSession |-> 0]
    /\ spawned' = [s \in CodingSession |-> 0]
    /\ activeAbort' = [s \in CodingSession |-> "none"]
    /\ inTurn' = [s \in CodingSession |-> FALSE]
    /\ signalled' = [s \in CodingSession |-> FALSE]
    /\ stopping' = [s \in CodingSession |-> "none"]

CodingNext ==
    \/ \E s \in CodingSession :
          \/ \E isolate \in BOOLEAN : CreateSession(s, isolate)
          \/ BeginCodingTurn(s)
          \/ SpawnProcess(s) \/ ResolveFails(s) \/ ProcessExits(s)
          \/ SendDirectTask(s) \/ DirectResolves(s) \/ DirectEnds(s)
          \/ CancelSession(s) \/ CloseSession(s) \/ DeleteCli(s)
          \/ FinishStop(s)
    \/ ReloadSessions

CodingSpec == CodingInit /\ [][CodingNext]_sessionVars

-----------------------------------------------------------------------------
(* Properties.                                                             *)

\* A session that says "running" has a turn that waits for a task under
\* way: nothing leaves it running for ever, which would refuse all its turns
\* and every new session of the project.
RunningHasATask ==
    \A s \in CodingSession :
        status[s] = "running" => inTurn[s] /\ task[s] # "none"

\* The turns of a session never overlap: one begins only when the task of
\* every earlier turn is over, even of one that ended before its task, by a
\* cancel, a close or a stop over the API, and whatever tasks the API sent to
\* the CLI session, which may fail it and make it ready again.
TurnsNeverOverlap ==
    [][\A s \in CodingSession :
          inTurn'[s] /\ ~inTurn[s] => task[s] = "none"]_sessionVars
=============================================================================
