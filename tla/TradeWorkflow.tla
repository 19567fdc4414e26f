----------------------------- MODULE TradeWorkflow -----------------------------
(***************************************************************************)
(* The trade workflow: TradeWorkflowOrchestrator with its WorkflowStore    *)
(* (orchestrator/orchestrator.ts, store.ts).  A run goes through research, *)
(* a proposal and a risk review, then waits for a user's decision, and     *)
(* approved it is handed to the ExecutionPipeline.                         *)
(*                                                                         *)
(* Every await is a point where other work may come in, so each piece of   *)
(* asynchronous work is a task of its own: startRun of a run, a request    *)
(* that decides a run (approve or reject), and recoverAfterRestart, which  *)
(* the service's initialize calls.  A save is three awaits: the run's file *)
(* is written after the first one, the index is read, and the index with   *)
(* the run added replaces what it is by then.                              *)
(*                                                                         *)
(* The server listens before the runtime is started (index.ts), and its    *)
(* routes do not wait for recovery: requests come before, during and after *)
(* it.  So recovery may load a run that this process has itself started,   *)
(* and then there are two objects of the run: startRun and the requests    *)
(* before keep their own, the map has the loaded one.                      *)
(*                                                                         *)
(* Writes succeed and are not torn; there are fewer runs than loadAll and  *)
(* the index hold (100 and 500).                                           *)
(***************************************************************************)
EXTENDS Naturals, FiniteSets

CONSTANTS Run,              \* the ids of the runs
          Request,          \* the requests that decide a run
          Boot,             \* the task of recoverAfterRestart
          NoRun,            \* the value of an absent run object
          MaxRestarts       \* bound on the restarts

\* "interrupted" is "failed" with the message of cleanOrphans.
Statuses == {"running", "awaiting_approval", "completed", "user_rejected",
             "failed", "interrupted"}

Object == [status : Statuses, approval : {"none", "approved", "rejected"}]

ASSUME WorkflowAssumption ==
    /\ Run \cap Request = {}
    /\ Boot \notin Run \cup Request
    /\ NoRun \notin Object
    /\ MaxRestarts \in Nat

VARIABLES runs,      \* the map: which object of a run it holds
          object,    \* the run objects in memory
          inFlight,  \* the runs whose order is at the pipeline
          file,      \* the file of each run
          index,     \* the ids that index.json lists
          at,        \* where each task is
          target,    \* the run object a task works on
          saving,    \* where in saveRun a task is
          seen,      \* the ids a task has read from the index
          todo,      \* the runs recovery has yet to load or look at
          sent,      \* how many orders of a run the pipeline has sent
          replaced,  \* history: the runs whose own object recovery replaced
          restarts

vars == <<runs, object, inFlight, file, index, at, target, saving, seen, todo,
          sent, replaced, restarts>>

Task == Run \cup Request \cup {Boot}

NewRun == [status |-> "running", approval |-> "none"]

\* A run's own object is the one startRun made, the other was loaded.
Origin == {"own", "loaded"}

Steps == {"idle", "started", "research", "proposal", "risk_review", "ended",
          "approved", "executing", "succeeded", "refused",
          "loading", "cleaning"}

TypeOK ==
    /\ runs \in [Run -> Origin \cup {"none"}]
    /\ object \in [Run \X Origin -> Object \cup {NoRun}]
    /\ inFlight \subseteq Run
    /\ file \in [Run -> Object \cup {NoRun}]
    /\ index \subseteq Run
    /\ at \in [Task -> Steps]
    /\ target \in [Task -> (Run \X Origin) \cup {NoRun}]
    /\ saving \in [Task -> {"no", "file", "index", "write"}]
    /\ seen \in [Task -> SUBSET Run]
    /\ todo \subseteq Run
    /\ sent \in [Run -> Nat]
    /\ replaced \subseteq Run
    /\ restarts \in 0 .. MaxRestarts

Init ==
    /\ runs = [r \in Run |-> "none"]
    /\ object = [o \in Run \X Origin |-> NoRun]
    /\ inFlight = {}
    /\ file = [r \in Run |-> NoRun]
    /\ index = {}
    /\ at = [t \in Task |-> "idle"]
    /\ target = [t \in Task |-> NoRun]
    /\ saving = [t \in Task |-> "no"]
    /\ seen = [t \in Task |-> {}]
    /\ todo = {}
    /\ sent = [r \in Run |-> 0]
    /\ replaced = {}
    /\ restarts = 0

Ready(t, step) == at[t] = step /\ saving[t] = "no"

Go(t, step) == at' = [at EXCEPT ![t] = step]

-----------------------------------------------------------------------------
(* WorkflowStore.saveRun.                                                  *)

\* Task t turns object o into value, and saves it while it is at step.
SaveAs(t, o, value, step) ==
    /\ Go(t, step)
    /\ target' = [target EXCEPT ![t] = o]
    /\ object' = [object EXCEPT ![o] = value]
    /\ saving' = [saving EXCEPT ![t] = "file"]

\* The object is serialised when the file is written: what was assigned to
\* it since saveRun was called is saved with it.
WriteFile(t) ==
    /\ saving[t] = "file"
    /\ file' = [file EXCEPT ![target[t][1]] = object[target[t]]]
    /\ saving' = [saving EXCEPT ![t] = "index"]
    /\ UNCHANGED <<runs, object, inFlight, index, at, target, seen, todo, sent,
                   replaced, restarts>>

ReadIndex(t) ==
    /\ saving[t] = "index"
    /\ seen' = [seen EXCEPT ![t] = index]
    /\ saving' = [saving EXCEPT ![t] = "write"]
    /\ UNCHANGED <<runs, object, inFlight, file, index, at, target, todo, sent,
                   replaced, restarts>>

WriteIndex(t) ==
    /\ saving[t] = "write"
    /\ index' = seen[t] \cup {target[t][1]}
    /\ saving' = [saving EXCEPT ![t] = "no"]
    /\ seen' = [seen EXCEPT ![t] = {}]
    /\ UNCHANGED <<runs, object, inFlight, file, at, target, todo, sent,
                   replaced, restarts>>

-----------------------------------------------------------------------------
(* startRun.                                                               *)

Own(r) == <<r, "own">>

WithStatus(o, status) == [object[o] EXCEPT !.status = status]

\* A new run is put in the map and saved.
StartRun(r) ==
    /\ at[r] = "idle" /\ file[r] = NoRun
    /\ runs' = [runs EXCEPT ![r] = "own"]
    /\ SaveAs(r, Own(r), NewRun, "started")
    /\ UNCHANGED <<inFlight, file, index, seen, todo, sent, replaced, restarts>>

NextStep == [started |-> "research", research |-> "proposal",
             proposal |-> "risk_review"]

\* The next step is recorded and saved before its agent is asked.
Advance(r) ==
    /\ at[r] \in DOMAIN NextStep /\ saving[r] = "no"
    /\ SaveAs(r, Own(r), object[Own(r)], NextStep[at[r]])
    /\ UNCHANGED <<runs, inFlight, file, index, seen, todo, sent, replaced, restarts>>

\* Seeded fault: the failure is saved, the status is not changed.
FailRun_KeepsStatus(r) ==
    /\ at[r] \in {"research", "proposal", "risk_review"} /\ saving[r] = "no"
    /\ SaveAs(r, Own(r), object[Own(r)], "ended")
    /\ UNCHANGED <<runs, inFlight, file, index, seen, todo, sent, replaced, restarts>>

\* An agent fails, the proposal is not valid, or the review blocks it.
FailRun(r) ==
    /\ at[r] \in {"research", "proposal", "risk_review"} /\ saving[r] = "no"
    /\ SaveAs(r, Own(r), WithStatus(Own(r), "failed"), "ended")
    /\ UNCHANGED <<runs, inFlight, file, index, seen, todo, sent, replaced, restarts>>

\* The review is through: the run waits for the user.
AwaitApproval(r) ==
    /\ Ready(r, "risk_review")
    /\ SaveAs(r, Own(r), WithStatus(Own(r), "awaiting_approval"), "ended")
    /\ UNCHANGED <<runs, inFlight, file, index, seen, todo, sent, replaced, restarts>>

-----------------------------------------------------------------------------
(* approve and reject.                                                     *)

\* The object of a run in the map.
Current(r) == <<r, runs[r]>>

\* Seeded faults: a run is decided unless it is closed; a status that the
\* types do not know.
AwaitsDecision_Open(r) ==
    runs[r] # "none" /\ object[Current(r)].status \in {"running", "awaiting_approval"}

Outcome_Raw(success) == IF success THEN "success" ELSE "failed"

AwaitsDecision(r) ==
    runs[r] # "none" /\ object[Current(r)].status = "awaiting_approval"

Outcome(success) == IF success THEN "completed" ELSE "failed"

Decided(r, status, approval) ==
    [object[Current(r)] EXCEPT !.status = status, !.approval = approval]

\* A request turns the run it decides into value.
Decide(q, r, value, step) ==
    /\ Ready(q, "idle")
    /\ AwaitsDecision(r)
    /\ SaveAs(q, Current(r), value, step)
    /\ UNCHANGED <<runs, inFlight, file, index, seen, todo, sent, replaced, restarts>>

Reject(q, r) == Decide(q, r, Decided(r, "user_rejected", "rejected"), "idle")

\* A confirmation that does not match is only noted.
Mismatch(q, r) ==
    r \notin inFlight /\ Decide(q, r, object[Current(r)], "idle")

\* The market data is stale or missing.
Stale(q, r) ==
    r \notin inFlight /\ Decide(q, r, WithStatus(Current(r), "failed"), "idle")

\* The approval is saved before the order is handed on.
Approve(q, r) ==
    /\ r \notin inFlight
    /\ Decide(q, r, Decided(r, "running", "approved"), "approved")

\* Seeded fault: the save is not awaited.
CanExecute_Unsaved(q) == at[q] = "approved"

CanExecute(q) == Ready(q, "approved")

RunOf(t) == target[t][1]

\* The order is handed to the pipeline, with a correlation id of its own.
Execute(q) ==
    /\ CanExecute(q)
    /\ inFlight' = inFlight \cup {RunOf(q)}
    /\ Go(q, "executing")
    /\ UNCHANGED <<runs, object, file, index, target, saving, seen, todo, sent,
                   replaced, restarts>>

\* What the pipeline does: it refuses, or sends the order to the broker and
\* then reports success or not.
PipelineActs(q) ==
    /\ at[q] = "executing"
    /\ \/ Go(q, "refused") /\ UNCHANGED sent
       \/ /\ \E step \in {"succeeded", "refused"} : Go(q, step)
          /\ sent' = [sent EXCEPT ![RunOf(q)] = @ + 1]
    /\ UNCHANGED <<runs, object, inFlight, file, index, target, saving, seen,
                   todo, replaced, restarts>>

Record(q) ==
    /\ at[q] \in {"succeeded", "refused"}
    /\ inFlight' = inFlight \ {RunOf(q)}
    /\ SaveAs(q, target[q],
              WithStatus(target[q], Outcome(at[q] = "succeeded")), "idle")
    /\ UNCHANGED <<runs, file, index, seen, todo, sent, replaced, restarts>>

-----------------------------------------------------------------------------
(* recoverAfterRestart.                                                    *)

\* loadAll reads the index, then the files one by one.
BootStart ==
    /\ at[Boot] = "idle"
    /\ Go(Boot, "loading")
    /\ todo' = index
    /\ UNCHANGED <<runs, object, inFlight, file, index, target, saving, seen,
                   sent, replaced, restarts>>

\* The loaded object is not in the map yet.
BootLoad(r) ==
    /\ at[Boot] = "loading" /\ r \in todo
    /\ object' = [object EXCEPT ![<<r, "loaded">>] = file[r]]
    /\ todo' = todo \ {r}
    /\ UNCHANGED <<runs, inFlight, file, index, at, target, saving, seen, sent,
                   replaced, restarts>>

Loaded == {r \in Run : object[<<r, "loaded">>] # NoRun}

\* The loaded objects replace what the map holds, and cleanOrphans takes a
\* list of all the runs in it.
BootHydrate ==
    /\ at[Boot] = "loading" /\ todo = {}
    /\ Go(Boot, "cleaning")
    /\ runs' = [r \in Run |-> IF r \in Loaded THEN "loaded" ELSE runs[r]]
    /\ todo' = {r \in Run : runs'[r] # "none"}
    /\ replaced' = replaced \cup {r \in Loaded : runs[r] = "own"}
    /\ UNCHANGED <<object, inFlight, file, index, target, saving, seen, sent,
                   restarts>>

\* Seeded faults: no run is an orphan; every closed run is one.
Orphan_None(r) == FALSE

Orphan_Any(r) == object[Current(r)].status # "awaiting_approval"

Orphan(r) == object[Current(r)].status = "running"

\* The runs recovery still looks at after the orphan r: those it passes on
\* the way to r are none.
After(r) == {later \in SUBSET (todo \ {r}) : \A p \in todo \ later : p = r \/ ~Orphan(p)}

\* Seeded fault: the orphan is not saved.
BootClean_Unsaved(r) ==
    /\ Ready(Boot, "cleaning")
    /\ r \in todo /\ Orphan(r)
    /\ todo' \in After(r)
    /\ object' = [object EXCEPT ![Current(r)].status = "interrupted"]
    /\ UNCHANGED <<runs, inFlight, file, index, at, target, saving, seen, sent,
                   replaced, restarts>>

\* A run that is running now is marked failed and saved; the runs are
\* taken in any order.
BootClean(r) ==
    /\ Ready(Boot, "cleaning")
    /\ r \in todo /\ Orphan(r)
    /\ todo' \in After(r)
    /\ SaveAs(Boot, Current(r), WithStatus(Current(r), "interrupted"),
              "cleaning")
    /\ UNCHANGED <<runs, inFlight, file, index, seen, sent, replaced, restarts>>

BootDone ==
    /\ Ready(Boot, "cleaning")
    /\ \A r \in todo : ~Orphan(r)
    /\ Go(Boot, "ended")
    /\ todo' = {}
    /\ UNCHANGED <<runs, object, inFlight, file, index, target, saving, seen,
                   sent, replaced, restarts>>

\* The process ends at any point, and the next one starts: what was in
\* memory is gone.
Restart ==
    /\ restarts < MaxRestarts
    /\ restarts' = restarts + 1
    /\ runs' = [r \in Run |-> "none"]
    /\ object' = [o \in Run \X Origin |-> NoRun]
    /\ inFlight' = {}
    /\ at' = [t \in Task |-> "idle"]
    /\ target' = [t \in Task |-> NoRun]
    /\ saving' = [t \in Task |-> "no"]
    /\ seen' = [t \in Task |-> {}]
    /\ todo' = {}
    /\ UNCHANGED <<file, index, sent, replaced>>

-----------------------------------------------------------------------------
Save(t) == WriteFile(t) \/ ReadIndex(t) \/ WriteIndex(t)

Stage(r) == Advance(r) \/ FailRun(r) \/ AwaitApproval(r)

Carry(q) == Execute(q) \/ PipelineActs(q) \/ Record(q)

Recover ==
    BootStart \/ BootHydrate \/ BootDone \/ \E r \in Run : BootLoad(r) \/ BootClean(r)

Next ==
    \/ \E t \in Task : Save(t)
    \/ \E r \in Run : StartRun(r) \/ Stage(r)
    \/ \E q \in Request : Carry(q)
    \/ \E q \in Request, r \in Run :
         Reject(q, r) \/ Mismatch(q, r) \/ Stale(q, r) \/ Approve(q, r)
    \/ Recover
    \/ Restart

\* Disk operations, agent turns and the pipeline's answer come to an end.
Fairness ==
    /\ \A r \in Run : WF_vars(Save(r) \/ Stage(r))
    /\ \A q \in Request : WF_vars(Save(q) \/ Carry(q))
    /\ WF_vars(Save(Boot) \/ Recover)

Spec == Init /\ [][Next]_vars

FairSpec == Spec /\ Fairness

-----------------------------------------------------------------------------
(* Properties.                                                             *)

\* A run of which recovery has replaced the object is followed by tasks that
\* work on the old one: those left out here are what SentOnce is about.
Undivided == Run \ replaced

\* "No orphan order can ever resume without an approval event that
\* happened": an order was sent only for a run whose file says approved, at
\* every moment, so a crash leaves no order without its approval, and the
\* record of an interrupted run tells whether its order may have been sent.
OrderHasRecordedApproval ==
    \A r \in Undivided :
        sent[r] > 0 => file[r] # NoRun /\ file[r].approval = "approved"

\* Whatever requests overlap, with each other and with recovery, and whatever
\* restarts come, a run's order is sent once: the pipeline would not know a
\* repetition, each execution has a correlation id of its own.
SentOnceUndivided == \A r \in Undivided : sent[r] <= 1

Settled(v) == v # NoRun /\ v.status \in {"completed", "user_rejected", "failed"}

\* The record of a run that was decided, executed or has failed is not
\* rewritten: no step of a late task, and no recovery, reopens it or gives
\* it another outcome.  ("interrupted" is not among these: recovery writes
\* it of runs that are worked on meanwhile, and what they come to replaces
\* it.)
SettledRecordIsFinal ==
    [][\A r \in Undivided : Settled(file[r]) => file'[r] = file[r]]_vars

Busy(r) ==
    \/ runs[r] = "own" /\ at[r] \notin {"idle", "ended"}
    \/ \E q \in Request : at[q] # "idle" /\ target[q] = Current(r)
    \/ at[Boot] = "cleaning" /\ r \in todo

\* A run that is shown as running is being worked on, the object of it that
\* is shown: none is left in that status, which no request can change, with
\* nobody to take it out of it.
RunningIsDriven ==
    \A r \in Run :
        runs[r] # "none" /\ object[Current(r)].status = "running" => Busy(r)

\* When no save of a run is pending its file is what the map shows, or else
\* what the object says that recovery has replaced.
FileCatchesUp ==
    \A r \in Run :
        /\ runs[r] # "none"
        /\ \A t \in Task : saving[t] = "file" => target[t][1] # r
        => \/ file[r] = object[Current(r)]
           \/ r \in replaced /\ file[r] = object[Own(r)]

\* A run that is shown as running gets out of that status, or its process
\* is restarted.
EveryRunSettles ==
    \A r \in Run :
        (runs[r] # "none" /\ object[Current(r)].status = "running")
            ~> (runs[r] = "none" \/ object[Current(r)].status # "running")

\* A claim of the source that the code does not keep.

\* "Not approvable in current state", "Idempotent duplicate protection":
\* approving a run again does not send its order again.
SentOnce == \A r \in Run : sent[r] <= 1

=============================================================================
