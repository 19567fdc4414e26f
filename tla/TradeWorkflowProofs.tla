-------------------------- MODULE TradeWorkflowProofs --------------------------
(***************************************************************************)
(* Proofs about the trade workflow, for any runs and requests, any number  *)
(* of restarts, and requests that come before, during and after recovery.  *)
(***************************************************************************)
EXTENDS TradeWorkflow, TLAPS

USE WorkflowAssumption

InMap(r) == runs[r] # "none"

\* The object of a run in the map.
Value(r) == object[Current(r)]

\* Object o is the one of run r in the map, or the one recovery replaced.
IsOf(r, o) == o = Current(r) \/ (r \in replaced /\ o = Own(r))

Staging == {"started", "research", "proposal", "risk_review"}

Deciding == {"approved", "executing", "succeeded", "refused"}

-----------------------------------------------------------------------------
(* The inductive invariant, in named parts.                                *)

\* Until the map is filled from the files it has the runs of this process
\* only, and what was loaded of the others is still what their files say.
BootFirst ==
    /\ at[Boot] \in {"idle", "loading", "cleaning", "ended"}
    /\ at[Boot] # "cleaning" => saving[Boot] = "no"
    /\ at[Boot] \in {"idle", "loading"} => \A r \in Run : runs[r] # "loaded"
    /\ at[Boot] = "idle" => \A r \in Run : object[<<r, "loaded">>] = NoRun
    /\ at[Boot] = "loading" =>
         \A r \in Run : ~InMap(r) => object[<<r, "loaded">>] \in {NoRun, file[r]}
    /\ at[Boot] = "cleaning" => \A r \in todo : InMap(r)

\* What a task saves, or decides, is the object that the map holds, or one
\* that recovery has replaced.
Aimed ==
    \A t \in Task :
        saving[t] # "no" \/ (t \in Request /\ at[t] # "idle") =>
            /\ object[target[t]] # NoRun
            /\ \E r \in Run : InMap(r) /\ IsOf(r, target[t])

\* A run in progress has not been approved, whatever recovery made of it.
RunSteps ==
    \A r \in Run :
        /\ at[r] \in {"idle", "ended"} \cup Staging
        /\ runs[r] = "own" => at[r] # "idle"
        /\ at[r] # "idle" => /\ InMap(r) /\ object[Own(r)] # NoRun
                             /\ IsOf(r, Own(r))
        /\ at[r] = "idle" => saving[r] = "no"
        /\ r \in Undivided /\ at[r] \in Staging =>
             /\ Value(r).status \in {"running", "interrupted"}
             /\ Value(r).approval = "none"
             /\ sent[r] = 0

\* A request that carries an approved run has it to itself, and when its
\* save is done the file has the approval.
RequestSteps ==
    /\ \A q \in Request :
         /\ at[q] \in {"idle"} \cup Deciding
         /\ at[q] \in Deciding \ {"approved"} => saving[q] = "no"
    /\ \A q \in Request, r \in Undivided :
         at[q] \in Deciding /\ target[q] = Current(r) =>
           /\ Value(r).status \in {"running", "interrupted"}
           /\ Value(r).approval = "approved"
           /\ at[q] \in {"approved", "executing"} => sent[r] = 0
           /\ saving[q] # "file" => /\ file[r] # NoRun
                                    /\ file[r].approval = "approved"
                                    /\ file[r].status # "awaiting_approval"
    /\ \A q, p \in Request, r \in Undivided :
         /\ at[q] \in Deciding /\ at[p] \in Deciding
         /\ target[q] = Current(r) /\ target[p] = Current(r)
         => q = p

\* A settled record is what the map shows, and an order that was sent left
\* its approval in the file and in the map.
Records ==
    \A r \in Run :
        /\ InMap(r) => Value(r) # NoRun
        /\ object[<<r, "loaded">>] # NoRun => file[r] # NoRun
        /\ r \in Undivided =>
             /\ InMap(r) /\ Settled(file[r]) => Value(r) = file[r]
             /\ sent[r] > 0 => /\ file[r] # NoRun
                               /\ file[r].approval = "approved"
                               /\ file[r].status # "awaiting_approval"
             /\ sent[r] > 0 /\ InMap(r) => /\ Value(r).approval = "approved"
                                           /\ Value(r).status # "awaiting_approval"

WorkflowInv ==
    /\ TypeOK
    /\ BootFirst
    /\ Aimed
    /\ RunSteps
    /\ RequestSteps
    /\ Records
    /\ FileCatchesUp
    /\ RunningIsDriven
    /\ SentOnceUndivided

-----------------------------------------------------------------------------
(* Names and types.                                                        *)

LEMMA TaskFacts ==
    /\ Run \subseteq Task /\ Request \subseteq Task /\ Boot \in Task
    /\ \A r \in Run : r \notin Request /\ r # Boot
    /\ \A q \in Request : q # Boot
  BY DEF Task

LEMMA CurrentFacts ==
    ASSUME TypeOK
    PROVE  /\ \A r \in Run : InMap(r) => Current(r) \in Run \X Origin
           /\ \A r \in Run : Current(r)[1] = r
           /\ \A r, p \in Run : Current(r) = Current(p) => r = p
  BY DEF TypeOK, InMap, Current

\* Objects of different runs are different, and only a replaced run has
\* another object than the one in the map.
LEMMA IsOfFacts ==
    ASSUME TypeOK
    PROVE  /\ \A r \in Run : \A o : IsOf(r, o) => o[1] = r
           /\ \A r \in Run : \A o : InMap(r) /\ IsOf(r, o) => o \in Run \X Origin
           /\ \A r \in Undivided : \A o : IsOf(r, o) => o = Current(r)
  <1>1. \A r \in Run : Own(r) \in Run \X Origin /\ Own(r)[1] = r
    BY DEF Own, Origin
  <1>. QED
    BY <1>1, CurrentFacts DEF IsOf, Undivided

LEMMA ObjectFields ==
    ASSUME NEW v \in Object, NEW s \in Statuses
    PROVE  /\ [v EXCEPT !.status = s] \in Object
           /\ [v EXCEPT !.status = s].status = s
           /\ [v EXCEPT !.status = s].approval = v.approval
  BY DEF Object

LEMMA DecidedFields ==
    ASSUME NEW r, Value(r) \in Object, NEW s \in Statuses,
           NEW a \in {"approved", "rejected"}
    PROVE  /\ Decided(r, s, a) \in Object
           /\ Decided(r, s, a).status = s
           /\ Decided(r, s, a).approval = a
  BY DEF Object, Value, Decided

LEMMA ObjectType ==
    ASSUME TypeOK, NEW r \in Run, InMap(r), NEW o, IsOf(r, o),
           object[o] # NoRun
    PROVE  object[o] \in Object
  BY IsOfFacts DEF TypeOK

LEMMA ValueType ==
    ASSUME TypeOK, Records, NEW r \in Run, InMap(r)
    PROVE  Value(r) \in Object
  <1>1. Current(r) \in Run \X Origin
    BY CurrentFacts
  <1>2. object[Current(r)] # NoRun
    BY DEF Records, Value
  <1>. QED
    BY <1>1, <1>2 DEF Value, TypeOK

\* What saving an object o of run r leaves: only o changes, and it is not
\* settled when it is all there is of the run.
LEMMA SaveKeeps ==
    ASSUME WorkflowInv, NEW t \in Task, NEW r \in Run, InMap(r),
           NEW o, IsOf(r, o), saving[t] = "no",
           NEW v \in Object, NEW step \in Steps,
           SaveAs(t, o, v, step),
           r \in Undivided => ~Settled(Value(r)),
           sent[r] > 0 /\ r \in Undivided =>
               v.approval = "approved" /\ v.status # "awaiting_approval",
           UNCHANGED <<runs, file, index, seen, sent, replaced, restarts>>,
           inFlight' \subseteq Run, todo' \subseteq todo,
           t = Boot => at[Boot] = "cleaning" /\ step = "cleaning"
    PROVE  /\ TypeOK' /\ BootFirst' /\ Aimed' /\ Records' /\ FileCatchesUp'
           /\ SentOnceUndivided'
           /\ Value(r)' = IF o = Current(r) THEN v ELSE Value(r)
           /\ r \in Undivided => o = Current(r)
           /\ o[1] = r
           /\ \A p \in Run : /\ Current(p)' = Current(p)
                             /\ p # r /\ InMap(p) => Value(p)' = Value(p)
                             /\ object[Own(p)] # NoRun => object'[Own(p)] # NoRun
           /\ \A u \in Task : u # t => /\ at'[u] = at[u]
                                       /\ saving'[u] = saving[u]
                                       /\ target'[u] = target[u]
           /\ at'[t] = step /\ target'[t] = o /\ saving'[t] = "file"
  <1> USE DEF WorkflowInv
  <1>1. /\ o \in Run \X Origin /\ o[1] = r
        /\ r \in Undivided => o = Current(r)
        /\ Current(r) \in Run \X Origin
    BY IsOfFacts, CurrentFacts
  <1>2. /\ at' = [at EXCEPT ![t] = step]
        /\ target' = [target EXCEPT ![t] = o]
        /\ object' = [object EXCEPT ![o] = v]
        /\ saving' = [saving EXCEPT ![t] = "file"]
    BY DEF SaveAs, Go
  <1>3. v # NoRun
    OBVIOUS
  <1>4. TypeOK'
    BY <1>1, <1>2 DEF TypeOK
  <1>5. /\ \A u \in Task : u # t => /\ at'[u] = at[u]
                                    /\ saving'[u] = saving[u]
                                    /\ target'[u] = target[u]
        /\ at'[t] = step /\ target'[t] = o /\ saving'[t] = "file"
    BY <1>2 DEF TypeOK
  <1>6. /\ object'[o] = v
        /\ \A x \in Run \X Origin : x # o => object'[x] = object[x]
        /\ \A x \in Run \X Origin : object[x] # NoRun => object'[x] # NoRun
    BY <1>1, <1>2, <1>3 DEF TypeOK
  <1>7. \A p \in Run : /\ Current(p)' = Current(p) /\ InMap(p)' = InMap(p)
    BY DEF Current, InMap
  <1>8. Value(r)' = IF o = Current(r) THEN v ELSE Value(r)
    BY <1>1, <1>6, <1>7 DEF Value
  <1>9. \A p \in Run : p # r /\ InMap(p) => Value(p)' = Value(p)
    BY <1>1, <1>6, <1>7, CurrentFacts DEF Value
  <1>10. \A p \in Run : object[Own(p)] # NoRun => object'[Own(p)] # NoRun
    BY <1>6 DEF Own, Origin
  <1>11. Aimed'
    <2> SUFFICES ASSUME NEW u \in Task,
                        saving'[u] # "no" \/ (u \in Request /\ at'[u] # "idle")
                 PROVE  /\ object'[target'[u]] # NoRun
                        /\ \E p \in Run : InMap(p) /\ IsOf(p, target'[u])
      BY <1>7 DEF Aimed, IsOf, Own
    <2>1. CASE u = t
      BY <1>3, <1>5, <1>6, <2>1
    <2>2. CASE u # t
      <3>1. /\ target'[u] = target[u] /\ object[target[u]] # NoRun
            /\ \E p \in Run : InMap(p) /\ IsOf(p, target[u])
        BY <1>5, <2>2 DEF Aimed
      <3>2. target[u] \in Run \X Origin
        BY <3>1, IsOfFacts
      <3>. QED
        BY <1>6, <3>1, <3>2
    <2>. QED
      BY <2>1, <2>2
  <1>12. Records'
    <2> SUFFICES ASSUME NEW p \in Run
                 PROVE  /\ InMap(p) => Value(p)' # NoRun
                        /\ object'[<<p, "loaded">>] # NoRun => file[p] # NoRun
                        /\ p \in Undivided =>
                             /\ InMap(p) /\ Settled(file[p]) => Value(p)' = file[p]
                             /\ sent[p] > 0 => /\ file[p] # NoRun
                                               /\ file[p].approval = "approved"
                                               /\ file[p].status # "awaiting_approval"
                             /\ sent[p] > 0 /\ InMap(p) =>
                                  /\ Value(p)'.approval = "approved"
                                  /\ Value(p)'.status # "awaiting_approval"
      BY <1>7 DEF Records, Settled, Undivided
    <2>1. InMap(p) => Value(p)' # NoRun
      BY <1>3, <1>8, <1>9 DEF Records
    <2>2. object'[<<p, "loaded">>] # NoRun => file[p] # NoRun
      <3>1. <<p, "loaded">> \in Run \X Origin
        BY DEF Origin
      <3>2. CASE o # <<p, "loaded">>
        BY <1>6, <3>1, <3>2 DEF Records
      <3>3. CASE o = <<p, "loaded">>
        <4>1. p = r /\ o = Current(r)
          BY <1>1, <3>3 DEF IsOf, Own
        <4>. QED
          BY <3>3, <4>1 DEF Records, Value
      <3>. QED
        BY <3>2, <3>3
    <2>3. ASSUME p \in Undivided
          PROVE  /\ InMap(p) /\ Settled(file[p]) => Value(p)' = file[p]
                 /\ sent[p] > 0 => /\ file[p] # NoRun
                                   /\ file[p].approval = "approved"
                                   /\ file[p].status # "awaiting_approval"
                 /\ sent[p] > 0 /\ InMap(p) =>
                      /\ Value(p)'.approval = "approved"
                      /\ Value(p)'.status # "awaiting_approval"
      <3>1. CASE p = r
        BY <1>1, <1>8, <2>3, <3>1 DEF Records
      <3>2. CASE p # r
        BY <1>9, <2>3, <3>2 DEF Records
      <3>. QED
        BY <3>1, <3>2
    <2>. QED
      BY <2>1, <2>2, <2>3
  <1>13. BootFirst'
    <2>1. at'[Boot] = at[Boot]
      BY <1>5, TaskFacts
    <2>2. at[Boot] # "cleaning" => saving'[Boot] = "no"
      BY <1>5, TaskFacts DEF BootFirst
    <2>3. at[Boot] \in {"idle", "loading"} =>
            \A p \in Run : object'[<<p, "loaded">>] = object[<<p, "loaded">>]
      <3> SUFFICES ASSUME at[Boot] \in {"idle", "loading"}, NEW p \in Run
                   PROVE  object'[<<p, "loaded">>] = object[<<p, "loaded">>]
        OBVIOUS
      <3>1. o # <<p, "loaded">>
        BY <1>1 DEF BootFirst, IsOf, Own, Current
      <3>. QED
        BY <1>6, <3>1 DEF Origin
    <2>4. at[Boot] = "cleaning" => \A p \in todo' : InMap(p)'
      BY <1>4, <1>7 DEF BootFirst, TypeOK
    <2>5. at[Boot] = "loading" =>
            \A p \in Run : ~InMap(p)' => object'[<<p, "loaded">>] \in {NoRun, file[p]}
      BY <1>7, <2>3 DEF BootFirst
    <2>. QED
      BY <2>1, <2>2, <2>3, <2>4, <2>5 DEF BootFirst
  <1>14. FileCatchesUp'
    <2> SUFFICES ASSUME NEW p \in Run, InMap(p),
                        \A u \in Task : saving'[u] = "file" => target'[u][1] # p
                 PROVE  \/ file[p] = Value(p)'
                        \/ p \in replaced /\ file[p] = object'[Own(p)]
      BY DEF FileCatchesUp, InMap, Value
    <2>1. p # r
      BY <1>1, <1>5
    <2>2. \A u \in Task : saving[u] = "file" => target[u][1] # p
      BY <1>5
    <2>3. object'[Own(p)] = object[Own(p)]
      BY <1>1, <1>6, <2>1 DEF Own, Origin
    <2>. QED
      BY <1>9, <2>1, <2>2, <2>3 DEF FileCatchesUp, InMap, Value
  <1>15. SentOnceUndivided'
    BY DEF SentOnceUndivided, Undivided
  <1>. QED
    BY <1>1, <1>4, <1>5, <1>7, <1>8, <1>9, <1>10, <1>11, <1>12, <1>13, <1>14, <1>15

-----------------------------------------------------------------------------
(* startRun.                                                               *)

LEMMA StartRunStep ==
    ASSUME WorkflowInv, NEW r \in Run, StartRun(r)
    PROVE  WorkflowInv'
  <1> USE DEF WorkflowInv
  <1>1. /\ at[r] = "idle" /\ file[r] = NoRun
        /\ runs' = [runs EXCEPT ![r] = "own"]
        /\ at' = [at EXCEPT ![r] = "started"]
        /\ target' = [target EXCEPT ![r] = Own(r)]
        /\ object' = [object EXCEPT ![Own(r)] = NewRun]
        /\ saving' = [saving EXCEPT ![r] = "file"]
        /\ UNCHANGED <<inFlight, file, index, seen, todo, sent, replaced,
                       restarts>>
    BY DEF StartRun, SaveAs, Go
  <1>2. r \in Task /\ r \notin Request /\ r # Boot /\ Own(r) \in Run \X Origin
        /\ NewRun \in Object
    BY TaskFacts DEF Own, Origin, NewRun, Object, Statuses
  <1>3. ~InMap(r)
    <2>1. runs[r] # "own"
      BY <1>1 DEF RunSteps
    <2>2. runs[r] # "loaded"
      BY <1>1 DEF Records, InMap, Value, Current
    <2>. QED
      BY <2>1, <2>2 DEF InMap, TypeOK, Origin
  <1>4. TypeOK'
    BY <1>1, <1>2 DEF TypeOK, Steps, Origin
  <1>5. /\ \A u \in Task : u # r => /\ at'[u] = at[u]
                                    /\ saving'[u] = saving[u]
                                    /\ target'[u] = target[u]
        /\ at'[r] = "started" /\ target'[r] = Own(r) /\ saving'[r] = "file"
    BY <1>1, <1>2 DEF TypeOK
  <1>6. /\ object'[Own(r)] = NewRun /\ NewRun # NoRun
        /\ \A x \in Run \X Origin : x # Own(r) => object'[x] = object[x]
        /\ \A x \in Run \X Origin : object[x] # NoRun => object'[x] # NoRun
    BY <1>1, <1>2 DEF TypeOK
  <1>7. /\ Current(r)' = Own(r) /\ InMap(r)' /\ Value(r)' = NewRun
        /\ \A p \in Run : p # r => /\ Current(p)' = Current(p)
                                   /\ InMap(p)' = InMap(p)
    BY <1>1, <1>2, <1>6 DEF Current, Own, InMap, Value, TypeOK
  <1>8. \A p \in Run : p # r /\ InMap(p) => Value(p)' = Value(p)
    BY <1>2, <1>6, <1>7, CurrentFacts DEF Value, Own
  <1>9. BootFirst'
    <2>1. at'[Boot] = at[Boot] /\ saving'[Boot] = saving[Boot]
      BY <1>2, <1>5, TaskFacts
    <2>2. \A p \in Run : object'[<<p, "loaded">>] = object[<<p, "loaded">>]
      BY <1>6 DEF Own, Origin
    <2>3. \A p \in Run : runs'[p] = "loaded" => runs[p] = "loaded"
      BY <1>1 DEF TypeOK
    <2>4. \A p \in Run : InMap(p) => InMap(p)'
      BY <1>7
    <2>5. at[Boot] = "cleaning" => \A p \in todo' : InMap(p)'
      BY <1>1, <2>4 DEF BootFirst, TypeOK
    <2>6. at[Boot] = "loading" =>
            \A p \in Run : ~InMap(p)' => object'[<<p, "loaded">>] \in {NoRun, file[p]}
      BY <2>2, <2>4 DEF BootFirst
    <2>. QED
      BY <1>1, <2>1, <2>2, <2>3, <2>5, <2>6 DEF BootFirst
  <1>10. Aimed'
    <2> SUFFICES ASSUME NEW u \in Task,
                        saving'[u] # "no" \/ (u \in Request /\ at'[u] # "idle")
                 PROVE  /\ object'[target'[u]] # NoRun
                        /\ \E p \in Run : InMap(p)' /\ (\/ target'[u] = Current(p)'
                                                        \/ p \in replaced /\ target'[u] = Own(p))
      BY <1>1 DEF Aimed, IsOf, Own
    <2>1. CASE u = r
      BY <1>5, <1>6, <1>7, <2>1
    <2>2. CASE u # r
      <3>1. target'[u] = target[u] /\ object[target[u]] # NoRun
        BY <1>5, <2>2 DEF Aimed
      <3>2. PICK p \in Run : InMap(p) /\ IsOf(p, target[u])
        BY <1>5, <2>2 DEF Aimed
      <3>3. p # r /\ target[u] \in Run \X Origin
        BY <1>3, <3>2, IsOfFacts
      <3>. QED
        BY <1>6, <1>7, <3>1, <3>2, <3>3 DEF IsOf
    <2>. QED
      BY <2>1, <2>2
  <1>11. r \in Undivided => sent[r] = 0
    <2>1. r \in Undivided => ~(sent[r] > 0)
      BY <1>1 DEF Records
    <2>2. sent[r] \in Nat
      BY DEF TypeOK
    <2>. QED
      BY <2>1, <2>2
  <1>12. RunSteps'
    <2> SUFFICES ASSUME NEW p \in Run
                 PROVE  /\ at'[p] \in {"idle", "ended"} \cup Staging
                        /\ runs'[p] = "own" => at'[p] # "idle"
                        /\ at'[p] # "idle" =>
                             /\ InMap(p)' /\ object'[Own(p)] # NoRun
                             /\ Own(p) = Current(p)' \/ p \in replaced
                        /\ at'[p] = "idle" => saving'[p] = "no"
                        /\ p \in Undivided /\ at'[p] \in Staging =>
                             /\ Value(p)'.status \in {"running", "interrupted"}
                             /\ Value(p)'.approval = "none"
                             /\ sent[p] = 0
      BY <1>1 DEF RunSteps, IsOf, Own, Undivided
    <2>1. CASE p = r
      BY <1>5, <1>6, <1>7, <1>11, <2>1 DEF Staging, NewRun
    <2>2. CASE p # r
      <3>1. /\ at'[p] = at[p] /\ saving'[p] = saving[p] /\ runs'[p] = runs[p]
            /\ Own(p) \in Run \X Origin /\ Own(p) # Own(r)
        BY <1>1, <1>5, <2>2, TaskFacts DEF TypeOK, Own, Origin
      <3>2. at[p] \in Staging => InMap(p)
        BY DEF RunSteps, Staging
      <3>. QED
        BY <1>6, <1>7, <1>8, <2>2, <3>1, <3>2 DEF RunSteps, IsOf
    <2>. QED
      BY <2>1, <2>2
  <1>13. RequestSteps'
    <2>1. \A q \in Request : /\ at'[q] = at[q] /\ saving'[q] = saving[q]
                             /\ target'[q] = target[q]
      BY <1>2, <1>5, TaskFacts
    <2>2. ASSUME NEW q \in Request, NEW p \in Undivided, at[q] \in Deciding,
                 target[q] = Current(p)'
          PROVE  p # r /\ InMap(p) /\ target[q] = Current(p)
      <3>1. PICK u \in Run : InMap(u) /\ IsOf(u, target[q])
        BY <2>2, TaskFacts DEF Aimed, Deciding
      <3>2. u = p
        BY <3>1, <2>2, IsOfFacts, CurrentFacts, <1>7 DEF Undivided, Own
      <3>. QED
        BY <1>3, <1>7, <2>2, <3>1, <3>2
    <2>3. Undivided' = Undivided
      BY <1>1 DEF Undivided
    <2>. QED
      BY <1>1, <1>8, <2>1, <2>2, <2>3 DEF RequestSteps, Undivided
  <1>14. Records'
    <2> SUFFICES ASSUME NEW p \in Run
                 PROVE  /\ InMap(p)' => Value(p)' # NoRun
                        /\ object'[<<p, "loaded">>] # NoRun => file[p] # NoRun
                        /\ p \in Undivided =>
                             /\ InMap(p)' /\ Settled(file[p]) => Value(p)' = file[p]
                             /\ sent[p] > 0 => /\ file[p] # NoRun
                                               /\ file[p].approval = "approved"
                                               /\ file[p].status # "awaiting_approval"
                             /\ sent[p] > 0 /\ InMap(p)' =>
                                  /\ Value(p)'.approval = "approved"
                                  /\ Value(p)'.status # "awaiting_approval"
      BY <1>1 DEF Records, Settled, Undivided
    <2>1. object'[<<p, "loaded">>] = object[<<p, "loaded">>]
      BY <1>6 DEF Own, Origin
    <2>2. CASE p = r
      BY <1>1, <1>6, <1>7, <1>11, <2>1, <2>2 DEF Records, Settled
    <2>3. CASE p # r
      BY <1>7, <1>8, <2>1, <2>3 DEF Records
    <2>. QED
      BY <2>2, <2>3
  <1>15. FileCatchesUp'
    <2> SUFFICES ASSUME NEW p \in Run, InMap(p)',
                        \A u \in Task : saving'[u] = "file" => target'[u][1] # p
                 PROVE  \/ file[p] = Value(p)'
                        \/ p \in replaced /\ file[p] = object'[Own(p)]
      BY <1>1 DEF FileCatchesUp, InMap, Value
    <2>1. p # r
      BY <1>2, <1>5 DEF Own
    <2>2. \A u \in Task : saving[u] = "file" => target[u][1] # p
      BY <1>1, <1>5 DEF RunSteps
    <2>3. object'[Own(p)] = object[Own(p)]
      BY <1>6, <2>1 DEF Own, Origin
    <2>. QED
      BY <1>7, <1>8, <2>1, <2>2, <2>3 DEF FileCatchesUp, InMap, Value
  <1>16. RunningIsDriven'
    <2> SUFFICES ASSUME NEW p \in Run, InMap(p)', Value(p)'.status = "running"
                 PROVE  Busy(p)'
      BY DEF RunningIsDriven, InMap, Value
    <2>1. CASE p = r
      BY <1>1, <1>5, <2>1 DEF Busy, TypeOK
    <2>2. CASE p # r
      <3>1. Busy(p)
        BY <1>7, <1>8, <2>2 DEF RunningIsDriven, InMap, Value
      <3>2. runs'[p] = runs[p] /\ at'[p] = at[p] /\ at'[Boot] = at[Boot]
            /\ todo' = todo
        BY <1>1, <1>2, <1>5, <2>2, TaskFacts DEF TypeOK
      <3>3. \A q \in Request : at'[q] = at[q] /\ target'[q] = target[q]
        BY <1>2, <1>5, TaskFacts
      <3>. QED
        BY <1>7, <2>2, <3>1, <3>2, <3>3 DEF Busy
    <2>. QED
      BY <2>1, <2>2
  <1>17. SentOnceUndivided'
    BY <1>1 DEF SentOnceUndivided, Undivided
  <1>. QED
    BY <1>4, <1>9, <1>10, <1>12, <1>13, <1>14, <1>15, <1>16, <1>17

\* A run in progress that is saved with value v and goes on, or ends.
LEMMA StageSave ==
    ASSUME WorkflowInv, NEW r \in Run, at[r] \in Staging, saving[r] = "no",
           NEW v \in Object, NEW step \in Staging \cup {"ended"},
           v.status = "running" => step # "ended",
           step # "ended" => v = object[Own(r)],
           SaveAs(r, Own(r), v, step),
           UNCHANGED <<runs, inFlight, file, index, seen, todo, sent, replaced,
                       restarts>>
    PROVE  WorkflowInv'
  <1> USE DEF WorkflowInv
  <1>1. /\ r \in Task /\ r \notin Request /\ r # Boot
        /\ InMap(r) /\ IsOf(r, Own(r)) /\ step \in Steps
    BY TaskFacts DEF RunSteps, Staging, Steps
  <1>2. r \in Undivided => /\ Own(r) = Current(r) /\ ~Settled(Value(r))
                           /\ Value(r).status \in {"running", "interrupted"}
                           /\ Value(r).approval = "none"
                           /\ sent[r] = 0
    BY <1>1, IsOfFacts DEF RunSteps, Settled
  <1>3. inFlight' \subseteq Run /\ todo' \subseteq todo
    BY DEF TypeOK
  <1>4. /\ TypeOK' /\ BootFirst' /\ Aimed' /\ Records' /\ FileCatchesUp'
        /\ SentOnceUndivided'
        /\ Value(r)' = IF Own(r) = Current(r) THEN v ELSE Value(r)
        /\ \A p \in Run : /\ Current(p)' = Current(p)
                          /\ p # r /\ InMap(p) => Value(p)' = Value(p)
                          /\ object[Own(p)] # NoRun => object'[Own(p)] # NoRun
        /\ \A u \in Task : u # r => /\ at'[u] = at[u]
                                    /\ saving'[u] = saving[u]
                                    /\ target'[u] = target[u]
        /\ at'[r] = step
    BY <1>1, <1>2, <1>3, SaveKeeps
  <1>5. RunSteps'
    <2>1. /\ \A p \in Run : /\ IsOf(p, Own(p))' = IsOf(p, Own(p))
                            /\ InMap(p)' = InMap(p)
          /\ Undivided' = Undivided
      BY <1>4 DEF IsOf, Own, InMap, Undivided
    <2> SUFFICES ASSUME NEW p \in Run
                 PROVE  /\ at'[p] \in {"idle", "ended"} \cup Staging
                        /\ runs[p] = "own" => at'[p] # "idle"
                        /\ at'[p] # "idle" =>
                             /\ InMap(p) /\ object'[Own(p)] # NoRun
                             /\ IsOf(p, Own(p))
                        /\ at'[p] = "idle" => saving'[p] = "no"
                        /\ p \in Undivided /\ at'[p] \in Staging =>
                             /\ Value(p)'.status \in {"running", "interrupted"}
                             /\ Value(p)'.approval = "none"
                             /\ sent[p] = 0
      BY <2>1 DEF RunSteps, Own
    <2>2. CASE p = r
      <3>1. object[Own(r)] # NoRun
        BY DEF RunSteps, Staging
      <3>2. r \in Undivided /\ step \in Staging => Value(r)' = Value(r)
        BY <1>2, <1>4 DEF Value, Staging
      <3>. QED
        BY <1>1, <1>2, <1>4, <2>2, <3>1, <3>2 DEF Staging
    <2>3. CASE p # r
      <3>1. at[p] \in Staging => InMap(p)
        BY DEF RunSteps, Staging
      <3>2. at'[p] = at[p] /\ saving'[p] = saving[p]
        BY <1>4, <2>3, TaskFacts
      <3>. QED
        BY <1>4, <2>3, <3>1, <3>2 DEF RunSteps
    <2>. QED
      BY <2>2, <2>3
  <1>6. RequestSteps'
    <2>1. ASSUME NEW q \in Request, NEW p \in Undivided, at[q] \in Deciding,
                 target[q] = Current(p)
          PROVE  p # r /\ InMap(p)
      <3>1. p # r
        BY <1>2, <2>1 DEF RequestSteps
      <3>2. PICK u \in Run : InMap(u) /\ IsOf(u, target[q])
        BY <2>1, TaskFacts DEF Aimed, Deciding
      <3>. QED
        BY <2>1, <3>1, <3>2, IsOfFacts, CurrentFacts DEF Undivided
    <2>2. \A q \in Request : /\ at'[q] = at[q] /\ saving'[q] = saving[q]
                             /\ target'[q] = target[q]
      BY <1>1, <1>4, TaskFacts
    <2>3. Undivided' = Undivided
      BY DEF Undivided
    <2>. QED
      BY <1>4, <2>1, <2>2, <2>3 DEF RequestSteps, Undivided
  <1>7. RunningIsDriven'
    <2> SUFFICES ASSUME NEW p \in Run, InMap(p), Value(p)'.status = "running"
                 PROVE  Busy(p)'
      BY DEF RunningIsDriven, InMap, Value
    <2>1. CASE p = r /\ Own(r) = Current(r)
      <3>1. runs[r] = "own"
        BY <2>1 DEF Own, Current
      <3>. QED
        BY <1>4, <2>1, <3>1 DEF Busy, Staging
    <2>2. CASE ~(p = r /\ Own(r) = Current(r))
      <3>1. Value(p)' = Value(p)
        BY <1>4, <2>2
      <3>2. Busy(p)
        BY <3>1 DEF RunningIsDriven, InMap, Value
      <3>3. runs[p] = "own" => at'[p] = at[p]
        BY <1>4, <2>2, TaskFacts DEF Own, Current
      <3>. QED
        BY <1>1, <1>4, <3>2, <3>3, TaskFacts DEF Busy
    <2>. QED
      BY <2>1, <2>2
  <1>. QED
    BY <1>4, <1>5, <1>6, <1>7

LEMMA StageStep ==
    ASSUME WorkflowInv, NEW r \in Run, Stage(r)
    PROVE  WorkflowInv'
  <1>1. /\ at[r] \in Staging /\ saving[r] = "no"
        /\ UNCHANGED <<runs, inFlight, file, index, seen, todo, sent, replaced,
                       restarts>>
    BY DEF Stage, Advance, FailRun, AwaitApproval, Ready, NextStep, Staging
  <1>2. object[Own(r)] \in Object
    BY <1>1, ObjectType DEF WorkflowInv, RunSteps, Staging
  <1>3. CASE Advance(r)
    <2>1. NextStep[at[r]] \in Staging
      BY <1>3 DEF Advance, NextStep, Staging
    <2>2. SaveAs(r, Own(r), object[Own(r)], NextStep[at[r]])
      BY <1>3 DEF Advance
    <2>3. NextStep[at[r]] # "ended"
      BY <2>1 DEF Staging
    <2>. QED
      BY <1>1, <1>2, <2>1, <2>2, <2>3, StageSave
  <1>4. ASSUME NEW status \in {"failed", "awaiting_approval"},
               SaveAs(r, Own(r), WithStatus(Own(r), status), "ended")
        PROVE  WorkflowInv'
    <2>1. /\ WithStatus(Own(r), status) \in Object
          /\ WithStatus(Own(r), status).status # "running"
      BY <1>2, ObjectFields DEF WithStatus, Statuses
    <2>. QED
      BY <1>1, <1>4, <2>1, StageSave
  <1>. QED
    BY <1>3, <1>4 DEF Stage, FailRun, AwaitApproval

-----------------------------------------------------------------------------
(* approve, reject and what follows an approval.                           *)

\* A request saves what it makes of a run, and is done or goes on with an
\* approved one.
LEMMA RequestSave ==
    ASSUME WorkflowInv, NEW q \in Request, saving[q] = "no",
           NEW r \in Run, InMap(r), NEW o, IsOf(r, o),
           at[q] = "idle" \/ target[q] = o,
           NEW v \in Object, NEW step \in {"idle", "approved"},
           SaveAs(q, o, v, step),
           UNCHANGED <<runs, file, index, seen, todo, sent, replaced, restarts>>,
           inFlight' \subseteq Run,
           r \in Undivided =>
             /\ ~Settled(Value(r)) /\ at[r] \notin Staging
             /\ sent[r] > 0 => v.approval = "approved"
                               /\ v.status # "awaiting_approval"
             /\ \A p \in Request :
                  p # q => ~(at[p] \in Deciding /\ target[p] = Current(r)),
           step = "idle" => v.status # "running",
           step = "approved" =>
             /\ o = Current(r)
             /\ v.status = "running" /\ v.approval = "approved"
             /\ r \in Undivided => sent[r] = 0
    PROVE  WorkflowInv'
  <1> USE DEF WorkflowInv
  <1>1. q \in Task /\ q \notin Run /\ q # Boot /\ step \in Steps
    BY TaskFacts DEF Steps
  <1>2. todo' \subseteq todo
    OBVIOUS
  <1>3. /\ TypeOK' /\ BootFirst' /\ Aimed' /\ Records' /\ FileCatchesUp'
        /\ SentOnceUndivided'
        /\ Value(r)' = IF o = Current(r) THEN v ELSE Value(r)
        /\ r \in Undivided => o = Current(r)
        /\ o[1] = r
        /\ \A p \in Run : /\ Current(p)' = Current(p)
                          /\ p # r /\ InMap(p) => Value(p)' = Value(p)
                          /\ object[Own(p)] # NoRun => object'[Own(p)] # NoRun
        /\ \A u \in Task : u # q => /\ at'[u] = at[u]
                                    /\ saving'[u] = saving[u]
                                    /\ target'[u] = target[u]
        /\ at'[q] = step /\ target'[q] = o /\ saving'[q] = "file"
    BY <1>1, <1>2, SaveKeeps
  <1>4. /\ \A p \in Run : /\ IsOf(p, Own(p))' = IsOf(p, Own(p))
                          /\ InMap(p)' = InMap(p)
        /\ Undivided' = Undivided
    BY <1>3 DEF IsOf, Own, InMap, Undivided
  <1>5. \A u \in Run : at'[u] = at[u] /\ saving'[u] = saving[u]
    BY <1>1, <1>3, TaskFacts
  <1>6. RunSteps'
    <2> SUFFICES ASSUME NEW p \in Run
                 PROVE  /\ at[p] \in {"idle", "ended"} \cup Staging
                        /\ runs[p] = "own" => at[p] # "idle"
                        /\ at[p] # "idle" =>
                             /\ InMap(p) /\ object'[Own(p)] # NoRun
                             /\ IsOf(p, Own(p))
                        /\ at[p] = "idle" => saving[p] = "no"
                        /\ p \in Undivided /\ at[p] \in Staging =>
                             /\ Value(p)'.status \in {"running", "interrupted"}
                             /\ Value(p)'.approval = "none"
                             /\ sent[p] = 0
      BY <1>4, <1>5 DEF RunSteps, Own
    <2>1. p \in Undivided /\ at[p] \in Staging => p # r /\ InMap(p)
      BY DEF RunSteps, Staging
    <2>. QED
      BY <1>3, <2>1 DEF RunSteps
  <1>7. RequestSteps'
    <2>1. \A p \in Request : /\ p \in Task
                             /\ p # q => /\ at'[p] = at[p] /\ target'[p] = target[p]
                                         /\ saving'[p] = saving[p]
      BY <1>3, TaskFacts
    <2>2. ASSUME NEW p \in Request
          PROVE  /\ at'[p] \in {"idle"} \cup Deciding
                 /\ at'[p] \in Deciding \ {"approved"} => saving'[p] = "no"
      BY <1>3, <2>1 DEF RequestSteps, Deciding
    <2>3. ASSUME NEW p \in Request, NEW u \in Undivided,
                 at'[p] \in Deciding, target'[p] = Current(u)
          PROVE  \/ p = q /\ u = r /\ step = "approved"
                 \/ p # q /\ u # r /\ InMap(u) /\ at[p] \in Deciding
                    /\ target[p] = Current(u)
      <3>1. CASE p = q
        BY <1>3, <2>3, <3>1, CurrentFacts DEF Deciding, Undivided
      <3>2. CASE p # q
        <4>1. at[p] \in Deciding /\ target[p] = Current(u)
          BY <2>1, <2>3, <3>2
        <4>2. PICK w \in Run : InMap(w) /\ IsOf(w, target[p])
          BY <2>1, <4>1 DEF Aimed, Deciding
        <4>3. w = u
          BY <4>1, <4>2, IsOfFacts, CurrentFacts DEF Undivided
        <4>. QED
          BY <3>2, <4>1, <4>2, <4>3
      <3>. QED
        BY <3>1, <3>2
    <2>4. ASSUME NEW p \in Request, NEW u \in Undivided,
                 at'[p] \in Deciding, target'[p] = Current(u)
          PROVE  /\ Value(u)'.status \in {"running", "interrupted"}
                 /\ Value(u)'.approval = "approved"
                 /\ at'[p] \in {"approved", "executing"} => sent[u] = 0
                 /\ saving'[p] # "file" => /\ file[u] # NoRun
                                           /\ file[u].approval = "approved"
                                           /\ file[u].status # "awaiting_approval"
      <3>1. CASE p = q /\ u = r /\ step = "approved"
        BY <1>3, <3>1
      <3>2. CASE p # q /\ u # r /\ InMap(u) /\ at[p] \in Deciding
                 /\ target[p] = Current(u)
        <4>1. Value(u)' = Value(u)
          BY <1>3, <3>2 DEF Undivided
        <4>. QED
          BY <2>1, <3>2, <4>1 DEF RequestSteps
      <3>. QED
        BY <2>3, <2>4, <3>1, <3>2
    <2>5. ASSUME NEW p \in Request, NEW p2 \in Request, NEW u \in Undivided,
                 at'[p] \in Deciding, at'[p2] \in Deciding,
                 target'[p] = Current(u), target'[p2] = Current(u)
          PROVE  p = p2
      BY <2>3, <2>5 DEF RequestSteps
    <2>. QED
      BY <1>3, <1>4, <2>2, <2>4, <2>5 DEF RequestSteps, Undivided
  <1>8. RunningIsDriven'
    <2> SUFFICES ASSUME NEW p \in Run, InMap(p), Value(p)'.status = "running"
                 PROVE  Busy(p)'
      BY DEF RunningIsDriven, InMap, Value
    <2>1. CASE p = r /\ o = Current(r)
      <3>1. step = "approved"
        BY <1>3, <2>1
      <3>. QED
        BY <1>3, <2>1, <3>1 DEF Busy
    <2>2. CASE ~(p = r /\ o = Current(r))
      <3>1. Value(p)' = Value(p)
        BY <1>3, <2>2
      <3>2. Busy(p)
        BY <3>1 DEF RunningIsDriven, InMap, Value
      <3>3. at[q] # "idle" => target[q] # Current(p)
        BY <1>3, <2>2, CurrentFacts
      <3>. QED
        BY <1>1, <1>3, <1>5, <3>2, <3>3, TaskFacts DEF Busy
    <2>. QED
      BY <2>1, <2>2
  <1>. QED
    BY <1>3, <1>6, <1>7, <1>8

\* A decision closes the run, leaves it waiting, or approves it and goes on.
LEMMA DecideStep ==
    ASSUME WorkflowInv, NEW q \in Request, NEW r \in Run,
           NEW v \in Object, NEW step \in {"idle", "approved"},
           step = "idle" => v.status # "running",
           step = "approved" => v.status = "running" /\ v.approval = "approved",
           Decide(q, r, v, step)
    PROVE  WorkflowInv'
  <1> USE DEF WorkflowInv
  <1>1. /\ at[q] = "idle" /\ saving[q] = "no"
        /\ InMap(r) /\ Value(r).status = "awaiting_approval"
        /\ SaveAs(q, Current(r), v, step)
        /\ UNCHANGED <<runs, inFlight, file, index, seen, todo, sent, replaced,
                       restarts>>
    BY DEF Decide, Ready, AwaitsDecision, InMap, Value
  <1>2. IsOf(r, Current(r)) /\ inFlight' \subseteq Run
    BY <1>1 DEF IsOf, TypeOK
  <1>3. ~Settled(Value(r))
    BY <1>1 DEF Settled
  <1>4. r \in Undivided => sent[r] = 0
    <2>1. r \in Undivided => ~(sent[r] > 0)
      BY <1>1 DEF Records
    <2>2. sent[r] \in Nat
      BY DEF TypeOK
    <2>. QED
      BY <2>1, <2>2
  <1>5. r \in Undivided => at[r] \notin Staging
    BY <1>1 DEF RunSteps
  <1>6. r \in Undivided =>
          \A p \in Request : ~(at[p] \in Deciding /\ target[p] = Current(r))
    BY <1>1 DEF RequestSteps
  <1> HIDE DEF WorkflowInv
  <1>. QED
    BY <1>1, <1>2, <1>3, <1>4, <1>5, <1>6, RequestSave

LEMMA DecisionStep ==
    ASSUME WorkflowInv, NEW q \in Request, NEW r \in Run,
           Reject(q, r) \/ Mismatch(q, r) \/ Stale(q, r) \/ Approve(q, r)
    PROVE  WorkflowInv'
  <1>1. /\ InMap(r) /\ Value(r).status = "awaiting_approval"
        /\ Value(r) = object[Current(r)]
    BY DEF Reject, Mismatch, Stale, Approve, Decide, AwaitsDecision, InMap,
           Value
  <1>2. Value(r) \in Object
    BY <1>1, ValueType DEF WorkflowInv
  <1>3. CASE Reject(q, r)
    <2>1. /\ Decided(r, "user_rejected", "rejected") \in Object
          /\ Decided(r, "user_rejected", "rejected").status = "user_rejected"
      BY <1>2, DecidedFields DEF Statuses
    <2>. QED
      BY <1>3, <2>1, DecideStep DEF Reject
  <1>4. CASE Mismatch(q, r)
    BY <1>1, <1>2, <1>4, DecideStep DEF Mismatch
  <1>5. CASE Stale(q, r)
    <2>1. /\ WithStatus(Current(r), "failed") \in Object
          /\ WithStatus(Current(r), "failed").status = "failed"
      BY <1>1, <1>2, ObjectFields DEF WithStatus, Statuses
    <2>. QED
      BY <1>5, <2>1, DecideStep DEF Stale
  <1>6. CASE Approve(q, r)
    <2>1. /\ Decided(r, "running", "approved") \in Object
          /\ Decided(r, "running", "approved").status = "running"
          /\ Decided(r, "running", "approved").approval = "approved"
      BY <1>2, DecidedFields DEF Statuses
    <2>. QED
      BY <1>6, <2>1, DecideStep DEF Approve
  <1>. QED
    BY <1>3, <1>4, <1>5, <1>6

\* The run a deciding request works on.
LEMMA DecidingFacts ==
    ASSUME WorkflowInv, NEW q \in Request, at[q] \in Deciding
    PROVE  /\ RunOf(q) \in Run /\ InMap(RunOf(q))
           /\ IsOf(RunOf(q), target[q]) /\ object[target[q]] \in Object
           /\ RunOf(q) \in Undivided =>
                /\ target[q] = Current(RunOf(q))
                /\ Value(RunOf(q)).status \in {"running", "interrupted"}
                /\ Value(RunOf(q)).approval = "approved"
                /\ at[q] \in {"approved", "executing"} => sent[RunOf(q)] = 0
                /\ saving[q] # "file" =>
                     /\ file[RunOf(q)] # NoRun
                     /\ file[RunOf(q)].approval = "approved"
                     /\ file[RunOf(q)].status # "awaiting_approval"
                /\ at[RunOf(q)] \notin Staging
                /\ \A p \in Request :
                     at[p] \in Deciding /\ target[p] = Current(RunOf(q)) => p = q
  <1>1. at[q] # "idle" /\ q \in Task
    BY TaskFacts DEF Deciding
  <1>2. PICK r \in Run : InMap(r) /\ IsOf(r, target[q])
    BY <1>1 DEF WorkflowInv, Aimed
  <1>3. RunOf(q) = r
    BY <1>2, IsOfFacts DEF WorkflowInv, RunOf
  <1>4. object[target[q]] \in Object
    BY <1>1, <1>2, ObjectType DEF WorkflowInv, Aimed
  <1>5. r \in Undivided => target[q] = Current(r)
    BY <1>2, IsOfFacts DEF WorkflowInv
  <1>6. r \in Undivided => at[r] \notin Staging
    BY <1>5 DEF WorkflowInv, RequestSteps, RunSteps
  <1>. QED
    BY <1>2, <1>3, <1>4, <1>5, <1>6 DEF WorkflowInv, RequestSteps

\* The request moves on without a save: from its saved approval to the
\* pipeline, and to the pipeline's answer.
LEMMA CarryOn ==
    ASSUME WorkflowInv, NEW q \in Request, at[q] \in {"approved", "executing"},
           saving[q] = "no",
           NEW step \in Deciding \ {"approved"}, Go(q, step),
           NEW n \in {0, 1},
           step = "executing" => n = 0,
           sent' = [sent EXCEPT ![RunOf(q)] = @ + n],
           inFlight' \subseteq Run,
           UNCHANGED <<runs, object, file, index, target, saving, seen, todo,
                       replaced, restarts>>
    PROVE  WorkflowInv'
  <1> DEFINE r == RunOf(q)
  <1>1. /\ at[q] \in Deciding /\ r \in Run /\ InMap(r)
        /\ r \in Undivided =>
             /\ target[q] = Current(r)
             /\ Value(r).status \in {"running", "interrupted"}
             /\ Value(r).approval = "approved"
             /\ sent[r] = 0
             /\ file[r] # NoRun
             /\ file[r].approval = "approved"
             /\ file[r].status # "awaiting_approval"
             /\ at[r] \notin Staging
             /\ \A p \in Request :
                  at[p] \in Deciding /\ target[p] = Current(r) => p = q
    BY DecidingFacts DEF Deciding
  <1>2. sent' = [sent EXCEPT ![r] = sent[r] + n]
    OBVIOUS
  <1> HIDE DEF r
  <1> USE DEF WorkflowInv
  <1>3. q \in Task /\ q \notin Run /\ q # Boot
    BY TaskFacts
  <1>4. /\ \A t \in Task : t # q => at'[t] = at[t]
        /\ at'[q] = step /\ step \in Steps
        /\ sent'[r] = sent[r] + n /\ \A p \in Run : p # r => sent'[p] = sent[p]
    BY <1>1, <1>2, <1>3 DEF Go, TypeOK, Deciding, Steps
  <1>5. TypeOK'
    <2>1. at' \in [Task -> Steps]
      BY <1>4 DEF TypeOK, Go
    <2>2. sent[r] + n \in Nat
      BY <1>1 DEF TypeOK
    <2>3. sent' \in [Run -> Nat]
      BY <1>2, <2>2 DEF TypeOK
    <2>. QED
      BY <2>1, <2>3 DEF TypeOK
  <1>6. BootFirst'
    BY <1>3, <1>4, TaskFacts DEF BootFirst, InMap
  <1>7. Aimed'
    BY <1>1, <1>3, <1>4, TaskFacts DEF Aimed, InMap, Current, IsOf, Own, Deciding
  <1>8. \A p \in Undivided : at[p] \in Staging => sent'[p] = sent[p]
    BY <1>1, <1>4 DEF Undivided
  <1>9. RunSteps'
    BY <1>3, <1>4, <1>8, TaskFacts
       DEF RunSteps, Value, Current, IsOf, Own, InMap, Undivided
  <1>10. RequestSteps'
    <2>1. \A p \in Request : /\ at'[p] \in Deciding <=> at[p] \in Deciding
                             /\ p # q => at'[p] = at[p]
                             /\ p \in Task
      BY <1>1, <1>4, TaskFacts
    <2>2. \A u \in Run : Current(u) = Current(r) => u = r
      BY <1>1, CurrentFacts
    <2>3. ASSUME NEW p \in Request
          PROVE  /\ at'[p] \in {"idle"} \cup Deciding
                 /\ at'[p] \in Deciding \ {"approved"} => saving[p] = "no"
      BY <1>4, <2>1 DEF RequestSteps
    <2>4. ASSUME NEW p \in Request, NEW u \in Undivided,
                 at'[p] \in Deciding, target[p] = Current(u)
          PROVE  /\ Value(u).status \in {"running", "interrupted"}
                 /\ Value(u).approval = "approved"
                 /\ at'[p] \in {"approved", "executing"} => sent'[u] = 0
                 /\ saving[p] # "file" => /\ file[u] # NoRun
                                          /\ file[u].approval = "approved"
                                          /\ file[u].status # "awaiting_approval"
      <3>1. CASE p = q
        <4>1. u = r
          BY <2>4, <3>1, CurrentFacts DEF Undivided, r, RunOf
        <4>. QED
          BY <1>1, <1>4, <2>4, <3>1, <4>1 DEF Deciding
      <3>2. CASE p # q
        <4>1. u # r /\ at[p] \in Deciding /\ at'[p] = at[p]
          BY <1>1, <2>1, <2>4, <3>2
        <4>. QED
          BY <1>4, <2>4, <4>1 DEF RequestSteps, Undivided
      <3>. QED
        BY <3>1, <3>2
    <2>5. ASSUME NEW p \in Request, NEW p2 \in Request, NEW u \in Undivided,
                 at'[p] \in Deciding, at'[p2] \in Deciding,
                 target[p] = Current(u), target[p2] = Current(u)
          PROVE  p = p2
      BY <2>1, <2>5 DEF RequestSteps
    <2>. QED
      BY <2>3, <2>4, <2>5 DEF RequestSteps, Value, Current, Undivided
  <1>11. Records'
    <2> SUFFICES ASSUME NEW p \in Run
                 PROVE  /\ InMap(p) => Value(p) # NoRun
                        /\ object[<<p, "loaded">>] # NoRun => file[p] # NoRun
                        /\ p \in Undivided =>
                             /\ InMap(p) /\ Settled(file[p]) => Value(p) = file[p]
                             /\ sent'[p] > 0 => /\ file[p] # NoRun
                                                /\ file[p].approval = "approved"
                                                /\ file[p].status # "awaiting_approval"
                             /\ sent'[p] > 0 /\ InMap(p) =>
                                  /\ Value(p).approval = "approved"
                                  /\ Value(p).status # "awaiting_approval"
      BY DEF Records, Settled, InMap, Value, Current, Undivided
    <2>1. CASE p = r
      BY <1>1, <2>1 DEF Records
    <2>2. CASE p # r
      BY <1>4, <2>2 DEF Records
    <2>. QED
      BY <2>1, <2>2
  <1>12. FileCatchesUp'
    BY DEF FileCatchesUp, Current, Own
  <1>13. RunningIsDriven'
    <2> SUFFICES ASSUME NEW p \in Run, Busy(p) PROVE Busy(p)'
      BY DEF RunningIsDriven, Current
    <2>1. at'[q] # "idle" /\ at'[Boot] = at[Boot] /\ at'[p] = at[p]
      BY <1>3, <1>4, TaskFacts DEF Deciding
    <2>2. \A u \in Request : at[u] # "idle" => at'[u] # "idle"
      BY <1>4, <2>1, TaskFacts
    <2>3. Current(p)' = Current(p)
      BY DEF Current
    <2>. QED
      BY <2>1, <2>2, <2>3 DEF Busy
  <1>14. SentOnceUndivided'
    <2>1. sent[r] \in Nat
      BY <1>1 DEF TypeOK
    <2>. QED
      BY <1>1, <1>4, <2>1 DEF SentOnceUndivided, Undivided
  <1>. QED
    BY <1>5, <1>6, <1>7, <1>9, <1>10, <1>11, <1>12, <1>13, <1>14

LEMMA CarryStep ==
    ASSUME WorkflowInv, NEW q \in Request, Execute(q) \/ PipelineActs(q)
    PROVE  WorkflowInv'
  <1>1. at[q] \in {"approved", "executing"} /\ saving[q] = "no"
    BY DEF Execute, CanExecute, Ready, PipelineActs, WorkflowInv, RequestSteps,
           Deciding
  <1>2. RunOf(q) \in Run /\ sent \in [Run -> Nat] /\ inFlight \subseteq Run
    BY <1>1, DecidingFacts DEF WorkflowInv, TypeOK, Deciding
  <1>3. sent[RunOf(q)] + 0 = sent[RunOf(q)]
    BY <1>2
  <1>4. UNCHANGED sent => sent' = [sent EXCEPT ![RunOf(q)] = @ + 0]
    BY <1>2, <1>3
  <1>5. CASE Execute(q)
    <2>1. /\ Go(q, "executing")
          /\ inFlight' = inFlight \cup {RunOf(q)} /\ UNCHANGED sent
          /\ UNCHANGED <<runs, object, file, index, target, saving, seen, todo,
                         replaced, restarts>>
      BY <1>5 DEF Execute
    <2>. QED
      BY <1>1, <1>2, <1>4, <2>1, CarryOn DEF Deciding
  <1>6. CASE PipelineActs(q)
    <2>1. PICK step \in {"succeeded", "refused"}, n \in {0, 1} :
            Go(q, step) /\ sent' = [sent EXCEPT ![RunOf(q)] = @ + n]
      BY <1>4, <1>6 DEF PipelineActs
    <2>2. UNCHANGED <<runs, object, inFlight, file, index, target, saving, seen,
                      todo, replaced, restarts>>
      BY <1>6 DEF PipelineActs
    <2>. QED
      BY <1>1, <1>2, <2>1, <2>2, CarryOn DEF Deciding
  <1>. QED
    BY <1>5, <1>6

\* The outcome closes the run; the request is done.
LEMMA RecordStep ==
    ASSUME WorkflowInv, NEW q \in Request, Record(q)
    PROVE  WorkflowInv'
  <1>1. at[q] \in Deciding \ {"approved"}
    BY DEF Record, Deciding
  <1>2. PICK r \in Run : r = RunOf(q)
    BY <1>1, DecidingFacts
  <1>3. /\ InMap(r) /\ IsOf(r, target[q]) /\ object[target[q]] \in Object
        /\ r \in Undivided =>
             /\ target[q] = Current(r)
             /\ Value(r).status \in {"running", "interrupted"}
             /\ Value(r).approval = "approved"
             /\ at[r] \notin Staging
             /\ \A p \in Request :
                  at[p] \in Deciding /\ target[p] = Current(r) => p = q
    BY <1>1, <1>2, DecidingFacts
  <1>4. PICK out \in {"completed", "failed"} : out = Outcome(at[q] = "succeeded")
    BY DEF Outcome
  <1>5. PICK v \in Object : v = WithStatus(target[q], out)
    BY <1>3, ObjectFields DEF WithStatus, Statuses
  <1>6. v.status = out /\ v.approval = object[target[q]].approval
    BY <1>3, <1>5, ObjectFields DEF WithStatus, Statuses
  <1>7. /\ SaveAs(q, target[q], v, "idle")
        /\ UNCHANGED <<runs, file, index, seen, todo, sent, replaced, restarts>>
        /\ inFlight' \subseteq Run
    BY <1>2, <1>4, <1>5 DEF Record, WorkflowInv, TypeOK
  <1>8. saving[q] = "no"
    BY <1>1 DEF WorkflowInv, RequestSteps
  <1>9. r \in Undivided =>
          /\ ~Settled(Value(r))
          /\ v.approval = "approved" /\ v.status # "awaiting_approval"
    BY <1>3, <1>4, <1>6 DEF Settled, Value
  <1>10. v.status # "running"
    BY <1>4, <1>6
  <1>. QED
    BY <1>3, <1>7, <1>8, <1>9, <1>10, RequestSave

-----------------------------------------------------------------------------
(* The three steps of a save.                                              *)

LEMMA SaveStep ==
    ASSUME WorkflowInv, NEW t \in Task, Save(t)
    PROVE  WorkflowInv'
  <1> USE DEF WorkflowInv
  <1>1. saving[t] \in {"file", "index", "write"}
    BY DEF Save, WriteFile, ReadIndex, WriteIndex
  <1>2. PICK r \in Run : InMap(r) /\ IsOf(r, target[t])
    BY <1>1 DEF Aimed
  <1>3. /\ target[t][1] = r /\ object[target[t]] \in Object
        /\ r \in Undivided => target[t] = Current(r)
    BY <1>1, <1>2, IsOfFacts, ObjectType DEF Aimed
  <1>4. PICK next \in {"no", "index", "write"} :
          /\ saving' = [saving EXCEPT ![t] = next]
          /\ UNCHANGED <<runs, object, inFlight, at, target, todo, sent,
                         replaced, restarts>>
          /\ next = "index" <=> saving[t] = "file"
    <2>1. CASE WriteFile(t)
      <3>1. /\ saving' = [saving EXCEPT ![t] = "index"]
            /\ saving[t] = "file"
            /\ UNCHANGED <<runs, object, inFlight, at, target, todo, sent,
                           replaced, restarts>>
        BY <2>1 DEF WriteFile
      <3>. QED
        BY <3>1
    <2>2. CASE ReadIndex(t)
      BY <2>2 DEF ReadIndex
    <2>3. CASE WriteIndex(t)
      BY <2>3 DEF WriteIndex
    <2>. QED
      BY <2>1, <2>2, <2>3 DEF Save
  <1>5. \/ /\ saving[t] = "file"
           /\ file' = [file EXCEPT ![r] = object[target[t]]]
        \/ saving[t] # "file" /\ UNCHANGED file
    BY <1>3 DEF Save, WriteFile, ReadIndex, WriteIndex
  <1>6. /\ \A u \in Task : u # t => saving'[u] = saving[u]
        /\ saving'[t] = next
    BY <1>4 DEF TypeOK
  <1>7. /\ \A p \in Run : /\ Current(p)' = Current(p) /\ Value(p)' = Value(p)
                          /\ InMap(p)' = InMap(p)
        /\ Undivided' = Undivided
    BY <1>4 DEF Current, Value, InMap, Undivided
  <1>8. TypeOK'
    <2>1. saving' \in [Task -> {"no", "file", "index", "write"}]
      BY <1>4 DEF TypeOK
    <2>2. file' \in [Run -> Object \cup {NoRun}]
      BY <1>3, <1>5 DEF TypeOK
    <2>3. index' \subseteq Run /\ seen' \in [Task -> SUBSET Run]
      BY <1>3 DEF Save, WriteFile, ReadIndex, WriteIndex, TypeOK
    <2>. QED
      BY <1>4, <2>1, <2>2, <2>3 DEF TypeOK
  <1>9. /\ \A p \in Run : p # r => file'[p] = file[p]
        /\ file'[r] = IF saving[t] = "file" THEN object[target[t]] ELSE file[r]
    BY <1>5 DEF TypeOK
  <1>10. /\ \A p \in Run : file[p] # NoRun => file'[p] # NoRun
         /\ r \in Undivided /\ saving[t] = "file" => file'[r] = Value(r)
    BY <1>3, <1>9 DEF Value
  <1>11. BootFirst'
    <2>1. at[Boot] # "cleaning" => saving'[Boot] = "no"
      BY <1>1, <1>6, TaskFacts DEF BootFirst
    <2>2. \A p \in Run : ~InMap(p) => file'[p] = file[p]
      BY <1>2, <1>9
    <2>3. at[Boot] = "loading" =>
            \A p \in Run : ~InMap(p)' => object[<<p, "loaded">>] \in {NoRun, file'[p]}
      BY <1>7, <2>2 DEF BootFirst
    <2>4. at[Boot] = "cleaning" => \A p \in todo' : InMap(p)'
      BY <1>4, <1>7 DEF BootFirst, TypeOK
    <2>. QED
      BY <1>4, <2>1, <2>3, <2>4 DEF BootFirst
  <1>12. Aimed'
    BY <1>1, <1>4, <1>6 DEF Aimed, InMap, Current, IsOf, Own
  <1>13. RunSteps'
    <2>1. \A p \in Run : at[p] = "idle" => saving'[p] = "no"
      BY <1>1, <1>6, TaskFacts DEF RunSteps
    <2>. QED
      BY <1>4, <1>7, <2>1 DEF RunSteps, IsOf, Own, Undivided
  <1>14. RequestSteps'
    <2>1. ASSUME NEW p \in Request
          PROVE  at[p] \in Deciding \ {"approved"} => saving'[p] = "no"
      BY <1>1, <1>6, TaskFacts DEF RequestSteps
    <2>2. ASSUME NEW p \in Request, NEW u \in Undivided,
                 at[p] \in Deciding, target[p] = Current(u),
                 saving'[p] # "file"
          PROVE  /\ file'[u] # NoRun
                 /\ file'[u].approval = "approved"
                 /\ file'[u].status # "awaiting_approval"
      <3>1. /\ u \in Run /\ Value(u).approval = "approved"
            /\ Value(u).status # "awaiting_approval"
        BY <2>2 DEF RequestSteps, Undivided
      <3>2. CASE u = r /\ saving[t] = "file"
        <4>1. file'[u] = Value(u) /\ Value(u) \in Object
          BY <1>2, <1>10, <2>2, <3>2, ValueType
        <4>. QED
          BY <3>1, <4>1
      <3>3. CASE ~(u = r /\ saving[t] = "file")
        <4>1. file'[u] = file[u]
          BY <1>9, <3>1, <3>3
        <4>2. saving[p] # "file"
          <5>1. CASE p = t
            BY <1>3, <2>2, <3>1, <3>3, <5>1, CurrentFacts
          <5>2. CASE p # t
            BY <1>6, <2>2, <5>2, TaskFacts
          <5>. QED
            BY <5>1, <5>2
        <4>. QED
          BY <2>2, <4>1, <4>2 DEF RequestSteps
      <3>. QED
        BY <3>2, <3>3
    <2>3. /\ \A p \in Request : at[p] \in {"idle"} \cup Deciding
          /\ \A p \in Request, u \in Undivided :
               at[p] \in Deciding /\ target[p] = Current(u) =>
                 /\ Value(u).status \in {"running", "interrupted"}
                 /\ Value(u).approval = "approved"
                 /\ at[p] \in {"approved", "executing"} => sent[u] = 0
      BY DEF RequestSteps
    <2>. QED
      BY <1>4, <1>7, <2>1, <2>2, <2>3 DEF RequestSteps, Undivided
  <1>15. Records'
    <2> SUFFICES ASSUME NEW p \in Run
                 PROVE  /\ InMap(p) => Value(p) # NoRun
                        /\ object[<<p, "loaded">>] # NoRun => file'[p] # NoRun
                        /\ p \in Undivided =>
                             /\ InMap(p) /\ Settled(file'[p]) => Value(p) = file'[p]
                             /\ sent[p] > 0 => /\ file'[p] # NoRun
                                               /\ file'[p].approval = "approved"
                                               /\ file'[p].status # "awaiting_approval"
                             /\ sent[p] > 0 /\ InMap(p) =>
                                  /\ Value(p).approval = "approved"
                                  /\ Value(p).status # "awaiting_approval"
      BY <1>4, <1>7 DEF Records, Settled
    <2>1. /\ InMap(p) => Value(p) # NoRun
          /\ object[<<p, "loaded">>] # NoRun => file'[p] # NoRun
      BY <1>10 DEF Records
    <2>2. CASE file'[p] = file[p]
      BY <2>1, <2>2 DEF Records
    <2>3. CASE p = r /\ saving[t] = "file" /\ p \in Undivided
      BY <1>2, <1>10, <2>1, <2>3 DEF Records
    <2>. QED
      BY <1>9, <2>1, <2>2, <2>3
  <1>16. FileCatchesUp'
    <2> SUFFICES ASSUME NEW p \in Run, InMap(p),
                        \A u \in Task : saving'[u] = "file" => target[u][1] # p
                 PROVE  \/ file'[p] = Value(p)
                        \/ p \in replaced /\ file'[p] = object[Own(p)]
      BY <1>4, <1>7 DEF FileCatchesUp, InMap, Value, Own
    <2>1. CASE saving[t] = "file" /\ p = r
      BY <1>2, <1>9, <2>1 DEF IsOf, Value
    <2>2. CASE ~(saving[t] = "file" /\ p = r)
      <3>1. \A u \in Task : saving[u] = "file" => target[u][1] # p
        BY <1>3, <1>6, <2>2
      <3>. QED
        BY <1>9, <2>2, <3>1 DEF FileCatchesUp, InMap, Value
    <2>. QED
      BY <2>1, <2>2
  <1>17. RunningIsDriven' /\ SentOnceUndivided'
    BY <1>4 DEF RunningIsDriven, SentOnceUndivided, Undivided, Busy, Current
  <1>. QED
    BY <1>8, <1>11, <1>12, <1>13, <1>14, <1>15, <1>16, <1>17

-----------------------------------------------------------------------------
(* Recovery and restart.                                                   *)

\* A step of recovery that neither saves nor fills the map leaves the objects
\* of the map, and all that the other tasks rely on, as they are.
LEMMA BootKeeps ==
    ASSUME WorkflowInv, NEW step \in Steps,
           at' = [at EXCEPT ![Boot] = step],
           \A r \in Run : object'[Own(r)] = object[Own(r)],
           \A r \in Run : runs[r] = "loaded" =>
                            object'[<<r, "loaded">>] = object[<<r, "loaded">>],
           UNCHANGED <<runs, inFlight, file, index, target, saving, seen, sent,
                       replaced, restarts>>
    PROVE  /\ Aimed' /\ RunSteps' /\ RequestSteps' /\ FileCatchesUp'
           /\ SentOnceUndivided'
           /\ \A r \in Run : /\ Current(r)' = Current(r)
                             /\ InMap(r)' = InMap(r)
                             /\ InMap(r) => Value(r)' = Value(r)
           /\ at'[Boot] = step
           /\ \A t \in Run \cup Request : at'[t] = at[t]
  <1> USE DEF WorkflowInv
  <1>1. /\ at'[Boot] = step
        /\ \A t \in Run \cup Request : at'[t] = at[t]
    BY TaskFacts DEF TypeOK
  <1>2. /\ \A r \in Run : Current(r)' = Current(r) /\ InMap(r)' = InMap(r)
        /\ Undivided' = Undivided
    BY DEF Current, InMap, Undivided
  <1>3. \A r \in Run : \A o : InMap(r) /\ IsOf(r, o) => object'[o] = object[o]
    <2> SUFFICES ASSUME NEW r \in Run, NEW o, InMap(r), IsOf(r, o)
                 PROVE  object'[o] = object[o]
      OBVIOUS
    <2>1. runs[r] \in Origin
      BY DEF InMap, TypeOK
    <2>. QED
      BY <2>1 DEF IsOf, Current, Own, Origin
  <1>4. \A r \in Run : InMap(r) => Value(r)' = Value(r)
    BY <1>2, <1>3 DEF Value, IsOf
  <1>5. Aimed'
    <2> SUFFICES ASSUME NEW t \in Task,
                        saving[t] # "no" \/ (t \in Request /\ at[t] # "idle")
                 PROVE  /\ object'[target[t]] # NoRun
                        /\ \E r \in Run : InMap(r) /\ IsOf(r, target[t])
      BY <1>1 DEF Aimed, InMap, IsOf, Current, Own
    <2>. QED
      BY <1>3 DEF Aimed
  <1>6. RunSteps'
    <2> SUFFICES ASSUME NEW r \in Run
                 PROVE  /\ at[r] \in {"idle", "ended"} \cup Staging
                        /\ runs[r] = "own" => at[r] # "idle"
                        /\ at[r] # "idle" =>
                             /\ InMap(r) /\ object[Own(r)] # NoRun
                             /\ IsOf(r, Own(r))
                        /\ at[r] = "idle" => saving[r] = "no"
                        /\ r \in Undivided /\ at[r] \in Staging =>
                             /\ Value(r)'.status \in {"running", "interrupted"}
                             /\ Value(r)'.approval = "none"
                             /\ sent[r] = 0
      <3>1. \A r \in Run : /\ at'[r] = at[r]
                          /\ object'[Own(r)] = object[Own(r)]
                          /\ InMap(r)' = InMap(r)
                          /\ IsOf(r, Own(r))' = IsOf(r, Own(r))
        BY <1>1, <1>2 DEF IsOf, Own
      <3>. QED
        BY <1>2, <3>1 DEF RunSteps, Own
    <2>1. at[r] \in Staging => InMap(r)
      BY DEF RunSteps, Staging
    <2>. QED
      BY <1>4, <2>1 DEF RunSteps
  <1>7. RequestSteps'
    <2>1. ASSUME NEW q \in Request, NEW r \in Undivided, at[q] \in Deciding,
                 target[q] = Current(r)
          PROVE  Value(r)' = Value(r)
      <3>1. PICK u \in Run : InMap(u) /\ IsOf(u, target[q])
        BY <2>1, TaskFacts DEF Aimed, Deciding
      <3>2. u = r
        BY <2>1, <3>1, IsOfFacts, CurrentFacts DEF Undivided
      <3>. QED
        BY <1>4, <3>1, <3>2
    <2>. QED
      BY <1>1, <1>2, <2>1 DEF RequestSteps, Undivided
  <1>8. FileCatchesUp'
    BY <1>2, <1>4 DEF FileCatchesUp, InMap, Value, Own
  <1>9. SentOnceUndivided'
    BY <1>2 DEF SentOnceUndivided
  <1>. QED
    BY <1>1, <1>2, <1>4, <1>5, <1>6, <1>7, <1>8, <1>9

LEMMA BootStartStep ==
    ASSUME WorkflowInv, BootStart
    PROVE  WorkflowInv'
  <1>1. /\ at[Boot] = "idle"
        /\ at' = [at EXCEPT ![Boot] = "loading"]
        /\ todo' = index
        /\ UNCHANGED <<runs, object, inFlight, file, index, target, saving, seen,
                       sent, replaced, restarts>>
    BY DEF BootStart, Go
  <1>2. /\ Aimed' /\ RunSteps' /\ RequestSteps' /\ FileCatchesUp'
        /\ SentOnceUndivided'
        /\ at'[Boot] = "loading" /\ \A t \in Run \cup Request : at'[t] = at[t]
    BY <1>1, BootKeeps DEF Steps
  <1> USE DEF WorkflowInv
  <1>3. TypeOK'
    BY <1>1 DEF TypeOK, Steps
  <1>4. BootFirst'
    BY <1>1, <1>2 DEF BootFirst, InMap
  <1>5. Records'
    BY <1>1 DEF Records, InMap, Value, Current, Settled, Undivided
  <1>6. RunningIsDriven'
    BY <1>1, <1>2 DEF RunningIsDriven, Busy, Current
  <1>. QED
    BY <1>2, <1>3, <1>4, <1>5, <1>6

LEMMA BootLoadStep ==
    ASSUME WorkflowInv, NEW r \in Run, BootLoad(r)
    PROVE  WorkflowInv'
  <1>1. /\ at[Boot] = "loading"
        /\ object' = [object EXCEPT ![<<r, "loaded">>] = file[r]]
        /\ todo' = todo \ {r}
        /\ UNCHANGED <<runs, inFlight, file, index, at, target, saving, seen,
                       sent, replaced, restarts>>
    BY DEF BootLoad
  <1> USE DEF WorkflowInv
  <1>2. at' = [at EXCEPT ![Boot] = "loading"]
    BY <1>1 DEF TypeOK
  <1>3. \A p \in Run : object'[<<p, "loaded">>] = IF p = r THEN file[r]
                                                  ELSE object[<<p, "loaded">>]
    BY <1>1 DEF TypeOK, Origin
  <1>4. \A p \in Run : object'[Own(p)] = object[Own(p)]
    BY <1>1 DEF TypeOK, Origin, Own
  <1>5. \A p \in Run : runs[p] # "loaded"
    BY <1>1 DEF BootFirst
  <1>6. /\ Aimed' /\ RunSteps' /\ RequestSteps' /\ FileCatchesUp'
        /\ SentOnceUndivided'
        /\ \A p \in Run : /\ Current(p)' = Current(p)
                          /\ InMap(p)' = InMap(p)
                          /\ InMap(p) => Value(p)' = Value(p)
    BY <1>1, <1>2, <1>4, <1>5, BootKeeps DEF Steps
  <1>7. TypeOK'
    BY <1>1 DEF TypeOK, Origin
  <1>8. BootFirst'
    BY <1>1, <1>3, <1>5, <1>6 DEF BootFirst
  <1>9. Records'
    <2> SUFFICES ASSUME NEW p \in Run
                 PROVE  /\ InMap(p) => Value(p)' # NoRun
                        /\ object'[<<p, "loaded">>] # NoRun => file[p] # NoRun
                        /\ p \in Undivided =>
                             /\ InMap(p) /\ Settled(file[p]) => Value(p)' = file[p]
                             /\ sent[p] > 0 => /\ file[p] # NoRun
                                               /\ file[p].approval = "approved"
                                               /\ file[p].status # "awaiting_approval"
                             /\ sent[p] > 0 /\ InMap(p) =>
                                  /\ Value(p)'.approval = "approved"
                                  /\ Value(p)'.status # "awaiting_approval"
      BY <1>1, <1>6 DEF Records, Settled, Undivided
    <2>. QED
      BY <1>3, <1>6 DEF Records
  <1>10. RunningIsDriven'
    <2> SUFFICES ASSUME NEW p \in Run, InMap(p), Busy(p) PROVE Busy(p)'
      BY <1>6 DEF RunningIsDriven, InMap, Value
    <2>. QED
      BY <1>1, <1>6 DEF Busy
  <1>. QED
    BY <1>6, <1>7, <1>8, <1>9, <1>10

LEMMA BootHydrateStep ==
    ASSUME WorkflowInv, BootHydrate
    PROVE  WorkflowInv'
  <1> USE DEF WorkflowInv
  <1>1. /\ at[Boot] = "loading"
        /\ at' = [at EXCEPT ![Boot] = "cleaning"]
        /\ runs' = [p \in Run |-> IF p \in Loaded THEN "loaded" ELSE runs[p]]
        /\ todo' = {p \in Run : runs'[p] # "none"}
        /\ replaced' = replaced \cup {p \in Loaded : runs[p] = "own"}
        /\ UNCHANGED <<object, inFlight, file, index, target, saving, seen, sent,
                       restarts>>
    BY DEF BootHydrate, Go
  <1>2. /\ at'[Boot] = "cleaning"
        /\ \A t \in Run \cup Request : at'[t] = at[t]
        /\ saving[Boot] = "no"
    BY <1>1, TaskFacts DEF TypeOK, BootFirst
  <1>3. \A p \in Run : /\ runs[p] \in {"own", "none"}
                       /\ InMap(p) <=> runs[p] = "own"
    BY <1>1 DEF BootFirst, InMap, TypeOK, Origin
  \* A run that was in the map stays what it was, or is replaced.
  <1>4. \A p \in Run : InMap(p) => /\ InMap(p)'
                                   /\ \/ Current(p)' = Current(p)
                                      \/ p \in replaced'
    BY <1>1, <1>3 DEF InMap, Current
  \* A run that was not is loaded, and is what its file says.
  <1>5. \A p \in Run : ~InMap(p) /\ InMap(p)' =>
                         /\ p \in Loaded /\ runs'[p] = "loaded"
                         /\ Value(p)' = file[p]
    <2> SUFFICES ASSUME NEW p \in Run, ~InMap(p), InMap(p)'
                 PROVE  /\ p \in Loaded /\ runs'[p] = "loaded"
                        /\ Value(p)' = file[p]
      OBVIOUS
    <2>1. p \in Loaded /\ runs'[p] = "loaded"
      BY <1>1 DEF InMap
    <2>2. object[<<p, "loaded">>] = file[p]
      BY <1>1, <2>1 DEF BootFirst, Loaded
    <2>. QED
      BY <1>1, <2>1, <2>2 DEF Value, Current
  <1>6. \A p \in Undivided' : /\ p \in Undivided
                              /\ InMap(p) => /\ Current(p)' = Current(p)
                                             /\ Value(p)' = Value(p)
    BY <1>1, <1>4 DEF Undivided, Value
  <1>7. \A p \in Run : \A o : InMap(p) /\ IsOf(p, o) => IsOf(p, o)'
    BY <1>1, <1>3, <1>4 DEF IsOf, Current, Own
  <1>8. TypeOK'
    <2>1. runs' \in [Run -> Origin \cup {"none"}]
      BY <1>1 DEF TypeOK, Origin
    <2>2. at' \in [Task -> Steps] /\ todo' \subseteq Run /\ replaced' \subseteq Run
      BY <1>1 DEF TypeOK, Steps, Loaded
    <2>. QED
      BY <1>1, <2>1, <2>2 DEF TypeOK
  <1>9. BootFirst'
    BY <1>1, <1>2 DEF BootFirst, InMap
  <1>10. Aimed'
    <2> SUFFICES ASSUME NEW t \in Task,
                        saving[t] # "no" \/ (t \in Request /\ at[t] # "idle")
                 PROVE  /\ object[target[t]] # NoRun
                        /\ \E p \in Run : InMap(p)' /\ IsOf(p, target[t])'
      BY <1>1, <1>2 DEF Aimed
    <2>1. /\ object[target[t]] # NoRun
          /\ \E p \in Run : InMap(p) /\ IsOf(p, target[t])
      BY DEF Aimed
    <2>. QED
      BY <1>1, <1>4, <1>7, <2>1
  <1>11. RunSteps'
    <2> SUFFICES ASSUME NEW p \in Run
                 PROVE  /\ at[p] \in {"idle", "ended"} \cup Staging
                        /\ runs'[p] = "own" => at[p] # "idle"
                        /\ at[p] # "idle" =>
                             /\ InMap(p)' /\ object[Own(p)] # NoRun
                             /\ IsOf(p, Own(p))'
                        /\ at[p] = "idle" => saving[p] = "no"
                        /\ p \in Undivided' /\ at[p] \in Staging =>
                             /\ Value(p)'.status \in {"running", "interrupted"}
                             /\ Value(p)'.approval = "none"
                             /\ sent[p] = 0
      BY <1>1, <1>2 DEF RunSteps, Own
    <2>1. runs'[p] = "own" => runs[p] = "own"
      BY <1>1
    <2>2. at[p] # "idle" => IsOf(p, Own(p))'
      BY <1>7 DEF RunSteps, Own, IsOf
    <2>3. at[p] \in Staging => InMap(p)
      BY DEF RunSteps, Staging
    <2>. QED
      BY <1>4, <1>6, <2>1, <2>2, <2>3 DEF RunSteps
  <1>12. RequestSteps'
    <2>1. ASSUME NEW q \in Request, NEW p \in Undivided', at[q] \in Deciding,
                 target[q] = Current(p)'
          PROVE  /\ p \in Undivided /\ target[q] = Current(p)
                 /\ Value(p)' = Value(p)
      <3>1. PICK u \in Run : InMap(u) /\ IsOf(u, target[q])
        BY <2>1, TaskFacts DEF Aimed, Deciding
      <3>2. p \in Run /\ p \in Undivided /\ Current(p)'[1] = p
        BY <1>6, <2>1 DEF Undivided, Current
      <3>3. u = p
        BY <2>1, <3>1, <3>2, IsOfFacts
      <3>. QED
        BY <1>6, <2>1, <3>1, <3>2, <3>3
    <2>. QED
      BY <1>1, <1>2, <2>1 DEF RequestSteps
  <1>13. Records'
    <2> SUFFICES ASSUME NEW p \in Run
                 PROVE  /\ InMap(p)' => Value(p)' # NoRun
                        /\ object[<<p, "loaded">>] # NoRun => file[p] # NoRun
                        /\ p \in Undivided' =>
                             /\ InMap(p)' /\ Settled(file[p]) => Value(p)' = file[p]
                             /\ sent[p] > 0 => /\ file[p] # NoRun
                                               /\ file[p].approval = "approved"
                                               /\ file[p].status # "awaiting_approval"
                             /\ sent[p] > 0 /\ InMap(p)' =>
                                  /\ Value(p)'.approval = "approved"
                                  /\ Value(p)'.status # "awaiting_approval"
      BY <1>1 DEF Records, Settled
    <2>1. object[<<p, "loaded">>] # NoRun => file[p] # NoRun
      BY DEF Records
    <2>2. CASE InMap(p)
      <3>1. Value(p)' # NoRun
        <4>1. CASE p \in Loaded
          BY <1>1, <4>1 DEF Value, Current, Loaded
        <4>2. CASE p \notin Loaded
          BY <1>1, <2>2, <4>2 DEF Value, Current, Records
        <4>. QED
          BY <4>1, <4>2
      <3>. QED
        BY <1>6, <2>1, <2>2, <3>1 DEF Records
    <2>3. CASE ~InMap(p)
      <3>1. InMap(p)' => Value(p)' = file[p] /\ file[p] # NoRun
        BY <1>5, <2>1, <2>3 DEF Loaded
      <3>. QED
        BY <1>6, <2>1, <3>1 DEF Records
    <2>. QED
      BY <2>2, <2>3
  <1>14. FileCatchesUp'
    <2> SUFFICES ASSUME NEW p \in Run, InMap(p)',
                        \A u \in Task : saving[u] = "file" => target[u][1] # p
                 PROVE  \/ file[p] = Value(p)'
                        \/ p \in replaced' /\ file[p] = object[Own(p)]
      BY <1>1 DEF FileCatchesUp, InMap, Value, Own
    <2>1. CASE ~InMap(p)
      BY <1>5, <2>1
    <2>2. CASE InMap(p)
      <3>1. \/ file[p] = Value(p)
            \/ p \in replaced /\ file[p] = object[Own(p)]
        BY <2>2 DEF FileCatchesUp, InMap, Value
      <3>2. Value(p) = object[Own(p)] /\ replaced \subseteq replaced'
        BY <1>1, <1>3, <2>2 DEF Value, Current, Own
      <3>. QED
        BY <1>1, <1>4, <2>2, <3>1, <3>2 DEF Value
    <2>. QED
      BY <2>1, <2>2
  <1>15. RunningIsDriven'
    BY <1>1, <1>2 DEF RunningIsDriven, Busy
  <1>16. SentOnceUndivided'
    BY <1>1, <1>6 DEF SentOnceUndivided
  <1>. QED
    BY <1>8, <1>9, <1>10, <1>11, <1>12, <1>13, <1>14, <1>15, <1>16

\* An orphan becomes interrupted; its approval stays what it was.
LEMMA BootCleanStep ==
    ASSUME WorkflowInv, NEW r \in Run, BootClean(r)
    PROVE  WorkflowInv'
  <1> USE DEF WorkflowInv
  <1>1. /\ at[Boot] = "cleaning" /\ saving[Boot] = "no" /\ r \in todo
        /\ InMap(r) /\ Value(r).status = "running"
        /\ todo' \subseteq todo /\ \A p \in todo \ todo' : p = r \/ ~Orphan(p)
        /\ SaveAs(Boot, Current(r), WithStatus(Current(r), "interrupted"),
                  "cleaning")
        /\ UNCHANGED <<runs, inFlight, file, index, seen, sent, replaced,
                       restarts>>
    BY DEF BootClean, Ready, Orphan, BootFirst, Value, After
  <1>2. PICK v \in Object : v = WithStatus(Current(r), "interrupted")
    BY <1>1, ValueType, ObjectFields DEF Value, WithStatus, Statuses
  <1>3. v.status = "interrupted" /\ v.approval = Value(r).approval
    BY <1>1, <1>2, ValueType, ObjectFields DEF Value, WithStatus, Statuses
  <1>4. /\ Boot \in Task /\ ~Settled(Value(r)) /\ "cleaning" \in Steps
        /\ IsOf(r, Current(r)) /\ inFlight' \subseteq Run
        /\ sent[r] > 0 /\ r \in Undivided =>
             v.approval = "approved" /\ v.status # "awaiting_approval"
    BY <1>1, <1>3, TaskFacts DEF Settled, Steps, TypeOK, Records, IsOf
  <1>5. /\ TypeOK' /\ BootFirst' /\ Aimed' /\ Records' /\ FileCatchesUp'
        /\ SentOnceUndivided'
        /\ Value(r)' = v
        /\ \A p \in Run : /\ Current(p)' = Current(p)
                          /\ p # r /\ InMap(p) => Value(p)' = Value(p)
                          /\ object[Own(p)] # NoRun => object'[Own(p)] # NoRun
        /\ \A u \in Task : u # Boot => /\ at'[u] = at[u]
                                       /\ saving'[u] = saving[u]
                                       /\ target'[u] = target[u]
        /\ at'[Boot] = "cleaning"
    BY <1>1, <1>2, <1>4, SaveKeeps
  <1>6. \A t \in Run \cup Request : /\ at'[t] = at[t] /\ saving'[t] = saving[t]
                                    /\ target'[t] = target[t]
    BY <1>5, TaskFacts
  <1>7. /\ \A p \in Run : /\ IsOf(p, Own(p))' = IsOf(p, Own(p))
                          /\ InMap(p)' = InMap(p)
        /\ Undivided' = Undivided
    BY <1>1, <1>5 DEF IsOf, Own, InMap, Undivided
  \* The run in progress, or the approved one, stays what the other tasks
  \* take it for.
  <1>8. \A p \in Run : InMap(p) /\ Value(p).status \in {"running", "interrupted"}
          => /\ Value(p)'.status \in {"running", "interrupted"}
             /\ Value(p)'.approval = Value(p).approval
    BY <1>3, <1>5
  <1>9. RunSteps'
    <2> SUFFICES ASSUME NEW p \in Run
                 PROVE  /\ at[p] \in {"idle", "ended"} \cup Staging
                        /\ runs[p] = "own" => at[p] # "idle"
                        /\ at[p] # "idle" =>
                             /\ InMap(p) /\ object'[Own(p)] # NoRun
                             /\ IsOf(p, Own(p))
                        /\ at[p] = "idle" => saving[p] = "no"
                        /\ p \in Undivided /\ at[p] \in Staging =>
                             /\ Value(p)'.status \in {"running", "interrupted"}
                             /\ Value(p)'.approval = "none"
                             /\ sent[p] = 0
      BY <1>1, <1>6, <1>7 DEF RunSteps, Own
    <2>1. at[p] \in Staging => InMap(p)
      BY DEF RunSteps, Staging
    <2>. QED
      BY <1>5, <1>8, <2>1 DEF RunSteps
  <1>10. RequestSteps'
    <2>1. ASSUME NEW q \in Request, NEW p \in Undivided, at[q] \in Deciding,
                 target[q] = Current(p)
          PROVE  /\ Value(p)'.status \in {"running", "interrupted"}
                 /\ Value(p)'.approval = "approved"
      <3>1. PICK u \in Run : InMap(u) /\ IsOf(u, target[q])
        BY <2>1, TaskFacts DEF Aimed, Deciding
      <3>2. u = p
        BY <2>1, <3>1, IsOfFacts, CurrentFacts DEF Undivided
      <3>. QED
        BY <1>8, <2>1, <3>1, <3>2 DEF RequestSteps
    <2>. QED
      BY <1>1, <1>5, <1>6, <1>7, <2>1 DEF RequestSteps, Undivided
  <1>11. RunningIsDriven'
    <2> SUFFICES ASSUME NEW p \in Run, InMap(p), Value(p)'.status = "running"
                 PROVE  Busy(p)'
      BY <1>1 DEF RunningIsDriven, InMap, Value
    <2>1. p # r
      BY <1>3, <1>5
    <2>2. Value(p).status = "running" /\ Busy(p)
      BY <1>5, <2>1 DEF RunningIsDriven, InMap, Value
    <2>3. p \in todo => p \in todo'
      BY <1>1, <2>1, <2>2 DEF Orphan, Value
    <2>. QED
      BY <1>1, <1>5, <1>6, <2>2, <2>3 DEF Busy
  <1>. QED
    BY <1>5, <1>9, <1>10, <1>11

LEMMA BootDoneStep ==
    ASSUME WorkflowInv, BootDone
    PROVE  WorkflowInv'
  <1>1. /\ at[Boot] = "cleaning" /\ saving[Boot] = "no"
        /\ \A r \in todo : ~Orphan(r)
        /\ at' = [at EXCEPT ![Boot] = "ended"]
        /\ todo' = {}
        /\ UNCHANGED <<runs, object, inFlight, file, index, target, saving, seen,
                       sent, replaced, restarts>>
    BY DEF BootDone, Ready, Go
  <1>2. /\ Aimed' /\ RunSteps' /\ RequestSteps' /\ FileCatchesUp'
        /\ SentOnceUndivided'
        /\ at'[Boot] = "ended" /\ \A t \in Run \cup Request : at'[t] = at[t]
    BY <1>1, BootKeeps DEF Steps
  <1> USE DEF WorkflowInv
  <1>3. TypeOK'
    BY <1>1 DEF TypeOK, Steps
  <1>4. BootFirst'
    BY <1>1, <1>2 DEF BootFirst, InMap
  <1>5. Records'
    BY <1>1 DEF Records, InMap, Value, Current, Settled, Undivided
  <1>6. RunningIsDriven'
    <2> SUFFICES ASSUME NEW r \in Run, InMap(r), Value(r).status = "running"
                 PROVE  Busy(r)'
      BY <1>1 DEF RunningIsDriven, InMap, Value, Current
    <2>1. Busy(r) /\ r \notin todo
      BY <1>1 DEF RunningIsDriven, InMap, Value, Orphan
    <2>. QED
      BY <1>1, <1>2, <2>1 DEF Busy, Current
  <1>. QED
    BY <1>2, <1>3, <1>4, <1>5, <1>6

LEMMA RestartStep ==
    ASSUME WorkflowInv, Restart
    PROVE  WorkflowInv'
  <1> USE DEF WorkflowInv
  <1>1. /\ restarts < MaxRestarts /\ restarts' = restarts + 1
        /\ runs' = [r \in Run |-> "none"]
        /\ object' = [o \in Run \X Origin |-> NoRun]
        /\ inFlight' = {}
        /\ at' = [t \in Task |-> "idle"]
        /\ target' = [t \in Task |-> NoRun]
        /\ saving' = [t \in Task |-> "no"]
        /\ seen' = [t \in Task |-> {}]
        /\ todo' = {}
        /\ UNCHANGED <<file, index, sent, replaced>>
    BY DEF Restart
  <1>2. /\ \A t \in Task : at'[t] = "idle" /\ saving'[t] = "no"
        /\ \A r \in Run : runs'[r] = "none" /\ object'[<<r, "loaded">>] = NoRun
    BY <1>1 DEF Origin
  <1>3. TypeOK'
    BY <1>1 DEF TypeOK, Steps
  <1>4. BootFirst'
    BY <1>2, TaskFacts DEF BootFirst, InMap
  <1>5. Aimed'
    BY <1>2, TaskFacts DEF Aimed
  <1>6. RunSteps'
    BY <1>2, TaskFacts DEF RunSteps, Staging
  <1>7. RequestSteps'
    BY <1>2, TaskFacts DEF RequestSteps, Deciding
  <1>8. Records'
    BY <1>1, <1>2 DEF Records, InMap, Undivided
  <1>9. FileCatchesUp' /\ RunningIsDriven' /\ SentOnceUndivided'
    BY <1>1, <1>2 DEF FileCatchesUp, RunningIsDriven, SentOnceUndivided, Undivided
  <1>. QED
    BY <1>3, <1>4, <1>5, <1>6, <1>7, <1>8, <1>9

-----------------------------------------------------------------------------
(* The invariant holds.                                                    *)

LEMMA InitWorkflow == Init => WorkflowInv
  <1> SUFFICES ASSUME Init PROVE WorkflowInv
    OBVIOUS
  <1>1. /\ \A t \in Task : at[t] = "idle" /\ saving[t] = "no"
        /\ \A r \in Run : /\ runs[r] = "none" /\ sent[r] = 0
                          /\ object[<<r, "loaded">>] = NoRun
    BY DEF Init, Origin
  <1>2. TypeOK
    BY DEF Init, TypeOK, Steps
  <1>3. BootFirst
    BY <1>1, TaskFacts DEF BootFirst, InMap
  <1>4. Aimed
    BY <1>1, TaskFacts DEF Aimed
  <1>5. RunSteps
    BY <1>1, TaskFacts DEF RunSteps, Staging
  <1>6. RequestSteps
    BY <1>1, TaskFacts DEF RequestSteps, Deciding
  <1>7. Records
    <2>1. ~(0 > 0)
      OBVIOUS
    <2>2. \A r \in Run : ~InMap(r) /\ ~(sent[r] > 0)
      BY <1>1, <2>1, Zenon DEF InMap
    <2>. QED
      BY <1>1, <2>2 DEF Records
  <1>8. FileCatchesUp /\ RunningIsDriven
    BY <1>1 DEF FileCatchesUp, RunningIsDriven
  <1>9. SentOnceUndivided
    <2>1. 0 <= 1
      OBVIOUS
    <2>. QED
      BY <1>1, <2>1, Zenon DEF SentOnceUndivided, Undivided
  <1>. QED
    BY <1>2, <1>3, <1>4, <1>5, <1>6, <1>7, <1>8, <1>9 DEF WorkflowInv

LEMMA StutterStep ==
    ASSUME WorkflowInv, UNCHANGED vars
    PROVE  WorkflowInv'
  <1> USE DEF vars, WorkflowInv
  <1>1. TypeOK'
    BY DEF TypeOK
  <1>2. BootFirst' /\ Aimed'
    BY DEF BootFirst, Aimed, InMap, IsOf, Current, Own
  <1>3. RunSteps'
    BY DEF RunSteps, InMap, IsOf, Value, Current, Own, Undivided
  <1>4. RequestSteps'
    BY DEF RequestSteps, Value, Current, Undivided
  <1>5. Records'
    BY DEF Records, InMap, Value, Current, Settled, Undivided
  <1>6. FileCatchesUp' /\ RunningIsDriven' /\ SentOnceUndivided'
    BY DEF FileCatchesUp, RunningIsDriven, SentOnceUndivided, Undivided, Busy,
           Current, Own
  <1>. QED
    BY <1>1, <1>2, <1>3, <1>4, <1>5, <1>6

LEMMA WorkflowPreserved ==
    ASSUME WorkflowInv, [Next]_vars
    PROVE  WorkflowInv'
  <1>1. ASSUME NEW t \in Task, Save(t) PROVE WorkflowInv'
    BY <1>1, SaveStep
  <1>2. ASSUME NEW r \in Run, StartRun(r) \/ Stage(r) PROVE WorkflowInv'
    BY <1>2, StartRunStep, StageStep
  <1>3. ASSUME NEW q \in Request, Carry(q) PROVE WorkflowInv'
    BY <1>3, CarryStep, RecordStep DEF Carry
  <1>4. ASSUME NEW q \in Request, NEW r \in Run,
               Reject(q, r) \/ Mismatch(q, r) \/ Stale(q, r) \/ Approve(q, r)
        PROVE  WorkflowInv'
    BY <1>4, DecisionStep
  <1>5. CASE Recover
    BY <1>5, BootStartStep, BootLoadStep, BootHydrateStep, BootCleanStep,
       BootDoneStep DEF Recover
  <1>6. CASE Restart
    BY <1>6, RestartStep
  <1>7. CASE UNCHANGED vars
    BY <1>7, StutterStep
  <1>. QED
    BY <1>1, <1>2, <1>3, <1>4, <1>5, <1>6, <1>7 DEF Next

LEMMA WorkflowInvariant == Spec => []WorkflowInv
  <1>1. WorkflowInv /\ [Next]_vars => WorkflowInv'
    BY WorkflowPreserved
  <1>. QED
    BY <1>1, InitWorkflow, PTL DEF Spec

-----------------------------------------------------------------------------
(* The theorems.                                                           *)

\* Every reachable state of the orchestrator and its store is well typed.
THEOREM WorkflowTypeCorrect == Spec => []TypeOK
  <1>1. WorkflowInv => TypeOK
    BY DEF WorkflowInv
  <1>. QED
    BY <1>1, WorkflowInvariant, PTL

\* An order that reached the broker has its approval in the file of its run,
\* at every moment and whenever the process ends, as long as recovery has not
\* replaced the object its request works on: approve saves before it hands
\* the order on, and no later save, of a request or of recovery, takes it
\* back.
THEOREM OrderHasRecordedApprovalAlways == Spec => []OrderHasRecordedApproval
  <1>1. WorkflowInv => OrderHasRecordedApproval
    BY DEF WorkflowInv, Records, OrderHasRecordedApproval, Undivided
  <1>. QED
    BY <1>1, WorkflowInvariant, PTL

\* However many requests approve a run at once, beside recovery, and however
\* often the process is restarted in between, at most one order of a run is
\* sent unless recovery has replaced the object of it that was worked on.
THEOREM SentOnceUndividedAlways == Spec => []SentOnceUndivided
  <1>1. WorkflowInv => SentOnceUndivided
    BY DEF WorkflowInv
  <1>. QED
    BY <1>1, WorkflowInvariant, PTL

\* A run that the map shows as running always has a task that will take it
\* out of that status: startRun, the request that approved it, or recovery,
\* and the task works on the object that the map shows.
THEOREM RunningIsDrivenAlways == Spec => []RunningIsDriven
  <1>1. WorkflowInv => RunningIsDriven
    BY DEF WorkflowInv
  <1>. QED
    BY <1>1, WorkflowInvariant, PTL

\* Between saves the file of a run is what the map shows, or what the object
\* says that recovery has replaced: of saves that overlap, none leaves an
\* older state behind.
THEOREM FileCatchesUpAlways == Spec => []FileCatchesUp
  <1>1. WorkflowInv => FileCatchesUp
    BY DEF WorkflowInv
  <1>. QED
    BY <1>1, WorkflowInvariant, PTL

\* The file of a settled run is never given another outcome, whatever tasks
\* still hold its object and whatever recovery does, unless there are two
\* objects of it.
THEOREM SettledRecordIsFinalAlways == Spec => SettledRecordIsFinal
  <1>1. ASSUME WorkflowInv, [Next]_vars, NEW r \in Undivided, Settled(file[r])
        PROVE  file'[r] = file[r]
    <2>1. CASE \E t \in Task : WriteFile(t)
      <3>1. PICK t \in Task : WriteFile(t)
        BY <2>1
      <3>2. PICK p \in Run : InMap(p) /\ IsOf(p, target[t])
        BY <1>1, <3>1 DEF WorkflowInv, Aimed, WriteFile
      <3>3. file' = [file EXCEPT ![p] = object[target[t]]]
        BY <1>1, <3>1, <3>2, IsOfFacts DEF WriteFile, WorkflowInv
      <3>4. CASE p = r
        <4>1. object[target[t]] = Value(r)
          BY <1>1, <3>2, <3>4, IsOfFacts DEF WorkflowInv, Value
        <4>2. Value(r) = file[r]
          BY <1>1, <3>2, <3>4 DEF WorkflowInv, Records, Undivided
        <4>. QED
          BY <1>1, <3>3, <3>4, <4>1, <4>2 DEF WorkflowInv, TypeOK
      <3>5. CASE p # r
        BY <1>1, <3>3, <3>5 DEF WorkflowInv, TypeOK, Undivided
      <3>. QED
        BY <3>4, <3>5
    <2>2. CASE ~\E t \in Task : WriteFile(t)
      BY <1>1, <2>2 DEF Next, Save, ReadIndex, WriteIndex, StartRun, Stage,
         Advance, FailRun, AwaitApproval, Carry, Execute, PipelineActs, Record,
         Reject, Mismatch, Stale, Approve, Decide, Recover, BootStart, BootLoad,
         BootHydrate, BootClean, BootDone, Restart, vars
    <2>. QED
      BY <2>1, <2>2
  <1>2. WorkflowInv /\ [Next]_vars
          => [\A r \in Undivided : Settled(file[r]) => file'[r] = file[r]]_vars
    BY <1>1
  <1>. QED
    BY <1>2, WorkflowInvariant, PTL DEF Spec, SettledRecordIsFinal
===============================================================================
