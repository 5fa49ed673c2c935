---------------------- MODULE WorkflowCoordinatorProofs ----------------------
(***************************************************************************)
(* Proofs about WorkflowCoordinator, for every set of tasks, every         *)
(* workflow and registry handed in, any bounds on attempts and ticks, and  *)
(* any number of failing writes.                                           *)
(***************************************************************************)
EXTENDS WorkflowCoordinator, FiniteSetTheorems, TLAPS

USE AttemptsAssumption, BoundsAssumption

AnyRecord == [status : TaskStatus, attempt : Nat]

(* The parts of the type invariant that TypeOK leaves implicit.             *)
Shape == /\ task \in [Tasks -> AnyRecord]
         /\ store \in [Tasks -> AnyRecord]
         /\ result \in [Tasks -> AnyRecord]
         /\ actions \in [Tasks -> [Slots -> Nat]]
         /\ evidence \in [Tasks -> Nat]

Types == TypeOK /\ Shape
-----------------------------------------------------------------------------
(* The inductive invariant.                                                 *)

Busy(t) == phase[t] # "none"

(* A graph that was let in names its own tasks only, and nothing leaves     *)
(* "blocked" before its dependencies are completed.                         *)
Ordered ==
    /\ loop \notin {"validating", "refused"} => \A t \in Tasks : DependsOn[t] \subseteq Tasks
    /\ \A t \in Tasks : task[t].status # "blocked" =>
         /\ loop \notin {"validating", "refused"}
         /\ \A d \in DependsOn[t] : task[d].status = "completed"

(* Only ready tasks are executed, in a tick; after a failure the tasks of   *)
(* the last tick run on.                                                    *)
InTick == \A t \in Tasks : Busy(t) =>
             /\ loop \in {"ticking", "catch", "ended"}
             /\ task[t].status = "ready"

(* What is not being executed is in the store as it is in memory, unless a  *)
(* reconciliation failed half way, after which nothing is executed.         *)
Agree ==
    (loop \notin {"abandoned", "catch", "ended"} \/ \E u \in Tasks : Busy(u))
      => \A t \in Tasks : phase[t] \in {"none", "selected"} => store[t] = task[t]

(* Where executeTask is tells what it has made of the record.               *)
Working ==
    \A t \in Tasks :
      /\ AtWork(t) \/ phase[t] = "caught" => Running(t).status = "running"
      /\ phase[t] = "completed" => store[t] = With(t, "completed")
      /\ phase[t] = "resolved" => result[t] = store[t]

(* A completed record speaks of an attempt whose evidence is stored.        *)
Evidenced ==
    \A t \in Tasks :
      /\ task[t].status = "completed" => evidence[t] = task[t].attempt
      /\ phase[t] = "resolved" /\ result[t].status = "completed"
           => evidence[t] = result[t].attempt

(* The session's verdict is about records that no longer change.            *)
Judged ==
    /\ session = "completed" =>
         \A t \in Tasks : task[t].status = "completed" /\ store[t].status = "completed"
    /\ session = "failed" /\ faults = 0 =>
         \E t \in Tasks : /\ task[t].status \in {"failed", "unassigned"}
                          /\ store[t].status \in {"failed", "unassigned"}
    /\ loop = "catch" \/ (\E t \in Tasks : phase[t] = "threw") => faults > 0

(* While no write failed, actions are stored by attempts that end, or have  *)
(* ended, completed.                                                        *)
Attributed ==
    faults = 0 => \A t \in Tasks, i \in Slots :
      \/ actions[t][i] = 0
      \/ phase[t] \in {"answered", "completed"} /\ actions[t][i] = Running(t).attempt
      \/ /\ phase[t] = "resolved" /\ result[t].status = "completed"
         /\ actions[t][i] = result[t].attempt
      \/ task[t].status = "completed" /\ actions[t][i] = task[t].attempt

Inv == /\ Types /\ Ordered /\ InTick /\ Agree /\ Working /\ Evidenced /\ Judged
       /\ GrantsAreRunScoped /\ Attributed
-----------------------------------------------------------------------------
(* What the transitions make of a record.                                   *)
LEMMA Allowed ==
  /\ AllowedTransitions["blocked"] = {"ready"}
  /\ AllowedTransitions["ready"] = {"running", "unassigned"}
  /\ AllowedTransitions["running"] = {"ready", "approval_required", "completed", "failed"}
  BY DEF AllowedTransitions, TaskStatus

LEMMA RecordParts ==
  ASSUME Types, NEW t \in Tasks
  PROVE  /\ {task[t], store[t], result[t]} \subseteq TaskRecord(t)
         /\ TaskRecord(t) \subseteq AnyRecord
         /\ MaxAttempts[t] \in Nat \ {0}
  BY DEF Types, TypeOK, TaskRecord, AnyRecord

LEMMA ReadyMoves ==
  ASSUME Types, NEW t \in Tasks, task[t].status = "ready"
  PROVE  /\ task[t].attempt < MaxAttempts[t] =>
              Running(t) = [status |-> "running", attempt |-> task[t].attempt + 1]
         /\ ~(task[t].attempt < MaxAttempts[t]) => Running(t) = task[t]
         /\ Unassigned(t) = [status |-> "unassigned", attempt |-> task[t].attempt]
<1>1. task[t].attempt \in 0..MaxAttempts[t] /\ MaxAttempts[t] \in Nat
  BY RecordParts DEF TaskRecord
<1>. QED
  BY <1>1, Allowed DEF Running, Unassigned, Transitioned, CanTransition, StartsAttempt

LEMMA RunningMoves ==
  ASSUME Types, NEW t \in Tasks, task[t].status = "ready", Running(t).status = "running"
  PROVE  /\ \A to \in {"ready", "completed", "failed"} :
              With(t, to) = [status |-> to, attempt |-> Running(t).attempt]
         /\ Running(t) = [status |-> "running", attempt |-> task[t].attempt + 1]
         /\ Running(t).attempt \in 1..MaxAttempts[t]
<1>1. task[t].attempt \in 0..MaxAttempts[t] /\ MaxAttempts[t] \in Nat
  BY RecordParts DEF TaskRecord
<1>2. Running(t) = [status |-> "running", attempt |-> task[t].attempt + 1]
  BY ReadyMoves
<1>3. Running(t).attempt \in 1..MaxAttempts[t]
  BY <1>1, <1>2, ReadyMoves
<1>4. \A to \in {"ready", "completed", "failed"} :
        With(t, to) = [status |-> to, attempt |-> Running(t).attempt]
  BY <1>2, <1>3, Allowed DEF With, Transitioned, CanTransition, StartsAttempt
<1>. QED
  BY <1>2, <1>3, <1>4

(* scheduleReadyTasks moves a blocked task whose dependencies are           *)
(* completed, and keeps its attempts.                                       *)
LEMMA ScheduledTask ==
  ASSUME Types, NEW t \in Tasks
  PROVE  \/ ~Unlocked(task, t) /\ Scheduled(task)[t] = task[t]
         \/ /\ Unlocked(task, t) /\ task[t].status = "blocked"
            /\ Scheduled(task)[t] = [status |-> "ready", attempt |-> task[t].attempt]
<1>1. task[t].attempt \in Nat
  BY DEF Types, Shape, AnyRecord
<1>. QED
  BY <1>1, Allowed DEF Scheduled, Unlocked, HasStatus, Transitioned, CanTransition,
     StartsAttempt

LEMMA ScheduledStatus ==
  ASSUME Types, NEW t \in Tasks
  PROVE  /\ task[t].status # "blocked" => Scheduled(task)[t] = task[t]
         /\ task[t].status = "blocked" =>
              Scheduled(task)[t].status \in {"blocked", "ready"}
<1>1. CASE Scheduled(task)[t] = task[t]
  BY <1>1
<1>2. CASE /\ task[t].status = "blocked"
           /\ Scheduled(task)[t] = [status |-> "ready", attempt |-> task[t].attempt]
  <2>1. Scheduled(task)[t].status = "ready"
    BY <1>2
  <2>. QED
    BY <1>2, <2>1
<1>. QED
  BY <1>1, <1>2, ScheduledTask

LEMMA ScheduledType ==
  ASSUME Types
  PROVE  /\ Scheduled(task) \in [Tasks -> AnyRecord]
         /\ \A t \in Tasks : Scheduled(task)[t] \in TaskRecord(t)
<1>1. ASSUME NEW t \in Tasks PROVE Scheduled(task)[t] \in TaskRecord(t)
  <2>1. task[t] \in TaskRecord(t)
    BY RecordParts
  <2>2. [status |-> "ready", attempt |-> task[t].attempt] \in TaskRecord(t)
    BY <2>1 DEF TaskRecord, TaskStatus
  <2>. QED
    BY <2>1, <2>2, ScheduledTask
<1>2. ASSUME NEW t \in Tasks PROVE Scheduled(task)[t] \in AnyRecord
  BY <1>1, RecordParts
<1>. QED
  BY <1>1, <1>2 DEF Scheduled

(* The steps of executeTask for a task concern its own records only.        *)
LEMMA TaskMoves ==
  ASSUME Types, NEW t \in Tasks, TaskStep(t) \/ TaskFault(t)
  PROVE  /\ UNCHANGED <<workflow, agents, loop, ticks, task, session>>
         /\ phase[t] \notin {"none", "resolved", "threw"} /\ phase'[t] \notin {"none", "selected"}
         /\ \A u \in Tasks : u # t =>
              /\ phase'[u] = phase[u] /\ store'[u] = store[u] /\ result'[u] = result[u]
              /\ actions'[u] = actions[u] /\ evidence'[u] = evidence[u]
         /\ faults' = faults \/ faults' > 0
<1> USE DEF Types, TypeOK, Shape, setup, loopVars, outputVars, Save, Resolve, StoreActions
<1>1. CASE Unassign(t)
  BY <1>1 DEF Unassign
<1>2. CASE Start(t)
  BY <1>2 DEF Start
<1>3. CASE Invoke(t)
  BY <1>3 DEF Invoke
<1>4. CASE AgentAnswers(t)
  BY <1>4 DEF AgentAnswers
<1>5. CASE AgentFails(t)
  BY <1>5 DEF AgentFails
<1>6. CASE Complete(t)
  BY <1>6 DEF Complete
<1>7. CASE PersistEvidence(t)
  BY <1>7 DEF PersistEvidence
<1>8. CASE CatchTask(t)
  BY <1>8 DEF CatchTask
<1>9. CASE TaskFault(t)
  <2>1. faults' > 0 /\ phase[t] \notin {"none", "resolved", "threw"}
        /\ phase'[t] \notin {"none", "selected"}
    BY <1>9 DEF TaskFault, Fault
  <2>2. \A u \in Tasks : u # t => phase'[u] = phase[u] /\ store'[u] = store[u]
    BY <1>9 DEF TaskFault
  <2>3. \A u \in Tasks : u # t => actions'[u] = actions[u]
    BY <1>9 DEF TaskFault
  <2>. QED
    BY <1>9, <2>1, <2>2, <2>3 DEF TaskFault
<1>. QED
  BY <1>1, <1>2, <1>3, <1>4, <1>5, <1>6, <1>7, <1>8, <1>9 DEF TaskStep
-----------------------------------------------------------------------------
(* The type invariant.  No transition takes a task beyond its attempts.     *)
LEMMA TransitionedType ==
  ASSUME NEW t \in Tasks, NEW record \in TaskRecord(t), NEW to \in TaskStatus
  PROVE  Transitioned(t, record, to) \in TaskRecord(t)
<1>1. CASE StartsAttempt(record, to) /\ record.attempt < MaxAttempts[t]
  BY <1>1 DEF Transitioned, TaskRecord
<1>2. CASE ~StartsAttempt(record, to)
  BY <1>2 DEF Transitioned, TaskRecord
<1>3. CASE StartsAttempt(record, to) /\ ~(record.attempt < MaxAttempts[t])
  BY <1>3 DEF Transitioned
<1>. QED
  BY <1>1, <1>2, <1>3

LEMMA RecordTypes ==
  ASSUME Types, NEW t \in Tasks
  PROVE  /\ {Running(t), Unassigned(t), With(t, "completed"), Retried(t), Saving(t), task[t]}
              \subseteq TaskRecord(t)
         /\ Running(t).attempt \in 0..MaxAttempts[t]
<1>1. task[t] \in TaskRecord(t) /\ store[t] \in TaskRecord(t)
  BY RecordParts
<1>2. Running(t) \in TaskRecord(t) /\ Unassigned(t) \in TaskRecord(t)
  BY <1>1, TransitionedType DEF Running, Unassigned, TaskStatus
<1>3. \A to \in {"ready", "failed", "completed"} : With(t, to) \in TaskRecord(t)
  BY <1>2, TransitionedType DEF With, TaskStatus
<1>4. Retried(t) \in TaskRecord(t)
  BY <1>3 DEF Retried
<1>5. Saving(t) \in TaskRecord(t)
  BY <1>1, <1>2, <1>3, <1>4 DEF Saving
<1>6. Running(t).attempt \in 0..MaxAttempts[t]
  BY <1>2 DEF TaskRecord
<1>. QED
  BY <1>1, <1>2, <1>3, <1>4, <1>5, <1>6

LEMMA TypesInit == Init => Types
<1> SUFFICES ASSUME Init PROVE Types
  OBVIOUS
<1>1. NewTask \in AnyRecord /\ \A t \in Tasks : NewTask \in TaskRecord(t)
  BY DEF NewTask, AnyRecord, TaskRecord, TaskStatus
<1>. QED
  BY <1>1 DEF Init, Types, TypeOK, Shape

LEMMA TypesStep == Types /\ InTick /\ Working /\ [Next]_vars => Types'
<1> SUFFICES ASSUME Types, InTick, Working, [Next]_vars PROVE Types'
  OBVIOUS
<1> USE DEF Types, TypeOK, Shape, setup, loopVars, outputVars
<1>1. CASE Validate
  BY <1>1 DEF Validate
<1>2. CASE Reconcile
  <2>1. session' \in {"none", "running", "completed", "failed"}
    BY <1>2 DEF Reconcile, Verdict
  <2>. QED
    BY <1>2, <2>1, ScheduledType DEF Reconcile, TaskRecord
<1>3. CASE ReconcileFails
  <2>1. session' \in {"none", "running", "completed", "failed"}
    BY <1>3 DEF ReconcileFails, Verdict
  <2>2. /\ store' \in [Tasks -> AnyRecord]
        /\ \A t \in Tasks : store'[t] \in TaskRecord(t)
    BY <1>3, ScheduledType DEF ReconcileFails
  <2>3. faults' \in 0..MaxFaults
    BY <1>3 DEF ReconcileFails, Fault
  <2>. QED
    BY <1>3, <2>1, <2>2, <2>3, ScheduledType DEF ReconcileFails, TaskRecord
<1>4. CASE BeginTick
  BY <1>4 DEF BeginTick, TaskRecord
<1>5. CASE EndTick
  <2>1. /\ task' \in [Tasks -> AnyRecord]
        /\ \A t \in Tasks : task'[t] \in TaskRecord(t)
    BY <1>5 DEF EndTick
  <2>. QED
    BY <1>5, <2>1 DEF EndTick, TaskRecord
<1>6. CASE TickRejects \/ LeaveLoop \/ CatchFailure
  BY <1>6 DEF TickRejects, LeaveLoop, CatchFailure, TaskRecord
<1>7. ASSUME NEW t \in Tasks, TaskStep(t) \/ TaskFault(t) PROVE Types'
  <2>0. /\ Running(t) \in TaskRecord(t) /\ Unassigned(t) \in TaskRecord(t)
        /\ With(t, "completed") \in TaskRecord(t) /\ Retried(t) \in TaskRecord(t)
        /\ Saving(t) \in TaskRecord(t) /\ task[t] \in TaskRecord(t)
        /\ Running(t).attempt \in 0..MaxAttempts[t]
        /\ TaskRecord(t) \subseteq AnyRecord /\ MaxAttempts[t] \in Nat
    BY RecordTypes, RecordParts
  <2>1. /\ store' \in [Tasks -> AnyRecord]
        /\ \A u \in Tasks : store'[u] \in TaskRecord(u)
    <3>1. CASE TaskFault(t)
      BY <2>0, <3>1 DEF TaskFault
    <3>2. CASE TaskStep(t)
      <4>1. store' = store \/ \E value \in {Unassigned(t), Running(t), With(t, "completed"), Retried(t)} :
                                store' = [store EXCEPT ![t] = value]
        <5>1. CASE Unassign(t) \/ Start(t) \/ Complete(t) \/ CatchTask(t)
          BY <5>1 DEF Unassign, Start, Complete, CatchTask, Save
        <5>2. CASE Invoke(t) \/ AgentAnswers(t) \/ AgentFails(t) \/ PersistEvidence(t)
          BY <5>2 DEF Invoke, AgentAnswers, AgentFails, PersistEvidence
        <5>. QED
          BY <3>2, <5>1, <5>2 DEF TaskStep
      <4>2. /\ store \in [Tasks -> AnyRecord] /\ TaskRecord(t) \subseteq AnyRecord
            /\ \A u \in Tasks : store[u] \in TaskRecord(u)
        BY <2>0 DEF Shape
      <4>3. \A value \in {Unassigned(t), Running(t), With(t, "completed"), Retried(t)} :
              value \in TaskRecord(t)
        BY <2>0
      <4>. HIDE DEF TypeOK, Types, Shape, AnyRecord
      <4>4. CASE store' = store
        BY <4>2, <4>4
      <4>5. ASSUME NEW value \in TaskRecord(t), store' = [store EXCEPT ![t] = value]
            PROVE  /\ store' \in [Tasks -> AnyRecord]
                   /\ \A u \in Tasks : store'[u] \in TaskRecord(u)
        BY <4>2, <4>5
      <4>. QED
        BY <4>1, <4>3, <4>4, <4>5
    <3>. QED
      BY <1>7, <3>1, <3>2
  <2>2. /\ result' \in [Tasks -> AnyRecord]
        /\ \A u \in Tasks : result'[u] \in TaskRecord(u)
    BY <1>7, <2>0 DEF TaskStep, TaskFault, Unassign, Start, Invoke, AgentAnswers, AgentFails,
       Complete, PersistEvidence, CatchTask, Resolve
  <2>3. phase' \in [Tasks -> {"none", "selected", "granted", "invoked", "answered",
                              "completed", "caught", "resolved", "threw"}]
    BY <1>7 DEF TaskStep, TaskFault, Unassign, Start, Invoke, AgentAnswers, AgentFails,
       Complete, PersistEvidence, CatchTask, Resolve
  <2>4. \A g \in grants' : g[1] \in Tasks /\ g[2] \in 1..MaxAttempts[g[1]]
    <3>1. ASSUME Start(t), Running(t).status = "running"
          PROVE  Running(t).attempt \in 1..MaxAttempts[t]
      BY <3>1, RunningMoves DEF Start, InTick, Busy
    <3>2. CASE Start(t)
      BY <3>1, <3>2 DEF Start, Grant
    <3>3. CASE grants' \subseteq grants
      BY <3>3
    <3>. QED
      BY <1>7, <3>2, <3>3 DEF TaskStep, TaskFault, Unassign, Invoke, AgentAnswers, AgentFails,
         Complete, PersistEvidence, CatchTask
  <2>5. /\ actions' \in [Tasks -> [Slots -> Nat]]
        /\ \A u \in Tasks : actions'[u] \in [Slots -> 0..MaxAttempts[u]]
    <3>1. CASE UNCHANGED actions
      BY <3>1
    <3>2. ASSUME NEW saved \in SUBSET Slots, StoreActions(t, saved)
          PROVE  /\ actions' \in [Tasks -> [Slots -> Nat]]
                 /\ \A u \in Tasks : actions'[u] \in [Slots -> 0..MaxAttempts[u]]
      BY <3>2, <2>0 DEF StoreActions, Grant
    <3>. QED
      BY <1>7, <3>1, <3>2 DEF TaskStep, TaskFault, Unassign, Start, Invoke, AgentAnswers,
         AgentFails, Complete, PersistEvidence, CatchTask
  <2>6. evidence' \in [Tasks -> Nat] /\ \A u \in Tasks : evidence'[u] \in 0..MaxAttempts[u]
    <3>1. CASE UNCHANGED evidence
      BY <3>1
    <3>2. CASE PersistEvidence(t)
      BY <3>2, <2>0 DEF PersistEvidence, Grant
    <3>. QED
      BY <1>7, <3>1, <3>2 DEF TaskStep, TaskFault, Unassign, Start, Invoke, AgentAnswers,
         AgentFails, Complete, CatchTask
  <2>7. faults' \in 0..MaxFaults
    BY <1>7 DEF TaskStep, TaskFault, Fault, Unassign, Start, Invoke, AgentAnswers,
       AgentFails, Complete, PersistEvidence, CatchTask
  <2>8. \A u \in Tasks : {task'[u], store'[u], result'[u]} \subseteq TaskRecord(u)
    BY <1>7, <2>1, <2>2, TaskMoves
  <2>. QED
    BY <1>7, <2>1, <2>2, <2>3, <2>4, <2>5, <2>6, <2>7, <2>8, TaskMoves DEF TaskRecord
<1>8. CASE UNCHANGED vars
  BY <1>8 DEF vars, TaskRecord
<1>. QED
  BY <1>1, <1>2, <1>3, <1>4, <1>5, <1>6, <1>7, <1>8 DEF Next, LoopStep
-----------------------------------------------------------------------------
(* Ordered.  A validated graph names its own tasks, which is what lets the  *)
(* scheduler look up every dependency.                                      *)
LEMMA OrderedStep == Types /\ InTick /\ Ordered /\ [Next]_vars => Ordered'
<1> SUFFICES ASSUME Types, InTick, Ordered, [Next]_vars PROVE Ordered'
  OBVIOUS
<1> USE DEF Ordered, setup, loopVars, outputVars, DependsOn
<1>1. CASE Validate
  BY <1>1 DEF Validate, Valid
<1>2. CASE Reconcile \/ ReconcileFails
  <2>1. /\ task' = Scheduled(task) /\ workflow' = workflow
        /\ loop \notin {"validating", "refused"} /\ loop' \notin {"validating", "refused"}
    BY <1>2 DEF Reconcile, ReconcileFails
  <2>2. \A t \in Tasks : task[t].status = "completed" => task'[t] = task[t]
    BY <2>1, ScheduledTask
  <2>3. \A t \in Tasks : task'[t].status # "blocked" =>
          \A d \in workflow.dependsOn[t] : task[d].status = "completed"
    BY <2>1, ScheduledTask DEF Unlocked, HasStatus
  <2>. QED
    BY <2>1, <2>2, <2>3
<1>3. CASE EndTick
  <2>1. \A t \in Tasks : task[t].status # "ready" => task'[t] = task[t]
    BY <1>3 DEF EndTick, InTick, Busy
  <2>2. \A t \in Tasks : task'[t].status # "blocked" => task[t].status # "blocked"
    BY <2>1
  <2>. QED
    BY <1>3, <2>1, <2>2 DEF EndTick
<1>4. CASE BeginTick \/ TickRejects \/ LeaveLoop \/ CatchFailure
  BY <1>4 DEF BeginTick, TickRejects, LeaveLoop, CatchFailure
<1>5. ASSUME NEW t \in Tasks, TaskStep(t) \/ TaskFault(t) PROVE Ordered'
  BY <1>5, TaskMoves
<1>6. CASE UNCHANGED vars
  BY <1>6 DEF vars
<1>. QED
  BY <1>1, <1>2, <1>3, <1>4, <1>5, <1>6 DEF Next, LoopStep

(* InTick.                                                                  *)
LEMMA InTickStep == Types /\ InTick /\ [Next]_vars => InTick'
<1> SUFFICES ASSUME Types, InTick, [Next]_vars PROVE InTick'
  OBVIOUS
<1> USE DEF InTick, Busy, setup, loopVars, outputVars
<1>1. CASE Validate \/ Reconcile \/ ReconcileFails
  BY <1>1 DEF Validate, Reconcile, ReconcileFails
<1>2. CASE BeginTick
  BY <1>2 DEF BeginTick, ReadyTasks, HasStatus
<1>3. CASE EndTick
  BY <1>3 DEF EndTick
<1>4. CASE TickRejects \/ LeaveLoop \/ CatchFailure
  BY <1>4 DEF TickRejects, LeaveLoop, CatchFailure
<1>5. ASSUME NEW t \in Tasks, TaskStep(t) \/ TaskFault(t) PROVE InTick'
  BY <1>5, TaskMoves
<1>6. CASE UNCHANGED vars
  BY <1>6 DEF vars
<1>. QED
  BY <1>1, <1>2, <1>3, <1>4, <1>5, <1>6 DEF Next, LoopStep

(* Agree.                                                                   *)
LEMMA AgreeStep == Types /\ InTick /\ Working /\ Agree /\ [Next]_vars => Agree'
<1> SUFFICES ASSUME Types, InTick, Working, Agree, [Next]_vars PROVE Agree'
  OBVIOUS
<1> USE DEF Agree, Busy, setup, loopVars, outputVars
<1>1. CASE Validate
  BY <1>1 DEF Validate
<1>2. CASE Reconcile
  BY <1>2 DEF Reconcile
<1>3. CASE ReconcileFails
  BY <1>3 DEF ReconcileFails, InTick
<1>4. CASE BeginTick
  BY <1>4 DEF BeginTick, InTick
<1>5. CASE EndTick
  BY <1>5 DEF EndTick, Working
<1>6. CASE TickRejects
  BY <1>6 DEF TickRejects
<1>7. CASE LeaveLoop \/ CatchFailure
  BY <1>7 DEF LeaveLoop, CatchFailure
<1>8. ASSUME NEW t \in Tasks, TaskStep(t) \/ TaskFault(t) PROVE Agree'
  BY <1>8, TaskMoves
<1>9. CASE UNCHANGED vars
  BY <1>9 DEF vars
<1>. QED
  BY <1>1, <1>2, <1>3, <1>4, <1>5, <1>6, <1>7, <1>8, <1>9 DEF Next, LoopStep

(* Working.                                                                 *)
LEMMA SameRunning ==
  ASSUME task' = task
  PROVE  \A t \in Tasks : /\ Running(t)' = Running(t) /\ Grant(t)' = Grant(t)
                          /\ \A to : With(t, to)' = With(t, to)
  BY DEF Running, With, Grant

LEMMA WorkingStep == Types /\ InTick /\ Agree /\ Working /\ [Next]_vars => Working'
<1> SUFFICES ASSUME Types, InTick, Agree, Working, [Next]_vars PROVE Working'
  OBVIOUS
<1> USE DEF setup, loopVars, outputVars
<1>1. CASE Validate \/ Reconcile \/ ReconcileFails
  <2>1. \A t \in Tasks : phase'[t] = "none"
    BY <1>1 DEF Validate, Reconcile, ReconcileFails, InTick, Busy
  <2>. QED
    BY <2>1 DEF Working, AtWork
<1>2. CASE BeginTick \/ EndTick
  <2>1. \A t \in Tasks : phase'[t] \in {"none", "selected"}
    BY <1>2 DEF BeginTick, EndTick
  <2>. QED
    BY <2>1 DEF Working, AtWork
<1>3. CASE TickRejects \/ LeaveLoop \/ CatchFailure
  <2>1. UNCHANGED <<task, phase, store, result>>
    BY <1>3 DEF TickRejects, LeaveLoop, CatchFailure
  <2>. QED
    BY <2>1, SameRunning DEF Working, AtWork
<1>4. ASSUME NEW t \in Tasks, TaskStep(t) \/ TaskFault(t) PROVE Working'
  <2>1. /\ task' = task /\ phase[t] # "none"
        /\ \A u \in Tasks : u # t => /\ phase'[u] = phase[u] /\ store'[u] = store[u]
                                     /\ result'[u] = result[u]
    BY <1>4, TaskMoves
  <2>2. task[t].status = "ready"
    BY <2>1 DEF InTick, Busy
  <2>3. /\ phase'[t] \in {"granted", "invoked", "answered", "completed", "caught"}
             => Running(t).status = "running"
        /\ phase'[t] = "completed" => store'[t] = With(t, "completed")
        /\ phase'[t] = "resolved" => result'[t] = store'[t]
    <3> USE DEF Working, AtWork, Types, TypeOK, Shape, Save, Resolve
    <3>1. CASE Unassign(t)
      BY <3>1 DEF Unassign
    <3>2. CASE Start(t)
      <4>1. phase[t] = "selected" /\ loop \in {"ticking", "catch", "ended"}
        BY <3>2, <2>1 DEF Start, InTick, Busy
      <4>2. store[t] = task[t]
        BY <4>1 DEF Agree, Busy
      <4>. QED
        BY <3>2, <4>2 DEF Start
    <3>3. CASE Invoke(t)
      BY <3>3 DEF Invoke
    <3>4. CASE AgentAnswers(t) \/ AgentFails(t)
      BY <3>4 DEF AgentAnswers, AgentFails
    <3>5. CASE Complete(t)
      BY <3>5 DEF Complete
    <3>6. CASE PersistEvidence(t)
      BY <3>6 DEF PersistEvidence
    <3>7. CASE CatchTask(t)
      BY <3>7 DEF CatchTask
    <3>8. CASE TaskFault(t)
      BY <3>8 DEF TaskFault
    <3>. QED
      BY <1>4, <3>1, <3>2, <3>3, <3>4, <3>5, <3>6, <3>7, <3>8 DEF TaskStep
  <2>. QED
    BY <2>1, <2>3, SameRunning DEF Working, AtWork
<1>5. CASE UNCHANGED vars
  BY <1>5, SameRunning DEF vars, Working, AtWork
<1>. QED
  BY <1>1, <1>2, <1>3, <1>4, <1>5 DEF Next, LoopStep
-----------------------------------------------------------------------------
(* Evidenced.  Evidence is stored before a result says "completed", and     *)
(* what is completed is never executed again.                               *)
LEMMA EvidencedStep ==
  Types /\ InTick /\ Working /\ Evidenced /\ [Next]_vars => Evidenced'
<1> SUFFICES ASSUME Types, InTick, Working, Evidenced, [Next]_vars PROVE Evidenced'
  OBVIOUS
<1> USE DEF Evidenced, setup, loopVars, outputVars
<1>1. CASE Validate \/ BeginTick \/ TickRejects \/ LeaveLoop \/ CatchFailure
  BY <1>1 DEF Validate, BeginTick, TickRejects, LeaveLoop, CatchFailure
<1>2. CASE Reconcile \/ ReconcileFails
  <2>1. /\ task' = Scheduled(task) /\ UNCHANGED evidence
        /\ \A t \in Tasks : phase'[t] = "none"
    BY <1>2 DEF Reconcile, ReconcileFails, InTick, Busy
  <2>. QED
    BY <2>1, ScheduledStatus
<1>3. CASE EndTick
  BY <1>3 DEF EndTick
<1>4. ASSUME NEW t \in Tasks, TaskStep(t) \/ TaskFault(t) PROVE Evidenced'
  <2>1. /\ task' = task /\ phase[t] # "none"
        /\ \A u \in Tasks : u # t => /\ phase'[u] = phase[u] /\ evidence'[u] = evidence[u]
                                     /\ result'[u] = result[u]
    BY <1>4, TaskMoves
  <2>2. task[t].status = "ready"
    BY <2>1 DEF InTick, Busy
  <2>3. phase'[t] = "resolved" /\ result'[t].status = "completed"
          => evidence'[t] = result'[t].attempt
    <3> USE DEF Types, TypeOK, Shape, Resolve
    <3>1. CASE Unassign(t)
      BY <3>1, <2>2, ReadyMoves DEF Unassign
    <3>2. CASE Start(t)
      BY <3>2, <2>2 DEF Start
    <3>3. CASE PersistEvidence(t)
      <4>1. Running(t).status = "running"
        BY <3>3 DEF PersistEvidence, Working, AtWork
      <4>. QED
        BY <3>3, <4>1, <2>2, RunningMoves DEF PersistEvidence, Grant
    <3>4. CASE CatchTask(t)
      <4>1. Running(t).status = "running"
        BY <3>4 DEF CatchTask, Working
      <4>. QED
        BY <3>4, <4>1, <2>2, RunningMoves DEF CatchTask, Retried
    <3>5. CASE phase'[t] # "resolved"
      BY <3>5
    <3>. QED
      BY <1>4, <3>1, <3>2, <3>3, <3>4, <3>5 DEF TaskStep, TaskFault, Invoke, AgentAnswers,
         AgentFails, Complete
  <2>. QED
    BY <2>1, <2>2, <2>3
<1>5. CASE UNCHANGED vars
  BY <1>5 DEF vars
<1>. QED
  BY <1>1, <1>2, <1>3, <1>4, <1>5 DEF Next, LoopStep

(* Judged.  Nothing that is completed, failed or unassigned is executed     *)
(* again, so that the records behind a verdict stay.                        *)
LEMMA JudgedStep ==
  Types /\ InTick /\ Agree /\ Judged /\ [Next]_vars => Judged'
<1> SUFFICES ASSUME Types, InTick, Agree, Judged, [Next]_vars PROVE Judged'
  OBVIOUS
<1> USE DEF Judged, setup, loopVars, outputVars
<1>1. faults \in Nat
  BY DEF Types, TypeOK
<1>2. CASE Validate \/ LeaveLoop
  BY <1>2 DEF Validate, LeaveLoop
<1>3. CASE Reconcile \/ ReconcileFails
  <2>1. /\ task' = Scheduled(task) /\ loop \in {"starting", "reconciling"}
        /\ \A t \in Tasks : phase[t] = "none" /\ phase'[t] = "none"
    BY <1>3 DEF Reconcile, ReconcileFails, InTick, Busy
  <2>2. \A t \in Tasks : store[t] = task[t]
    BY <2>1 DEF Agree
  <2>3. \A t \in Tasks : /\ task[t].status # "blocked" => Scheduled(task)[t] = task[t]
                         /\ task[t].status = "blocked"
                              => Scheduled(task)[t].status \in {"blocked", "ready"}
    BY ScheduledStatus
  <2>4. \A t \in Tasks : store'[t] \in {task[t], Scheduled(task)[t]}
    BY <1>3, <2>2 DEF Reconcile, ReconcileFails
  <2>5. \A t \in Tasks : task[t].status \in {"completed", "failed", "unassigned"}
          => task'[t] = task[t] /\ store'[t] = task[t]
    BY <2>1, <2>3, <2>4
  <2>6. loop' = "catch" => faults' > 0
    BY <1>1, <1>3 DEF Reconcile, ReconcileFails, Fault
  <2>7. session' = "completed" => \A t \in Tasks : task[t].status = "completed"
    <3>1. session' = session \/ session' = Verdict(Scheduled(task))
      BY <1>3 DEF Reconcile, ReconcileFails
    <3>2. CASE session' = "completed" /\ session # "completed"
      BY <2>3, <3>1, <3>2 DEF Verdict, HasStatus
    <3>. QED
      BY <3>2
  <2>8. session' = "failed" /\ faults' = 0
          => \E t \in Tasks : task[t].status \in {"failed", "unassigned"}
    <3>1. CASE Reconcile /\ session' = "failed" /\ session # "failed"
      BY <2>3, <3>1 DEF Reconcile, Verdict, HasStatus
    <3>2. CASE session = "failed" /\ faults' = 0
      BY <1>3, <3>2, <1>1 DEF Reconcile, ReconcileFails, Fault
    <3>3. ReconcileFails => faults' > 0
      BY <1>1 DEF ReconcileFails, Fault
    <3>. QED
      BY <1>3, <3>1, <3>2, <3>3
  <2>. QED
    BY <2>1, <2>5, <2>6, <2>7, <2>8
<1>4. CASE BeginTick
  BY <1>4 DEF BeginTick
<1>5. CASE EndTick
  <2>1. \A t \in Tasks : task[t].status # "ready" => task'[t] = task[t]
    BY <1>5 DEF EndTick, InTick, Busy
  <2>. QED
    BY <1>5, <2>1 DEF EndTick
<1>6. CASE TickRejects
  BY <1>6 DEF TickRejects
<1>7. CASE CatchFailure
  BY <1>1, <1>7 DEF CatchFailure
<1>8. ASSUME NEW t \in Tasks, TaskStep(t) \/ TaskFault(t) PROVE Judged'
  <2>1. /\ UNCHANGED <<task, session, loop>> /\ phase[t] # "none"
        /\ \A u \in Tasks : u # t => phase'[u] = phase[u] /\ store'[u] = store[u]
        /\ faults' = faults \/ faults' > 0
    BY <1>8, TaskMoves
  <2>2. task[t].status = "ready"
    BY <2>1 DEF InTick, Busy
  <2>3. phase'[t] = "threw" => faults' > 0
    <3>1. TaskFault(t) => faults' > 0
      BY <1>1 DEF TaskFault, Fault
    <3>2. TaskStep(t) => phase'[t] # "threw"
      BY DEF TaskStep, Types, TypeOK, Resolve, Unassign, Start, Invoke, AgentAnswers,
         AgentFails, Complete, PersistEvidence, CatchTask
    <3>. QED
      BY <1>8, <3>1, <3>2
  <2>. QED
    BY <1>1, <2>1, <2>2, <2>3
<1>9. CASE UNCHANGED vars
  BY <1>9 DEF vars
<1>. QED
  BY <1>2, <1>3, <1>4, <1>5, <1>6, <1>7, <1>8, <1>9 DEF Next, LoopStep
-----------------------------------------------------------------------------
(* GrantsAreRunScoped is inductive once grants are known to be issued in a  *)
(* tick only.                                                               *)
LEMMA ScopedStep ==
  Types /\ InTick /\ GrantsAreRunScoped /\ [Next]_vars => GrantsAreRunScoped'
<1> SUFFICES ASSUME Types, InTick, GrantsAreRunScoped, [Next]_vars, faults' = 0
             PROVE  \A g \in grants' : /\ phase'[g[1]] \in {"granted", "invoked"}
                                       /\ g = Grant(g[1])'
  BY DEF GrantsAreRunScoped
<1> USE DEF setup, loopVars, outputVars
<1>1. faults \in Nat /\ \A g \in grants : g[1] \in Tasks
  BY DEF Types, TypeOK
<1>2. CASE Validate \/ Reconcile \/ BeginTick \/ EndTick
  <2>1. faults = 0 /\ grants' = grants /\ \A t \in Tasks : phase[t] \notin {"granted", "invoked"}
    BY <1>2 DEF Validate, Reconcile, BeginTick, EndTick, InTick, Busy
  <2>. QED
    BY <1>1, <2>1 DEF GrantsAreRunScoped
<1>3. CASE ReconcileFails
  BY <1>1, <1>3 DEF ReconcileFails, Fault
<1>4. CASE TickRejects \/ LeaveLoop \/ CatchFailure
  <2>1. UNCHANGED <<faults, grants, phase, task>>
    BY <1>4 DEF TickRejects, LeaveLoop, CatchFailure
  <2>. QED
    BY <1>1, <2>1, SameRunning DEF GrantsAreRunScoped
<1>5. ASSUME NEW t \in Tasks, TaskStep(t)
      PROVE  \A g \in grants' : phase'[g[1]] \in {"granted", "invoked"} /\ g = Grant(g[1])'
  <2>1. /\ task' = task
        /\ \A u \in Tasks : u # t => phase'[u] = phase[u]
    BY <1>5, TaskMoves
  <2>2. faults = 0
    BY <1>5 DEF TaskStep, Unassign, Start, Invoke, AgentAnswers, AgentFails, Complete,
       PersistEvidence, CatchTask
  <2>3. \A g \in grants : phase[g[1]] \in {"granted", "invoked"} /\ g = Grant(g[1])
    BY <2>2 DEF GrantsAreRunScoped
  <2>4. \A g \in grants' :
          \/ g \in grants /\ g[1] # t
          \/ g = Grant(t) /\ phase'[t] \in {"granted", "invoked"}
    <3> USE DEF Types, TypeOK, Resolve
    <3>1. CASE phase[t] \notin {"granted", "invoked"} /\ grants' = grants
      BY <2>3, <3>1
    <3>2. CASE Start(t)
      BY <2>3, <3>2 DEF Start
    <3>3. CASE Invoke(t)
      BY <2>3, <3>3 DEF Invoke
    <3>4. CASE AgentAnswers(t) \/ AgentFails(t)
      BY <2>3, <3>4 DEF AgentAnswers, AgentFails
    <3>. QED
      BY <1>5, <3>1, <3>2, <3>3, <3>4 DEF TaskStep, Unassign, Complete, PersistEvidence, CatchTask
  <2>5. Grant(t)[1] = t
    BY DEF Grant
  <2>. QED
    BY <1>1, <2>1, <2>3, <2>4, <2>5, SameRunning
<1>6. ASSUME NEW t \in Tasks, TaskFault(t) PROVE FALSE
  BY <1>1, <1>6 DEF TaskFault, Fault
<1>7. CASE UNCHANGED vars
  <2>1. UNCHANGED <<faults, grants, phase, task>>
    BY <1>7 DEF vars
  <2>. QED
    BY <1>1, <2>1, SameRunning DEF GrantsAreRunScoped
<1>. QED
  BY <1>2, <1>3, <1>4, <1>5, <1>6, <1>7 DEF Next, LoopStep

(* Attributed.  Without failing writes, an attempt that stored actions ends *)
(* completed: there is no later one whose actions could join them.          *)
LEMMA AttributedStep ==
  Types /\ InTick /\ Working /\ Attributed /\ [Next]_vars => Attributed'
<1> SUFFICES ASSUME Types, InTick, Working, Attributed, [Next]_vars, faults' = 0,
                    NEW t \in Tasks, NEW i \in Slots
             PROVE  (\/ actions[t][i] = 0
                     \/ phase[t] \in {"answered", "completed"}
                          /\ actions[t][i] = Running(t).attempt
                     \/ /\ phase[t] = "resolved" /\ result[t].status = "completed"
                        /\ actions[t][i] = result[t].attempt
                     \/ task[t].status = "completed" /\ actions[t][i] = task[t].attempt)'
  BY DEF Attributed
<1> USE DEF setup, loopVars, outputVars
<1>1. faults = 0
  <2>1. faults \in Nat
    BY DEF Types, TypeOK
  <2>. QED
    BY <2>1 DEF Next, LoopStep, TaskStep, TaskFault, Fault, Validate, Reconcile,
       ReconcileFails, BeginTick, EndTick, TickRejects, LeaveLoop, CatchFailure, Unassign,
       Start, Invoke, AgentAnswers, AgentFails, Complete, PersistEvidence, CatchTask, vars
<1>2. \/ actions[t][i] = 0
      \/ phase[t] \in {"answered", "completed"} /\ actions[t][i] = Running(t).attempt
      \/ /\ phase[t] = "resolved" /\ result[t].status = "completed"
         /\ actions[t][i] = result[t].attempt
      \/ task[t].status = "completed" /\ actions[t][i] = task[t].attempt
  BY <1>1 DEF Attributed
<1>3. CASE Validate \/ Reconcile \/ BeginTick
  <2>1. phase[t] = "none" /\ actions' = actions
    BY <1>3 DEF Validate, Reconcile, BeginTick, InTick, Busy
  <2>2. task[t].status = "completed" => task'[t] = task[t]
    BY <1>3, ScheduledStatus DEF Validate, Reconcile, BeginTick
  <2>. QED
    BY <1>2, <2>1, <2>2
<1>4. CASE ReconcileFails
  BY <1>1, <1>4 DEF ReconcileFails, Fault
<1>5. CASE EndTick
  <2>1. task[t].status = "completed" => phase[t] = "none"
    BY DEF InTick, Busy
  <2>. QED
    BY <1>2, <1>5, <2>1 DEF EndTick
<1>6. CASE UNCHANGED <<task, phase, result, actions>>
  BY <1>2, <1>6, SameRunning
<1>7. ASSUME NEW u \in Tasks, TaskStep(u), u # t
      PROVE  UNCHANGED <<task, phase[t], result[t], actions[t]>>
  BY <1>7, TaskMoves
<1>8. CASE TaskStep(t)
  <2>1. task' = task /\ phase[t] \notin {"none", "resolved"}
    BY <1>8, TaskMoves
  <2>2. task[t].status = "ready" /\ Running(t)' = Running(t)
    BY <2>1, SameRunning DEF InTick, Busy
  <2>3. \/ actions[t][i] = 0
        \/ phase[t] \in {"answered", "completed"} /\ actions[t][i] = Running(t).attempt
    BY <1>2, <2>1, <2>2
  <2> USE DEF Types, TypeOK, Shape, Resolve
  <2>4. CASE AgentAnswers(t)
    BY <2>2, <2>3, <2>4 DEF AgentAnswers, StoreActions, Grant
  <2>5. CASE Complete(t)
    BY <2>2, <2>3, <2>5 DEF Complete
  <2>6. CASE PersistEvidence(t)
    <3>1. Running(t).status = "running"
      BY <2>6 DEF PersistEvidence, Working, AtWork
    <3>2. With(t, "completed") = [status |-> "completed", attempt |-> Running(t).attempt]
      BY <2>2, <3>1, RunningMoves
    <3>. QED
      BY <2>3, <2>6, <3>2 DEF PersistEvidence
  <2>7. CASE actions'[t] = actions[t] /\ phase[t] \notin {"answered", "completed"}
    BY <2>3, <2>7
  <2>. QED
    BY <1>8, <2>4, <2>5, <2>6, <2>7 DEF TaskStep, Unassign, Start, Invoke, AgentFails, CatchTask
<1>9. ASSUME NEW u \in Tasks, TaskFault(u) PROVE FALSE
  BY <1>1, <1>9 DEF TaskFault, Fault
<1>. QED
  <2>1. ASSUME NEW u \in Tasks, TaskStep(u), u # t
        PROVE  Running(t)' = Running(t)
    BY <2>1, TaskMoves, SameRunning
  <2>2. CASE \E u \in Tasks : TaskStep(u)
    BY <1>2, <1>7, <1>8, <2>1, <2>2
  <2>. QED
    BY <1>3, <1>4, <1>5, <1>6, <1>9, <2>2 DEF Next, LoopStep, TickRejects, LeaveLoop,
       CatchFailure, vars
-----------------------------------------------------------------------------
LEMMA InvInit == Init => Inv
<1> SUFFICES ASSUME Init PROVE Inv
  OBVIOUS
<1>1. Types
  BY TypesInit
<1>2. /\ loop = "validating" /\ session = "none" /\ faults = 0 /\ grants = {}
      /\ \A t \in Tasks : /\ task[t].status = "blocked" /\ store[t] = task[t]
                          /\ phase[t] = "none"
                          /\ \A i \in Slots : actions[t][i] = 0
  BY DEF Init, NewTask
<1>3. Ordered /\ InTick /\ Agree /\ Working
  BY <1>2 DEF Ordered, InTick, Busy, Agree, Working, AtWork
<1>4. Evidenced /\ Judged /\ GrantsAreRunScoped /\ Attributed
  BY <1>2 DEF Evidenced, Judged, GrantsAreRunScoped, Attributed
<1>. QED
  BY <1>1, <1>3, <1>4 DEF Inv

LEMMA InvStep == Inv /\ [Next]_vars => Inv'
  BY TypesStep, OrderedStep, InTickStep, AgreeStep, WorkingStep, EvidencedStep, JudgedStep,
     ScopedStep, AttributedStep DEF Inv

(* Inv is an invariant.                                                     *)
LEMMA Invariance == Spec => []Inv
  BY InvInit, InvStep, PTL DEF Spec

(* Every variable keeps its type; in particular no task exceeds its         *)
(* attempts, in memory or in the store.                                     *)
THEOREM CoordinatorTypeCorrect == Spec => []TypeOK
<1>1. Inv => TypeOK
  BY DEF Inv, Types
<1>. QED
  BY <1>1, Invariance, PTL

(* A task is at work only when its dependencies are completed in the store, *)
(* with the evidence of the attempt that completed them.                    *)
THEOREM DependenciesComeFirst == Spec => []DependenciesFirst
<1>1. ASSUME Inv, NEW t \in Tasks, AtWork(t), NEW d \in DependsOn[t]
      PROVE  store[d].status = "completed" /\ evidence[d] = store[d].attempt
  <2>1. phase[t] # "none"
    BY <1>1 DEF AtWork
  <2>2. task[t].status = "ready" /\ loop \in {"ticking", "catch", "ended"}
    BY <1>1, <2>1 DEF Inv, InTick, Busy
  <2>3. d \in Tasks /\ task[d].status = "completed"
    BY <1>1, <2>2 DEF Inv, Ordered
  <2>4. phase[d] = "none"
    BY <1>1, <2>3 DEF Inv, InTick, Busy
  <2>5. store[d] = task[d]
    BY <1>1, <2>1, <2>3, <2>4 DEF Inv, Agree, Busy
  <2>. QED
    BY <1>1, <2>3, <2>5 DEF Inv, Evidenced
<1>2. Inv => DependenciesFirst
  BY <1>1 DEF DependenciesFirst
<1>. QED
  BY <1>2, Invariance, PTL

(* The session's verdict stands on the records in the store.                *)
THEOREM VerdictsStand == Spec => []SessionVerdict
<1>1. Inv => SessionVerdict
  BY DEF Inv, Types, TypeOK, Judged, SessionVerdict
<1>. QED
  BY <1>1, Invariance, PTL

(* While no write failed, a grant is held by the attempt it is for.         *)
THEOREM GrantsEndWithTheirRun == Spec => []GrantsAreRunScoped
<1>1. Inv => GrantsAreRunScoped
  BY DEF Inv
<1>. QED
  BY <1>1, Invariance, PTL

(* While no write failed, the policy judges actions of last attempts only.  *)
THEOREM PolicySeesLastAttempts == Spec => []ActionsOfLastAttempt
<1>1. ASSUME Inv, loop = "policy", faults = 0, NEW t \in Tasks, NEW i \in Slots
      PROVE  actions[t][i] \in {0, store[t].attempt}
  <2>1. phase[t] = "none"
    BY <1>1 DEF Inv, InTick, Busy
  <2>2. store[t] = task[t]
    BY <1>1, <2>1 DEF Inv, Agree
  <2>. QED
    BY <1>1, <2>1, <2>2 DEF Inv, Attributed
<1>2. Inv => ActionsOfLastAttempt
  BY <1>1 DEF ActionsOfLastAttempt
<1>. QED
  BY <1>2, Invariance, PTL
-----------------------------------------------------------------------------
(* What LoopReachesVerdict rests on.  The loop cannot stop, for want of a   *)
(* ready task, at a session that has no verdict: the graph that was let in  *)
(* has no cycle, and between two ticks everything that can be unlocked is.  *)
(* And every tick that ends uses up an attempt, or a task nobody takes, so  *)
(* that the bound on ticks is only met by workflows with more attempts.     *)

Graph == loop \notin {"validating", "refused"} => TakesAll

(* What a task is between ticks, and what executeTask resolves with: each   *)
(* attempt is spent, and a task is ready only with an attempt left.         *)
Spending ==
    \A t \in Tasks :
      /\ task[t].status \in {"blocked", "ready", "completed", "failed", "unassigned"}
      /\ task[t].status = "blocked" => task[t].attempt = 0
      /\ task[t].status = "ready" => task[t].attempt < MaxAttempts[t]
      /\ phase[t] = "resolved" =>
           \/ result[t].status = "unassigned" /\ result[t].attempt = task[t].attempt
           \/ /\ result[t].attempt = task[t].attempt + 1
              /\ result[t].status \in {"ready", "completed", "failed"}
              /\ result[t].status = "ready" => result[t].attempt < MaxAttempts[t]

(* Where the loop looks for ready tasks, the scheduler has nothing left to  *)
(* unlock, and the session tells what the tasks are.                        *)
Reconciled ==
    loop \in {"checking", "policy"} =>
      /\ \A t \in Tasks : ~Unlocked(task, t)
      /\ (\A t \in Tasks : task[t].status = "completed") => session = "completed"
      /\ (\E t \in Tasks : task[t].status \in {"failed", "unassigned"})
           => session = "failed"
      /\ loop = "policy" => ReadyTasks = {} \/ ticks = MaxTicks

(* All the attempts of a workflow, and the ones that are gone.              *)
AttemptsOf(t) == {<<t, n>> : n \in 1..MaxAttempts[t]}
Budget == UNION {AttemptsOf(t) : t \in Tasks}
Gone(f) == {a \in Budget : f[a[1]].status = "unassigned" \/ a[2] <= f[a[1]].attempt}

Counted ==
    /\ loop = "ticking" => \E t \in Tasks : Busy(t)
    /\ loop \notin {"catch", "ended"} =>
         ticks <= Cardinality(Gone(task)) + (IF loop = "ticking" THEN 1 ELSE 0)

Progress == Graph /\ Spending /\ Reconciled /\ Counted
-----------------------------------------------------------------------------
LEMMA BudgetIsFinite == IsFiniteSet(Budget)
<1> DEFINE Parts == {AttemptsOf(t) : t \in Tasks}
<1>1. ASSUME NEW t \in Tasks PROVE IsFiniteSet(AttemptsOf(t))
  <2>1. MaxAttempts[t] \in Nat /\ IsFiniteSet(1..MaxAttempts[t])
    BY FS_Interval
  <2>2. [n \in 1..MaxAttempts[t] |-> <<t, n>>] \in Surjection(1..MaxAttempts[t], AttemptsOf(t))
    BY DEF Surjection, AttemptsOf
  <2>. QED
    BY <2>1, <2>2, FS_Surjection
<1>2. [t \in Tasks |-> AttemptsOf(t)] \in Surjection(Tasks, Parts)
  BY DEF Surjection
<1>3. IsFiniteSet(Parts)
  BY <1>2, FS_Surjection, TasksAssumption
<1>4. \A T \in Parts : IsFiniteSet(T)
  BY <1>1
<1>. QED
  BY <1>3, <1>4, FS_UNION DEF Budget

LEMMA GoneIsFinite ==
  ASSUME NEW f
  PROVE  /\ Cardinality(Gone(f)) \in Nat
         /\ Cardinality(Gone(f)) <= Cardinality(Budget)
         /\ Cardinality(Gone(f)) = Cardinality(Budget) => Gone(f) = Budget
         /\ Cardinality(Budget) \in Nat
<1>1. Gone(f) \in SUBSET Budget
  BY DEF Gone
<1>2. IsFiniteSet(Gone(f))
  BY <1>1, BudgetIsFinite, FS_Subset
<1>. QED
  BY <1>1, <1>2, BudgetIsFinite, FS_Subset, FS_CardinalityType

(* A ready task has an attempt that is not gone.                            *)
LEMMA ReadyIsNotGone ==
  ASSUME Types, NEW t \in Tasks, NEW f, f[t].status = "ready", f[t].attempt \in Nat,
         f[t].attempt < MaxAttempts[t]
  PROVE  <<t, f[t].attempt + 1>> \in Budget \ Gone(f)
<1>1. f[t].attempt + 1 \in 1..MaxAttempts[t] /\ ~(f[t].attempt + 1 <= f[t].attempt)
  OBVIOUS
<1>2. <<t, f[t].attempt + 1>> \in Budget
  BY <1>1 DEF Budget, AttemptsOf
<1>. QED
  BY <1>1, <1>2 DEF Gone

LEMMA MoreIsGone ==
  ASSUME NEW f, NEW g, Gone(f) \subseteq Gone(g)
  PROVE  /\ Cardinality(Gone(f)) <= Cardinality(Gone(g))
         /\ Gone(f) # Gone(g) => Cardinality(Gone(f)) + 1 <= Cardinality(Gone(g))
<1>1. Gone(g) \in SUBSET Budget
  BY DEF Gone
<1>2. IsFiniteSet(Gone(g))
  BY <1>1, BudgetIsFinite, FS_Subset
<1>3. /\ Cardinality(Gone(f)) <= Cardinality(Gone(g))
      /\ Cardinality(Gone(g)) = Cardinality(Gone(f)) => Gone(g) = Gone(f)
  BY <1>2, FS_Subset
<1>. QED
  BY <1>3, GoneIsFinite
-----------------------------------------------------------------------------
LEMMA GraphStep == Graph /\ [Next]_vars => Graph'
<1> SUFFICES ASSUME Graph, [Next]_vars PROVE Graph'
  OBVIOUS
<1>1. workflow' = workflow
  BY DEF Next, LoopStep, TaskStep, TaskFault, Validate, Reconcile, ReconcileFails, BeginTick,
     EndTick, TickRejects, LeaveLoop, CatchFailure, Unassign, Start, Invoke, AgentAnswers,
     AgentFails, Complete, PersistEvidence, CatchTask, vars, setup
<1>2. \/ loop' \in {"validating", "refused"} \/ loop \notin {"validating", "refused"}
      \/ Valid
  BY DEF Next, LoopStep, TaskStep, TaskFault, Validate, Reconcile, ReconcileFails, BeginTick,
     EndTick, TickRejects, LeaveLoop, CatchFailure, Unassign, Start, Invoke, AgentAnswers,
     AgentFails, Complete, PersistEvidence, CatchTask, vars, loopVars
<1>3. TakesAll' = TakesAll
  BY <1>1 DEF TakesAll, Takes, DependsOn
<1>. QED
  BY <1>2, <1>3 DEF Graph, Valid

(* Spending.  The steps of executeTask that resolve.                        *)
LEMMA ResolvesSpent ==
  ASSUME Types, InTick, Working, Spending, NEW t \in Tasks, TaskStep(t) \/ TaskFault(t),
         phase'[t] = "resolved"
  PROVE  \/ result'[t].status = "unassigned" /\ result'[t].attempt = task[t].attempt
         \/ /\ result'[t].attempt = task[t].attempt + 1
            /\ result'[t].status \in {"ready", "completed", "failed"}
            /\ result'[t].status = "ready" => result'[t].attempt < MaxAttempts[t]
<1>1. phase[t] # "none"
  BY TaskMoves
<1>2. task[t].status = "ready" /\ task[t].attempt < MaxAttempts[t]
  BY <1>1 DEF InTick, Busy, Spending
<1>3. Running(t).status = "running"
  BY <1>2, ReadyMoves
<1>4. /\ \A to \in {"ready", "completed", "failed"} :
            With(t, to) = [status |-> to, attempt |-> task[t].attempt + 1]
      /\ Running(t).attempt = task[t].attempt + 1
  BY <1>2, <1>3, RunningMoves
<1> USE DEF Types, TypeOK, Shape, Resolve
<1>5. CASE Unassign(t)
  <2>1. result'[t] = [status |-> "unassigned", attempt |-> task[t].attempt]
    BY <1>2, <1>5, ReadyMoves DEF Unassign
  <2>. QED
    BY <2>1
<1>6. CASE Start(t)
  BY <1>3, <1>6 DEF Start
<1>7. CASE PersistEvidence(t)
  BY <1>4, <1>7 DEF PersistEvidence
<1>8. CASE CatchTask(t)
  <2>1. result'[t] = Retried(t)
    BY <1>8 DEF CatchTask
  <2>2. CASE RetriesLeft(t)
    BY <1>4, <2>1, <2>2 DEF Retried, RetriesLeft
  <2>3. CASE ~RetriesLeft(t)
    BY <1>4, <2>1, <2>3 DEF Retried
  <2>. QED
    BY <2>2, <2>3
<1>9. CASE Invoke(t) \/ AgentAnswers(t) \/ AgentFails(t) \/ Complete(t) \/ TaskFault(t)
  BY <1>9 DEF Invoke, AgentAnswers, AgentFails, Complete, TaskFault
<1>. QED
  BY <1>5, <1>6, <1>7, <1>8, <1>9 DEF TaskStep

LEMMA ScheduledParts ==
  ASSUME Types, NEW t \in Tasks
  PROVE  /\ Scheduled(task)[t].attempt = task[t].attempt
         /\ IF Unlocked(task, t)
            THEN task[t].status = "blocked" /\ Scheduled(task)[t].status = "ready"
            ELSE Scheduled(task)[t] = task[t]
<1>1. CASE Unlocked(task, t)
  <2>1. /\ task[t].status = "blocked"
        /\ Scheduled(task)[t] = [status |-> "ready", attempt |-> task[t].attempt]
    BY <1>1, ScheduledTask
  <2>2. Scheduled(task)[t].status = "ready" /\ Scheduled(task)[t].attempt = task[t].attempt
    BY <2>1
  <2>. QED
    BY <1>1, <2>1, <2>2
<1>2. CASE ~Unlocked(task, t)
  BY <1>2, ScheduledTask
<1>. QED
  BY <1>1, <1>2

LEMMA SpendingStep ==
  Types /\ InTick /\ Working /\ Spending /\ [Next]_vars => Spending'
<1> SUFFICES ASSUME Types, InTick, Working, Spending, [Next]_vars PROVE Spending'
  OBVIOUS
<1> USE DEF setup, loopVars, outputVars
<1>1. CASE Validate \/ TickRejects \/ LeaveLoop \/ CatchFailure
  BY <1>1 DEF Spending, Validate, TickRejects, LeaveLoop, CatchFailure
<1>2. CASE Reconcile \/ ReconcileFails
  <2>1. task' = Scheduled(task) /\ \A t \in Tasks : phase'[t] = "none"
    BY <1>2 DEF Reconcile, ReconcileFails, InTick, Busy
  <2>2. ASSUME NEW t \in Tasks
        PROVE  \/ task'[t] = task[t]
               \/ /\ task[t].status = "blocked"
                  /\ task'[t].status = "ready" /\ task'[t].attempt = task[t].attempt
    BY <2>1, ScheduledParts
  <2>3. \A t \in Tasks : MaxAttempts[t] > 0
    OBVIOUS
  <2>. QED
    BY <2>1, <2>2, <2>3 DEF Spending
<1>3. CASE BeginTick
  BY <1>3 DEF Spending, BeginTick
<1>4. CASE EndTick
  <2>1. ASSUME NEW t \in Tasks
        PROVE  /\ phase'[t] = "none"
               /\ \/ task'[t] = task[t]
                  \/ phase[t] = "resolved" /\ task'[t] = result[t]
    BY <1>4 DEF EndTick
  <2>2. ASSUME NEW t \in Tasks, phase[t] = "resolved", task'[t] = result[t]
        PROVE  /\ task'[t].status \in {"ready", "completed", "failed", "unassigned"}
               /\ task'[t].status = "ready" => task'[t].attempt < MaxAttempts[t]
    BY <2>2 DEF Spending
  <2>. QED
    BY <2>1, <2>2 DEF Spending
<1>5. ASSUME NEW t \in Tasks, TaskStep(t) \/ TaskFault(t) PROVE Spending'
  <2>1. /\ task' = task
        /\ \A u \in Tasks : u # t => phase'[u] = phase[u] /\ result'[u] = result[u]
    BY <1>5, TaskMoves
  <2>. QED
    BY <1>5, <2>1, ResolvesSpent DEF Spending
<1>6. CASE UNCHANGED vars
  BY <1>6 DEF vars, Spending
<1>. QED
  BY <1>1, <1>2, <1>3, <1>4, <1>5, <1>6 DEF Next, LoopStep

(* Reconciled.  One pass of the scheduler unlocks all there is to unlock:   *)
(* what it makes ready is not completed.                                    *)
LEMMA NothingLeftToUnlock ==
  ASSUME Types, NEW t \in Tasks, \A d \in DependsOn[t] : d \in Tasks
  PROVE  ~Unlocked(Scheduled(task), t)
<1> SUFFICES ASSUME Unlocked(Scheduled(task), t) PROVE FALSE
  OBVIOUS
<1>1. /\ Scheduled(task)[t].status = "blocked"
      /\ \A d \in DependsOn[t] : Scheduled(task)[d].status = "completed"
  BY DEF Unlocked, HasStatus
<1>2. task[t].status = "blocked"
  BY <1>1, ScheduledStatus
<1>3. \A d \in DependsOn[t] : task[d].status = "completed"
  BY <1>1, ScheduledStatus
<1>4. Unlocked(task, t)
  BY <1>2, <1>3 DEF Unlocked, HasStatus
<1>. QED
  BY <1>1, <1>4, ScheduledParts

LEMMA ReconciledStep ==
  Types /\ Ordered /\ InTick /\ Spending /\ Reconciled /\ [Next]_vars => Reconciled'
<1> SUFFICES ASSUME Types, Ordered, InTick, Spending, Reconciled, [Next]_vars,
                    loop' \in {"checking", "policy"}
             PROVE  /\ \A t \in Tasks : ~Unlocked(task, t)'
                    /\ (\A t \in Tasks : task'[t].status = "completed")
                         => session' = "completed"
                    /\ (\E t \in Tasks : task'[t].status \in {"failed", "unassigned"})
                         => session' = "failed"
                    /\ loop' = "policy" => ReadyTasks' = {} \/ ticks' = MaxTicks
  BY DEF Reconciled
<1> USE DEF setup, loopVars, outputVars
<1>1. CASE Reconcile
  <2>1. /\ task' = Scheduled(task) /\ session' = Verdict(Scheduled(task))
        /\ workflow' = workflow /\ loop' = "checking"
        /\ loop \notin {"validating", "refused"}
    BY <1>1 DEF Reconcile
  <2>2. \A t \in Tasks : ~Unlocked(Scheduled(task), t)
    BY <2>1, NothingLeftToUnlock DEF Ordered
  <2>3. \A t \in Tasks : Unlocked(task, t)' = Unlocked(Scheduled(task), t)
    BY <2>1 DEF Unlocked, HasStatus, DependsOn
  <2>4. /\ (\A t \in Tasks : task'[t].status = "completed") => session' = "completed"
        /\ (\E t \in Tasks : task'[t].status \in {"failed", "unassigned"})
             => session' = "failed"
    BY <2>1 DEF Verdict, HasStatus
  <2>. QED
    BY <2>1, <2>2, <2>3, <2>4
<1>2. CASE LeaveLoop
  <2>1. /\ UNCHANGED <<task, workflow, session, ticks>> /\ loop = "checking"
        /\ ReadyTasks = {} \/ ticks = MaxTicks
    BY <1>2 DEF LeaveLoop
  <2>. QED
    BY <2>1 DEF Reconciled, Unlocked, HasStatus, DependsOn, ReadyTasks
<1>3. ASSUME UNCHANGED <<task, workflow, session, ticks, loop>>
      PROVE  /\ \A t \in Tasks : ~Unlocked(task, t)'
             /\ (\A t \in Tasks : task'[t].status = "completed") => session' = "completed"
             /\ (\E t \in Tasks : task'[t].status \in {"failed", "unassigned"})
                  => session' = "failed"
             /\ loop' = "policy" => ReadyTasks' = {} \/ ticks' = MaxTicks
  BY <1>3 DEF Reconciled, Unlocked, HasStatus, DependsOn, ReadyTasks
<1>4. ASSUME NEW t \in Tasks, TaskStep(t) \/ TaskFault(t)
      PROVE  UNCHANGED <<task, workflow, session, ticks, loop>>
  BY <1>4, TaskMoves
<1>5. CASE UNCHANGED vars
  BY <1>3, <1>5 DEF vars
<1>6. CASE Validate \/ ReconcileFails \/ BeginTick \/ EndTick \/ TickRejects \/ CatchFailure
  BY <1>6 DEF Validate, ReconcileFails, BeginTick, EndTick, TickRejects, CatchFailure
<1>. QED
  BY <1>1, <1>2, <1>3, <1>4, <1>5, <1>6 DEF Next, LoopStep

(* Counted.  A tick ends with more attempts gone than it began with.        *)
LEMMA TickSpends ==
  ASSUME Types, InTick, Spending, EndTick, NEW t \in Tasks, Busy(t)
  PROVE  /\ Gone(task) \subseteq Gone(task')
         /\ Gone(task) # Gone(task')
<1> USE DEF setup, loopVars, outputVars
<1>1. ASSUME NEW u \in Tasks
      PROVE  /\ \/ task'[u] = task[u]
                \/ task'[u].status = "unassigned"
                \/ task'[u].attempt = task[u].attempt + 1
             /\ task[u].status = "unassigned" => task'[u] = task[u]
             /\ task[u].attempt \in Nat
             /\ u = t => task'[u] # task[u]
             /\ Busy(u) => task'[u].status = "unassigned"
                             \/ task'[u].attempt = task[u].attempt + 1
  <2>1. task[u].attempt \in Nat
    BY DEF Types, Shape, AnyRecord
  <2>2. CASE ~Busy(u)
    BY <2>1, <2>2 DEF EndTick, Busy
  <2>3. CASE Busy(u)
    <3>1. task[u].status = "ready" /\ phase[u] = "resolved" /\ task'[u] = result[u]
      BY <2>3 DEF EndTick, InTick, Busy
    <3>2. result[u].status = "unassigned" \/ result[u].attempt = task[u].attempt + 1
      BY <3>1 DEF Spending
    <3>. QED
      BY <2>1, <3>1, <3>2
  <2>. QED
    BY <2>2, <2>3
<1>2. Gone(task) \subseteq Gone(task')
  <2>1. ASSUME NEW a \in Gone(task) PROVE a \in Gone(task')
    <3>1. a \in Budget /\ a[1] \in Tasks /\ a[2] \in Nat
      BY DEF Gone, Budget, AttemptsOf
    <3>2. task[a[1]].status = "unassigned" \/ a[2] <= task[a[1]].attempt
      BY DEF Gone
    <3>3. task'[a[1]].status = "unassigned" \/ a[2] <= task'[a[1]].attempt
      BY <1>1, <3>1, <3>2
    <3>. QED
      BY <3>1, <3>3 DEF Gone
  <2>. QED
    BY <2>1
<1>3. <<t, task[t].attempt + 1>> \in Gone(task') \ Gone(task)
  <2>1. task[t].status = "ready" /\ task[t].attempt < MaxAttempts[t]
    BY DEF InTick, Spending
  <2>2. <<t, task[t].attempt + 1>> \in Budget \ Gone(task)
    BY <1>1, <2>1, ReadyIsNotGone
  <2>3. task'[t].status = "unassigned" \/ task[t].attempt + 1 <= task'[t].attempt
    BY <1>1
  <2>. QED
    BY <2>2, <2>3 DEF Gone
<1>. QED
  BY <1>2, <1>3

LEMMA CountedStep ==
  Types /\ InTick /\ Spending /\ Counted /\ [Next]_vars => Counted'
<1> SUFFICES ASSUME Types, InTick, Spending, Counted, [Next]_vars PROVE Counted'
  OBVIOUS
<1> USE DEF setup, loopVars, outputVars
<1>1. ticks \in Nat
  BY DEF Types, TypeOK
<1>2. Cardinality(Gone(task)) \in Nat /\ Cardinality(Gone(task')) \in Nat
  BY GoneIsFinite
<1>3. CASE Validate \/ LeaveLoop
  BY <1>3 DEF Counted, Validate, LeaveLoop
<1>4. CASE TickRejects \/ CatchFailure
  BY <1>4 DEF Counted, TickRejects, CatchFailure
<1>5. CASE Reconcile \/ ReconcileFails
  <2>1. /\ task' = Scheduled(task) /\ ticks' = ticks /\ loop' # "ticking"
        /\ loop \in {"starting", "reconciling"}
    BY <1>5 DEF Reconcile, ReconcileFails
  <2>2. ASSUME NEW t \in Tasks
        PROVE  /\ task'[t].attempt = task[t].attempt
               /\ task'[t].status = "unassigned" <=> task[t].status = "unassigned"
    BY <2>1, ScheduledParts
  <2>3. \A a \in Budget : a[1] \in Tasks
    BY DEF Budget, AttemptsOf
  <2>4. Gone(task') = Gone(task)
    BY <2>2, <2>3 DEF Gone
  <2>. QED
    BY <1>1, <1>2, <2>1, <2>4 DEF Counted
<1>6. CASE BeginTick
  <2>1. /\ task' = task /\ ticks' = ticks + 1 /\ loop' = "ticking" /\ loop = "checking"
        /\ \E t \in Tasks : phase'[t] = "selected"
    BY <1>6 DEF BeginTick, ReadyTasks
  <2>. QED
    BY <1>1, <1>2, <2>1 DEF Counted, Busy
<1>7. CASE EndTick
  <2>1. PICK t \in Tasks : Busy(t)
    BY <1>7 DEF Counted, EndTick
  <2>2. Cardinality(Gone(task)) + 1 <= Cardinality(Gone(task'))
    BY <1>7, <2>1, TickSpends, MoreIsGone
  <2>3. ticks' = ticks /\ loop = "ticking" /\ loop' = "reconciling"
    BY <1>7 DEF EndTick
  <2>. QED
    BY <1>1, <1>2, <2>2, <2>3 DEF Counted
<1>8. ASSUME NEW t \in Tasks, TaskStep(t) \/ TaskFault(t) PROVE Counted'
  <2>1. UNCHANGED <<task, ticks, loop>> /\ phase'[t] # "none"
    BY <1>8, TaskMoves
  <2>. QED
    BY <2>1 DEF Counted, Busy
<1>9. CASE UNCHANGED vars
  BY <1>9 DEF vars, Counted, Busy
<1>. QED
  BY <1>3, <1>4, <1>5, <1>6, <1>7, <1>8, <1>9 DEF Next, LoopStep

LEMMA ProgressInvariance == Spec => []Progress
<1>1. Init => Progress
  <2> SUFFICES ASSUME Init PROVE Progress
    OBVIOUS
  <2>1. /\ loop = "validating" /\ ticks = 0
        /\ \A t \in Tasks : /\ task[t] = [status |-> "blocked", attempt |-> 0]
                            /\ phase[t] = "none"
    BY DEF Init, NewTask
  <2>2. Graph /\ Spending /\ Reconciled
    BY <2>1 DEF Graph, Spending, Reconciled
  <2>3. Counted
    BY <2>1, GoneIsFinite DEF Counted
  <2>. QED
    BY <2>2, <2>3 DEF Progress
<1>2. Inv /\ Progress /\ [Next]_vars => Progress'
  BY GraphStep, SpendingStep, ReconciledStep, CountedStep DEF Progress, Inv
<1>. QED
  BY <1>1, <1>2, Invariance, PTL DEF Spec

(* Where the loop looks for ready tasks and finds none, the session is      *)
(* decided: no task waits for another that will never be completed without  *)
(* the session having failed.  The tasks that are completed would otherwise *)
(* be a set that takes everything it could.                                 *)
NeverStalls ==
    loop \in {"checking", "policy"} /\ ReadyTasks = {} => session \in {"completed", "failed"}

THEOREM CoordinatorNeverStalls == Spec => []NeverStalls
<1>1. ASSUME Inv, Progress, loop \in {"checking", "policy"}, ReadyTasks = {},
             session \notin {"completed", "failed"}
      PROVE  FALSE
  <2> DEFINE done == {t \in Tasks : task[t].status = "completed"}
  <2>1. \A t \in Tasks : task[t].status \in {"blocked", "completed"}
    BY <1>1 DEF Progress, Spending, Reconciled, ReadyTasks, HasStatus
  <2>2. ASSUME NEW t \in Tasks, DependsOn[t] \subseteq done PROVE t \in done
    <3>1. ~Unlocked(task, t)
      BY <1>1 DEF Progress, Reconciled
    <3>. QED
      BY <2>1, <2>2, <3>1 DEF Unlocked, HasStatus
  <2>3. TakesAll
    BY <1>1 DEF Progress, Graph
  <2>4. Takes(done)
    BY <2>2 DEF Takes
  <2>5. done = Tasks
    BY <2>3, <2>4 DEF TakesAll
  <2>. QED
    BY <1>1, <2>5 DEF Progress, Reconciled
<1>2. Inv /\ Progress => NeverStalls
  BY <1>1 DEF NeverStalls
<1>. QED
  BY <1>2, Invariance, ProgressInvariance, PTL

(* When there are no more attempts than ticks, as in the demo workflow with *)
(* its eight and the loop's twelve, the loop hands over to the policy only  *)
(* with a verdict, whatever fails or is retried on the way.                 *)
HandsOverVerdict == loop = "policy" => session \in {"completed", "failed"}

THEOREM TicksSuffice ==
  ASSUME Cardinality(Budget) <= MaxTicks
  PROVE  Spec => []HandsOverVerdict
<1>1. ASSUME Inv, Progress, loop = "policy", ReadyTasks # {} PROVE FALSE
  <2>1. ticks = MaxTicks /\ MaxTicks \in Nat
    BY <1>1 DEF Progress, Reconciled
  <2>2. MaxTicks <= Cardinality(Gone(task))
    BY <1>1, <2>1, GoneIsFinite DEF Progress, Counted
  <2>3. Gone(task) = Budget
    BY <2>1, <2>2, GoneIsFinite
  <2>4. PICK t \in Tasks : task[t].status = "ready"
    BY <1>1 DEF ReadyTasks, HasStatus
  <2>5. task[t].attempt \in Nat /\ task[t].attempt < MaxAttempts[t]
    BY <1>1, <2>4 DEF Inv, Types, Shape, AnyRecord, Progress, Spending
  <2>6. Types
    BY <1>1 DEF Inv
  <2>. QED
    BY <2>3, <2>4, <2>5, <2>6, ReadyIsNotGone
<1>2. Inv /\ Progress /\ NeverStalls => HandsOverVerdict
  BY <1>1 DEF HandsOverVerdict, NeverStalls
<1>. QED
  BY <1>2, Invariance, ProgressInvariance, CoordinatorNeverStalls, PTL
=============================================================================
