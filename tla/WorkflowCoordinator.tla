------------------------- MODULE WorkflowCoordinator -------------------------
(***************************************************************************)
(* The Coordinator of one session and the loop of runCoordinator around    *)
(* it: ticks that execute every ready task concurrently, retries, evidence *)
(* and actions, run-scoped grants, and the session status.  Every store    *)
(* write may fail: the failure reaches executeTask's own catch block, or   *)
(* rejects the tick while the other tasks of it run on.                    *)
(*                                                                         *)
(* Only its result decides what becomes of an agent, so agents answer or   *)
(* fail at any time.  Whether an evidence item is accepted, and what an    *)
(* action is, play no part here.                                           *)
(***************************************************************************)
EXTENDS Integers, FiniteSets

CONSTANTS
    Tasks,             \* the ids of a workflow's tasks
    Workflows,         \* the workflows that may be handed in, broken ones too
    Registries,        \* the agents that may be registered, in their order
    MaxAttempts,       \* of every task
    Slots,             \* the indices of actions in a result
    MaxTicks,          \* the loop bound of runCoordinator (12 in the program)
    MaxFaults          \* bound on failing writes

ASSUME TasksAssumption == IsFiniteSet(Tasks)
ASSUME AttemptsAssumption == MaxAttempts \in [Tasks -> Nat \ {0}]
ASSUME BoundsAssumption == MaxTicks \in Nat /\ MaxFaults \in Nat

TaskStatus == {"blocked", "ready", "running", "approval_required", "completed",
               "failed", "skipped", "unassigned"}

VARIABLES
    workflow,        \* what every task depends on, its capability and the
                     \* permissions it needs, and the ids declared twice
    agents,          \* the registered agents
    loop, ticks,     \* runCoordinator: where it is, and its ticks so far
    task,            \* Coordinator.tasks, the records in memory
    store,           \* the task records in the store
    session,         \* the session status in the store
    phase, result,   \* executeTask of every task: where it is, and the task
                     \* it resolves with
    grants,          \* active grants: the task and the attempt they are for
    actions,         \* stored actions: the attempt that wrote each slot
    evidence,        \* the last attempt whose evidence is all stored
    faults           \* failed writes so far

setup == <<workflow, agents>>
loopVars == <<loop, ticks, task, session>>
outputVars == <<grants, actions, evidence>>
vars == <<setup, loop, ticks, task, store, session, phase, result,
          grants, actions, evidence, faults>>

NewTask == [status |-> "blocked", attempt |-> 0]

Init == /\ workflow \in Workflows /\ agents \in Registries
        /\ loop = "validating" /\ ticks = 0
        /\ task = [t \in Tasks |-> NewTask]
        /\ store = [t \in Tasks |-> NewTask]
        /\ session = "none"
        /\ phase = [t \in Tasks |-> "none"]
        /\ result = [t \in Tasks |-> NewTask]
        /\ grants = {}
        /\ actions = [t \in Tasks |-> [i \in Slots |-> 0]]
        /\ evidence = [t \in Tasks |-> 0]
        /\ faults = 0

Fault == faults < MaxFaults /\ faults' = faults + 1
-----------------------------------------------------------------------------
(* The checks before a session exists.                                      *)

DependsOn == workflow.dependsOn
Capabilities == UNION {agents[i].capabilities : i \in DOMAIN agents}
Matches(t) == {i \in DOMAIN agents : workflow.capability[t] \in agents[i].capabilities}

(* routeTaskByCapability finds somebody. *)
Routable(t) == \E i \in Matches(t) : /\ agents[i].runnable
                                     /\ workflow.permissions[t] \subseteq agents[i].permissions

(* createSession asks the first agent with each capability only. *)
Staffed == \A t \in Tasks : \E i \in Matches(t) :
              agents[i].runnable /\ \A j \in Matches(t) : i <= j

(* The queue of validateTaskDag takes a task once everything it depends on  *)
(* is taken: what is taken at the end is the least set closed under that.   *)
Takes(S) == \A t \in Tasks : DependsOn[t] \subseteq S => t \in S

TakesAll == \A S \in SUBSET Tasks : Takes(S) => S = Tasks

(* Mutant: every dependency is another task, which is no guard to cycles. *)
ValidByReference ==
    /\ workflow.repeated = {}
    /\ \A t \in Tasks : /\ workflow.capability[t] \in Capabilities
                        /\ DependsOn[t] \subseteq Tasks \ {t}

Valid == /\ workflow.repeated = {}
         /\ \A t \in Tasks : /\ workflow.capability[t] \in Capabilities
                             /\ DependsOn[t] \subseteq Tasks \ {t}
         /\ TakesAll

(* createSession up to the saved session and tasks, or an error and nothing *)
(* saved.                                                                   *)
Validate ==
    /\ loop = "validating"
    /\ IF Staffed /\ Valid
       THEN loop' = "starting" /\ session' = "running"
       ELSE loop' = "refused" /\ session' = session
    /\ UNCHANGED <<setup, ticks, task, store, phase, result, outputVars, faults>>
-----------------------------------------------------------------------------
(* transitionTask: the lifecycle of a task.  A transition that is refused   *)
(* leaves the task as it was, and persistTransition then saves nothing.     *)

AllowedTransitions ==
    [status \in TaskStatus |->
        CASE status = "blocked" -> {"ready"}
          [] status = "ready" -> {"running", "unassigned"}
          [] status = "running" -> {"ready", "approval_required", "completed", "failed"}
          [] status = "approval_required" -> {"running", "completed", "failed"}
          [] status = "unassigned" -> {"ready", "failed"}
          [] OTHER -> {}]

CanTransition(from, to) == to \in AllowedTransitions[from]

StartsAttempt(record, to) == record.status = "ready" /\ to = "running"

Transitioned(t, record, to) ==
    IF /\ CanTransition(record.status, to)
       /\ StartsAttempt(record, to) => record.attempt < MaxAttempts[t]
    THEN [status |-> to,
          attempt |-> record.attempt + IF StartsAttempt(record, to) THEN 1 ELSE 0]
    ELSE record
-----------------------------------------------------------------------------
(* scheduleReadyTasks and updateSessionStatus.                              *)

HasStatus(f, t, S) == f[t].status \in S

(* Mutant: one completed dependency is enough. *)
UnlockedByAny(f, t) ==
    /\ HasStatus(f, t, {"blocked"})
    /\ DependsOn[t] = {} \/ \E d \in DependsOn[t] : HasStatus(f, d, {"completed"})

Unlocked(f, t) == /\ HasStatus(f, t, {"blocked"})
                  /\ \A d \in DependsOn[t] : HasStatus(f, d, {"completed"})

Scheduled(f) == [t \in Tasks |-> IF Unlocked(f, t) THEN Transitioned(t, f[t], "ready")
                                                   ELSE f[t]]

(* Mutant: what is blocked behind a failure does not count. *)
VerdictOfUnblocked(f) ==
    IF \A t \in Tasks : HasStatus(f, t, {"completed", "blocked", "failed", "unassigned"})
    THEN "completed" ELSE session

Verdict(f) ==
    IF \A t \in Tasks : HasStatus(f, t, {"completed"}) THEN "completed"
    ELSE IF \E t \in Tasks : HasStatus(f, t, {"failed", "unassigned"}) THEN "failed"
    ELSE session

(* reconcileReadiness, at the end of start and of every tick.               *)
Reconcile ==
    /\ loop \in {"starting", "reconciling"}
    /\ task' = Scheduled(task)
    /\ store' = Scheduled(task)
    /\ session' = Verdict(Scheduled(task))
    /\ loop' = "checking"
    /\ UNCHANGED <<setup, ticks, phase, result, outputVars, faults>>

(* One of its writes fails: some tasks are saved, and the session may be.   *)
(* In start, createSession throws and nobody runs the session.              *)
ReconcileFails ==
    /\ loop \in {"starting", "reconciling"}
    /\ Fault
    /\ task' = Scheduled(task)
    /\ \E saved \in SUBSET Tasks :
         store' = [t \in Tasks |-> IF t \in saved THEN Scheduled(task)[t] ELSE store[t]]
    /\ session' \in {session, Verdict(Scheduled(task))}
    /\ loop' = IF loop = "starting" THEN "abandoned" ELSE "catch"
    /\ UNCHANGED <<setup, ticks, phase, result, outputVars>>
-----------------------------------------------------------------------------
(* The loop of runCoordinator, and runTick.                                 *)

ReadyTasks == {t \in Tasks : HasStatus(task, t, {"ready"})}

BeginTick ==
    /\ loop = "checking" /\ ReadyTasks # {} /\ ticks < MaxTicks
    /\ loop' = "ticking" /\ ticks' = ticks + 1
    /\ phase' = [t \in Tasks |-> IF t \in ReadyTasks THEN "selected" ELSE "none"]
    /\ UNCHANGED <<setup, task, store, session, result, outputVars, faults>>

(* Promise.all over the tasks of the tick: all resolve, or one rejects.     *)
EndTick ==
    /\ loop = "ticking"
    /\ \A t \in Tasks : phase[t] \in {"none", "resolved"}
    /\ task' = [t \in Tasks |-> IF phase[t] = "resolved" THEN result[t] ELSE task[t]]
    /\ phase' = [t \in Tasks |-> "none"]
    /\ loop' = "reconciling"
    /\ UNCHANGED <<setup, ticks, store, session, result, outputVars, faults>>

TickRejects ==
    /\ loop = "ticking"
    /\ \E t \in Tasks : phase[t] = "threw"
    /\ loop' = "catch"
    /\ UNCHANGED <<setup, ticks, task, store, session, phase, result,
                   outputVars, faults>>

(* The loop is left for applyPolicy, which RelayWorkflow follows.           *)
LeaveLoop ==
    /\ loop = "checking"
    /\ ReadyTasks = {} \/ ticks = MaxTicks
    /\ loop' = "policy"
    /\ UNCHANGED <<setup, ticks, task, store, session, phase, result,
                   outputVars, faults>>

(* The catch block of runCoordinator; RelayWorkflow has its failing write.  *)
CatchFailure ==
    /\ loop = "catch"
    /\ session' = "failed"
    /\ loop' = "ended"
    /\ UNCHANGED <<setup, ticks, task, store, phase, result, outputVars, faults>>
-----------------------------------------------------------------------------
(* executeTask.  current is the task it got from the tick, running the one  *)
(* it made of it.                                                           *)

Running(t) == Transitioned(t, task[t], "running")
With(t, status) == Transitioned(t, Running(t), status)
Unassigned(t) == Transitioned(t, task[t], "unassigned")

(* Mutant: the grant is issued for the record from before the transition. *)
GrantOfReady(t) == <<t, task[t].attempt>>

Grant(t) == <<t, Running(t).attempt>>

Resolve(t, value) == /\ phase' = [phase EXCEPT ![t] = "resolved"]
                     /\ result' = [result EXCEPT ![t] = value]

Save(t, value) == store' = [store EXCEPT ![t] = value]

Unassign(t) ==
    /\ phase[t] = "selected" /\ ~Routable(t)
    /\ Save(t, Unassigned(t))
    /\ Resolve(t, Unassigned(t))
    /\ UNCHANGED <<setup, loopVars, outputVars, faults>>

(* When the transition is refused, executeTask hands the task back as it    *)
(* is.  Otherwise the grant is issued in the same turn.                     *)
Start(t) ==
    /\ phase[t] = "selected" /\ Routable(t)
    /\ IF Running(t).status = "running"
       THEN /\ Save(t, Running(t))
            /\ grants' = grants \cup {Grant(t)}
            /\ phase' = [phase EXCEPT ![t] = "granted"]
            /\ UNCHANGED result
       ELSE /\ Resolve(t, task[t])
            /\ UNCHANGED <<store, grants>>
    /\ UNCHANGED <<setup, loopVars, actions, evidence, faults>>

Invoke(t) ==
    /\ phase[t] = "granted"
    /\ phase' = [phase EXCEPT ![t] = "invoked"]
    /\ UNCHANGED <<setup, loopVars, store, result, outputVars, faults>>

(* RecordingAgentExecutor.execute: the agent answers, its actions are       *)
(* stored, one batch of writes; executeTask revokes the grant.              *)
StoreActions(t, saved) ==
    actions' = [actions EXCEPT ![t] =
                  [i \in Slots |-> IF i \in saved THEN Grant(t)[2] ELSE actions[t][i]]]

AgentAnswers(t) ==
    /\ phase[t] = "invoked"
    /\ \E proposed \in SUBSET Slots : StoreActions(t, proposed)
    /\ grants' = grants \ {Grant(t)}
    /\ phase' = [phase EXCEPT ![t] = "answered"]
    /\ UNCHANGED <<setup, loopVars, store, result, evidence, faults>>

(* Mutants: no finally around the agent; an answer stored before it is      *)
(* validated.                                                               *)
AgentFailsUnrevoked(t) ==
    /\ phase[t] = "invoked"
    /\ phase' = [phase EXCEPT ![t] = "caught"]
    /\ UNCHANGED <<setup, loopVars, store, result, outputVars, faults>>

AgentFailsStored(t) ==
    /\ phase[t] = "invoked"
    /\ \E proposed \in SUBSET Slots : StoreActions(t, proposed)
    /\ grants' = grants \ {Grant(t)}
    /\ phase' = [phase EXCEPT ![t] = "caught"]
    /\ UNCHANGED <<setup, loopVars, store, result, evidence, faults>>

AgentFails(t) ==
    /\ phase[t] = "invoked"
    /\ grants' = grants \ {Grant(t)}
    /\ phase' = [phase EXCEPT ![t] = "caught"]
    /\ UNCHANGED <<setup, loopVars, store, result, actions, evidence, faults>>

Complete(t) ==
    /\ phase[t] = "answered"
    /\ Save(t, With(t, "completed"))
    /\ phase' = [phase EXCEPT ![t] = "completed"]
    /\ UNCHANGED <<setup, loopVars, result, outputVars, faults>>

(* persistEvidence, and the traces of the proposed actions. *)
PersistEvidence(t) ==
    /\ phase[t] = "completed"
    /\ evidence' = [evidence EXCEPT ![t] = Grant(t)[2]]
    /\ Resolve(t, With(t, "completed"))
    /\ UNCHANGED <<setup, loopVars, store, grants, actions, faults>>

RetriesLeft(t) == Running(t).attempt < MaxAttempts[t]

Retried(t) == With(t, IF RetriesLeft(t) THEN "ready" ELSE "failed")

CatchTask(t) ==
    /\ phase[t] = "caught"
    /\ Save(t, Retried(t))
    /\ Resolve(t, Retried(t))
    /\ UNCHANGED <<setup, loopVars, outputVars, faults>>

(* A failing write in executeTask: before its try block and in its catch    *)
(* block the task rejects; inside, the catch block takes over.  When it is  *)
(* the trace of a transition that fails, the record was saved before it.    *)
Saving(t) ==
    CASE phase[t] = "selected" /\ ~Routable(t) -> Unassigned(t)
      [] phase[t] = "selected" /\ Running(t).status = "running" -> Running(t)
      [] phase[t] = "answered" -> With(t, "completed")
      [] phase[t] = "caught" -> Retried(t)
      [] OTHER -> store[t]

TaskFault(t) ==
    /\ Fault
    /\ \/ /\ phase[t] \in {"selected", "caught"}
          /\ phase' = [phase EXCEPT ![t] = "threw"]
       \/ /\ phase[t] \in {"granted", "invoked", "answered", "completed"}
          /\ phase' = [phase EXCEPT ![t] = "caught"]
    /\ store' \in {store, [store EXCEPT ![t] = Saving(t)]}
    /\ IF phase[t] = "invoked"
       THEN /\ \E saved \in SUBSET Slots : StoreActions(t, saved)
            /\ grants' = grants \ {Grant(t)}
       ELSE UNCHANGED <<grants, actions>>
    /\ UNCHANGED <<setup, loopVars, result, evidence>>
-----------------------------------------------------------------------------
LoopStep == Validate \/ Reconcile \/ BeginTick \/ EndTick \/ TickRejects \/ LeaveLoop \/ CatchFailure
TaskStep(t) == \/ Unassign(t) \/ Start(t) \/ Invoke(t)
               \/ AgentAnswers(t) \/ AgentFails(t)
               \/ Complete(t) \/ PersistEvidence(t) \/ CatchTask(t)

Next == \/ LoopStep \/ ReconcileFails
        \/ \E t \in Tasks : TaskStep(t) \/ TaskFault(t)

Spec == Init /\ [][Next]_vars

(* The event loop runs what is ready, and an agent answers or is stopped by *)
(* the timeout of its runner.                                               *)
Fairness == WF_vars(LoopStep) /\ \A t \in Tasks : WF_vars(TaskStep(t))

FairSpec == Spec /\ Fairness
-----------------------------------------------------------------------------
TaskRecord(t) == [status : TaskStatus, attempt : 0..MaxAttempts[t]]

(* Types, and the bound on the attempts of every task, in memory and in the *)
(* store.                                                                   *)
TypeOK ==
    /\ workflow \in Workflows /\ agents \in Registries
    /\ loop \in {"validating", "refused", "starting", "abandoned", "checking", "ticking", "reconciling",
                 "policy", "catch", "ended"}
    /\ ticks \in 0..MaxTicks
    /\ \A t \in Tasks : {task[t], store[t], result[t]} \subseteq TaskRecord(t)
    /\ session \in {"none", "running", "completed", "failed"}
    /\ phase \in [Tasks -> {"none", "selected", "granted", "invoked", "answered",
                            "completed", "caught", "resolved", "threw"}]
    /\ \A g \in grants : g[1] \in Tasks /\ g[2] \in 1..MaxAttempts[g[1]]
    /\ \A t \in Tasks : /\ actions[t] \in [Slots -> 0..MaxAttempts[t]]
                        /\ evidence[t] \in 0..MaxAttempts[t]
    /\ faults \in 0..MaxFaults

AtWork(t) == phase[t] \in {"granted", "invoked", "answered", "completed"}

(* A task is at work only when every dependency is completed in the store,  *)
(* with the evidence of its last attempt stored, whatever was retried or    *)
(* failed to be written on the way.                                         *)
DependenciesFirst ==
    \A t \in Tasks : AtWork(t) =>
        \A d \in DependsOn[t] : /\ store[d].status = "completed"
                                /\ evidence[d] = store[d].attempt

(* The session is completed only with every task completed in the store,    *)
(* and failed only for a failed or unassigned task, or a failed write.      *)
SessionVerdict ==
    /\ session = "completed" => \A t \in Tasks : store[t].status = "completed"
    /\ session = "failed" =>
         faults > 0 \/ \E t \in Tasks : store[t].status \in {"failed", "unassigned"}

(* A grant outlives its attempt only if a write failed.                     *)
GrantsAreRunScoped ==
    faults = 0 => \A g \in grants : phase[g[1]] \in {"granted", "invoked"}
                                    /\ g = Grant(g[1])

(* The policy judges actions of the last attempt of a task only, unless a   *)
(* write failed between the actions and the end of an attempt.              *)
ActionsOfLastAttempt ==
    loop = "policy" /\ faults = 0 =>
        \A t \in Tasks, i \in Slots : actions[t][i] \in {0, store[t].attempt}

(* The loop of every workflow that was not refused ends, and when it hands  *)
(* over to the policy the session has its verdict: no validated graph has a *)
(* task that is never scheduled, and the bound on ticks cuts no workflow    *)
(* short, with all its retries.                                             *)
LoopReachesVerdict ==
    <>(\/ loop = "policy" /\ session \in {"completed", "failed"}
       \/ loop \in {"refused", "ended", "abandoned"})
=============================================================================
