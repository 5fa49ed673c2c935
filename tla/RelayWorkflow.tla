---------------------------- MODULE RelayWorkflow ----------------------------
(***************************************************************************)
(* RelayWorkflowService for one session, from the end of its coordinator:  *)
(* applyPolicy turns the proposed actions into approvals, decideApproval   *)
(* requests decide them and execute what was approved, and initialize      *)
(* reconciles the session after a crash.  Each store write is a step of    *)
(* its own and may fail.                                                   *)
(*                                                                         *)
(* Executions are those of AtMostOnceEffect, which ProtectedExecution is   *)
(* proved to implement: an action of the session stands for the key of its *)
(* approved payload.                                                       *)
(***************************************************************************)
EXTENDS Integers, Sequences, FiniteSets, Functions, AutomationPolicy

CONSTANTS
    Actions,      \* the proposed actions of the session
    Proposals,    \* the orders they may have in the store: sequences of Actions
    Type,         \* the action type of each
    Producer,     \* the permissions of the agent that proposed it
    Support,      \* the statuses of the evidence of the session
    Deciders,     \* POST requests to decide an approval
    Scenarios,    \* the controlled scenarios the session may be created with
    MaxCrashes, MaxFaults, MaxChanges    \* bounds

(* The store has one row per action id: no action is proposed twice.        *)
ASSUME ProposalAssumption ==
    /\ Proposals \subseteq (Seq(Actions) \ {<<>>})
    /\ \A order \in Proposals : IsInjective(order)
ASSUME ActionAssumption == Producer \in [Actions -> SUBSET Permissions]
ASSUME SupportAssumption == Support \subseteq {"accepted", "rejected"}
ASSUME ScenarioAssumption ==
    Scenarios \subseteq {"normal", "duplicate_approval", "bypass_protection"}
ASSUME BoundsAssumption == MaxCrashes \in Nat /\ MaxFaults \in Nat /\ MaxChanges \in Nat

Statuses == {"running", "awaiting_approval", "recommend_only", "degraded",
             "completed", "failed"}
ApprovalStatus == {"none", "pending", "approved", "denied", "invalidated"}
Decided == {"approved", "denied", "invalidated"}

VARIABLES
    up, crashes, faults,       \* the process, and the faults so far
    status,                    \* session.status in the store
    approval,                  \* status of every approval record
    changes,                   \* actions whose stored contents were changed
    proposed,                  \* the stored actions of the session, in order
    scenario,                  \* the scenario the session was created with
    workflow, index, final,    \* runCoordinator/applyPolicy: where, next action,
                               \* finalStatus so far
    decisions,                 \* the set of approvals being decided
    pc, target, choice, reply, \* every request: where, which approval,
                               \* approve or deny, and its answer
    attempts,                  \* actions this process is or was executing
    verdict, effects, receipts \* ledger, sent e-mails, stored receipts

Exec == INSTANCE AtMostOnceEffect WITH Keys <- Actions

processVars == <<up, crashes>>
policyVars == <<workflow, index, final>>
requestVars == <<pc, target, choice, reply>>
execVars == <<verdict, effects, receipts>>
sessionVars == <<proposed, scenario>>
vars == <<up, crashes, faults, status, approval, changes, sessionVars, workflow,
          index, final, decisions, pc, target, choice, reply, attempts,
          verdict, effects, receipts>>

Init == /\ up = TRUE /\ crashes = 0 /\ faults = 0
        /\ status = "running"
        /\ approval = [a \in Actions |-> "none"]
        /\ changes = {}
        /\ proposed \in Proposals
        /\ scenario \in Scenarios
        /\ workflow = "coordinating" /\ index = 1 /\ final = "completed"
        /\ decisions = {}
        /\ pc = [d \in Deciders |-> "idle"]
        /\ target \in [Deciders -> Range(proposed)]
        /\ choice \in [Deciders -> {"approve", "deny"}]
        /\ reply = [d \in Deciders |-> "none"]
        /\ attempts = {}
        /\ Exec!EffectInit

InFlight == {"invalidate", "deny", "approve", "degrade", "run", "executing",
             "complete", "fail", "failAgain"}

Policy == [a \in Actions |-> Decide(Type[a], Support, Producer[a])]
Requires(a) == Policy[a] = "REQUIRE_APPROVAL"

(* sessionScenarios is held in memory only: a restart forgets the scenario. *)
ScenarioNow == IF crashes = 0 THEN scenario ELSE "normal"
Fault == faults < MaxFaults /\ faults' = faults + 1

(* The process ends wherever it is: everything it held in memory is gone.   *)
Dies ==
    /\ crashes < MaxCrashes
    /\ up' = FALSE /\ crashes' = crashes + 1
    /\ workflow' = IF workflow = "done" THEN "done" ELSE "lost"
    /\ decisions' = {}
    /\ pc' = [d \in Deciders |-> IF pc[d] \in InFlight THEN "lost" ELSE pc[d]]
    /\ attempts' = {}
    /\ UNCHANGED <<status, approval, changes, sessionVars, index, final, target,
                   choice, reply, execVars>>
-----------------------------------------------------------------------------
(* runCoordinator: the coordinator leaves the session completed or failed,  *)
(* and applyPolicy leaves a failed one alone.                               *)
CoordinatorEnds ==
    /\ up /\ workflow = "coordinating"
    /\ \/ status' = "completed" /\ workflow' = "policy"
       \/ status' = "failed" /\ workflow' = "done"
    /\ UNCHANGED <<processVars, faults, approval, changes, sessionVars, index,
                   final, decisions, requestVars, attempts, execVars>>

(* The status applyPolicy will save once it has seen action a.  (Mutant: the *)
(* decision itself, which is no session status.)                            *)
FinalAfterAsPolicy(a) == IF Policy[a] = "AUTO_EXECUTE" THEN final ELSE Policy[a]

FinalAfter(a) ==
    CASE Requires(a) -> IF ScenarioNow = "bypass_protection" THEN "degraded"
                                                          ELSE "awaiting_approval"
      [] Policy[a] = "DENY" -> IF final = "awaiting_approval" THEN final ELSE "degraded"
      [] Policy[a] = "RECOMMEND_ONLY" -> IF final = "completed" THEN "recommend_only" ELSE final
      [] OTHER -> final

(* One round of the loop of applyPolicy.  The bypass scenario creates no    *)
(* approval and runs the action against the boundary, which refuses it.     *)
PolicyRound ==
    /\ up /\ workflow = "policy" /\ index <= Len(proposed)
    /\ LET a == proposed[index] IN
         /\ final' = FinalAfter(a)
         /\ approval' = IF Requires(a) /\ ScenarioNow # "bypass_protection"
                        THEN [approval EXCEPT ![a] = "pending"] ELSE approval
    /\ index' = index + 1
    /\ UNCHANGED <<processVars, faults, status, changes, sessionVars, workflow,
                   decisions, requestVars, attempts, execVars>>

PolicyEnds ==
    /\ up /\ workflow = "policy" /\ index > Len(proposed)
    /\ status' = final
    /\ workflow' = "done"
    /\ UNCHANGED <<processVars, faults, approval, changes, sessionVars, index,
                   final, decisions, requestVars, attempts, execVars>>

(* A failing write in applyPolicy: runCoordinator's catch fails the session. *)
PolicyFault ==
    /\ up /\ workflow = "policy"
    /\ Fault
    /\ workflow' = "catch"
    /\ UNCHANGED <<processVars, status, approval, changes, sessionVars, index,
                   final, decisions, requestVars, attempts, execVars>>

(* The catch block writes too.  Nobody awaits the promise createSession     *)
(* keeps of the workflow, so its rejection ends the process.                *)
CatchFails ==
    /\ up /\ workflow = "catch"
    /\ Fault
    /\ Dies

PolicyCatch ==
    /\ up /\ workflow = "catch"
    /\ status' = "failed"
    /\ workflow' = "done"
    /\ UNCHANGED <<processVars, faults, approval, changes, sessionVars, index,
                   final, decisions, requestVars, attempts, execVars>>

(* Somebody rewrites the contents of an action after its approval was asked. *)
ChangeAction(a) ==
    /\ up /\ Cardinality(changes) < MaxChanges
    /\ a \notin changes
    /\ approval[a] # "none"
    /\ changes' = changes \cup {a}
    /\ UNCHANGED <<processVars, faults, status, approval, sessionVars, policyVars,
                   decisions, requestVars, attempts, execVars>>
-----------------------------------------------------------------------------
(* decideApproval: the checks, all made before the first write.             *)

(* Mutant: the decisions set is not consulted. *)
LockedNever(a) == FALSE
Locked(a) == a \in decisions

(* Mutants: any approval that was not denied, whatever the session says. *)
DecidableUnlessDenied(a) == /\ approval[a] \notin {"none", "denied"}
                            /\ status \notin {"completed", "failed"}
DecidableInAnyStatus(a) == approval[a] = "pending"
Decidable(a) == /\ approval[a] = "pending"
                /\ status \notin {"completed", "failed"}

(* The first write a request makes. *)
Verb(d) == IF target[d] \in changes THEN "invalidate" ELSE choice[d]

Submit(d) ==
    /\ up /\ pc[d] = "idle"
    /\ IF ~Locked(target[d]) /\ Decidable(target[d])
       THEN /\ decisions' = decisions \cup {target[d]}
            /\ pc' = [pc EXCEPT ![d] = Verb(d)]
            /\ UNCHANGED reply
       ELSE /\ pc' = [pc EXCEPT ![d] = "done"]
            /\ reply' = [reply EXCEPT ![d] = "refused"]
            /\ UNCHANGED decisions
    /\ UNCHANGED <<processVars, faults, status, approval, changes, sessionVars,
                   policyVars, target, choice, attempts, execVars>>

(* The end of a request: the finally block unlocks the approval. *)
Answer(d, answer) ==
    /\ pc' = [pc EXCEPT ![d] = "done"]
    /\ reply' = [reply EXCEPT ![d] = answer]
    /\ decisions' = decisions \ {target[d]}

Invalidate(d) ==
    /\ up /\ pc[d] = "invalidate"
    /\ approval' = [approval EXCEPT ![target[d]] = "invalidated"]
    /\ Answer(d, "refused")
    /\ UNCHANGED <<processVars, faults, status, changes, sessionVars, policyVars,
                   target, choice, attempts, execVars>>

SaveDecision(d) ==
    /\ up
    /\ \/ /\ pc[d] = "deny"
          /\ approval' = [approval EXCEPT ![target[d]] = "denied"]
          /\ pc' = [pc EXCEPT ![d] = "degrade"]
       \/ /\ pc[d] = "approve"
          /\ approval' = [approval EXCEPT ![target[d]] = "approved"]
          /\ pc' = [pc EXCEPT ![d] = "run"]
    /\ UNCHANGED <<processVars, faults, status, changes, sessionVars, policyVars,
                   decisions, target, choice, reply, attempts, execVars>>

(* raceConcurrentExecutions swallows what its runs return or throw.         *)
AfterRun(outcome) == IF ScenarioNow = "duplicate_approval" THEN "complete" ELSE outcome

(* The execution starts by claiming its key.  It never loses the claim:     *)
(* KeyIsFree shows why the other outcomes of the claim cannot be met here.  *)
RunBegins(d) ==
    /\ up /\ pc[d] = "run"
    /\ Exec!Open(target[d])
    /\ attempts' = attempts \cup {target[d]}
    /\ pc' = [pc EXCEPT ![d] = "executing"]
    /\ UNCHANGED <<processVars, faults, status, approval, changes, sessionVars,
                   policyVars, decisions, target, choice, reply>>

(* The executor at work, for an attempt that is awaited or was abandoned.   *)
(* Only the process that made the attempt can store its receipt.            *)
Send(a) ==
    /\ Exec!TakeEffect(a)
    /\ UNCHANGED <<processVars, faults, status, approval, changes, sessionVars,
                   policyVars, decisions, requestVars, attempts>>

StoreReceipt(a) ==
    /\ up /\ a \in attempts /\ a \notin receipts
    /\ Exec!Acknowledge(a)
    /\ UNCHANGED <<processVars, faults, status, approval, changes, sessionVars,
                   policyVars, decisions, requestVars, attempts>>

RunEnds(d) ==
    /\ up /\ pc[d] = "executing"
    /\ \/ Exec!Succeed(target[d]) /\ pc' = [pc EXCEPT ![d] = AfterRun("complete")]
       \/ Exec!Fail({target[d]}) /\ pc' = [pc EXCEPT ![d] = AfterRun("fail")]
    /\ UNCHANGED <<processVars, faults, status, approval, changes, sessionVars,
                   policyVars, decisions, target, choice, reply, attempts>>

(* The last write of a request, and its answer. *)
SaveStatus(d) ==
    /\ up
    /\ \/ pc[d] = "degrade" /\ status' = "degraded" /\ Answer(d, "ok")
       \/ pc[d] = "complete" /\ status' = "completed" /\ Answer(d, "ok")
       \/ pc[d] \in {"fail", "failAgain"} /\ status' = "failed" /\ Answer(d, "error")
    /\ UNCHANGED <<processVars, faults, approval, changes, sessionVars, policyVars,
                   target, choice, attempts, execVars>>

(* A failing write of a request, of the trace events around it included.    *)
(* Before the inner try of decideApproval, in its catch block and on the    *)
(* paths without one it becomes the answer; inside the try the catch block  *)
(* fails the session; inside raceConcurrentExecutions nobody notices.       *)
Uncaught(d) == \/ pc[d] \in {"invalidate", "deny", "approve", "degrade", "run", "failAgain"}
               \/ pc[d] = "complete" /\ ScenarioNow = "duplicate_approval"
Caught(d) == pc[d] \in {"run", "executing", "complete", "fail"}
             /\ ScenarioNow # "duplicate_approval"
Swallowed(d) == pc[d] \in {"run", "executing"} /\ ScenarioNow = "duplicate_approval"

RequestFault(d) ==
    /\ up /\ Fault
    /\ \/ Uncaught(d) /\ Answer(d, "error")
       \/ Caught(d) /\ pc' = [pc EXCEPT ![d] = "failAgain"] /\ UNCHANGED <<reply, decisions>>
       \/ Swallowed(d) /\ pc' = [pc EXCEPT ![d] = "complete"] /\ UNCHANGED <<reply, decisions>>
    /\ UNCHANGED <<processVars, status, approval, changes, sessionVars, policyVars,
                   target, choice, attempts, execVars>>
-----------------------------------------------------------------------------
Crash == up /\ Dies /\ UNCHANGED faults

(* RelayWorkflowService.initialize on the session. *)
FirstApproved == approval[proposed[1]] = "approved"

(* Mutants: receipts are not looked at; awaiting sessions are not looked at. *)
ReconciledWithoutReceipts ==
    IF status = "running" THEN "failed"
    ELSE IF status = "awaiting_approval" /\ FirstApproved THEN "completed" ELSE status

ReconciledRunningOnly == IF status = "running" THEN "failed" ELSE status

Reconciled ==
    IF status = "running" THEN "failed"
    ELSE IF status = "awaiting_approval" /\ FirstApproved
         THEN IF receipts # {} THEN "completed" ELSE "failed"
         ELSE status

Restart ==
    /\ ~up /\ up' = TRUE
    /\ Exec!Fail({a \in Actions : verdict[a] = "executing"})
    /\ status' = Reconciled
    /\ UNCHANGED <<crashes, faults, approval, changes, sessionVars, policyVars,
                   decisions, requestVars, attempts>>
-----------------------------------------------------------------------------
PolicyStep == CoordinatorEnds \/ PolicyRound \/ PolicyEnds \/ PolicyCatch
RequestStep(d) == \/ Invalidate(d) \/ SaveDecision(d) \/ RunBegins(d)
                  \/ RunEnds(d) \/ SaveStatus(d)

Next == \/ PolicyStep \/ PolicyFault \/ CatchFails
        \/ \E a \in Actions : ChangeAction(a) \/ Send(a) \/ StoreReceipt(a)
        \/ \E d \in Deciders : Submit(d) \/ RequestStep(d) \/ RequestFault(d)
        \/ Crash \/ Restart

Spec == Init /\ [][Next]_vars

(* The event loop runs what is ready, executions end (CallsSettle of        *)
(* ProtectedExecution), and a dead process is started again.                *)
Fairness == /\ WF_vars(PolicyStep)
            /\ \A d \in Deciders : WF_vars(RequestStep(d))
            /\ WF_vars(Restart)

FairSpec == Spec /\ Fairness
-----------------------------------------------------------------------------
TypeOK ==
    /\ up \in BOOLEAN /\ crashes \in 0..MaxCrashes /\ faults \in 0..MaxFaults
    /\ status \in Statuses
    /\ approval \in [Actions -> ApprovalStatus]
    /\ changes \subseteq Actions
    /\ proposed \in Proposals /\ scenario \in Scenarios
    /\ workflow \in {"coordinating", "policy", "catch", "done", "lost"}
    /\ index \in 1..(Len(proposed) + 1)
    /\ final \in Statuses
    /\ decisions \subseteq Actions
    /\ pc \in [Deciders -> {"idle", "done", "lost"} \cup InFlight]
    /\ target \in [Deciders -> Actions]
    /\ choice \in [Deciders -> {"approve", "deny"}]
    /\ reply \in [Deciders -> {"none", "refused", "ok", "error"}]
    /\ attempts \subseteq Actions
    /\ Exec!EffectTypeOK
-----------------------------------------------------------------------------
Wedged == /\ up /\ workflow \in {"done", "lost"}
          /\ \A d \in Deciders : pc[d] \notin InFlight
          /\ status = "awaiting_approval"
          /\ \A a \in Actions : approval[a] # "pending"

(* No e-mail leaves without an approval, and the approval behind one that   *)
(* left is never taken back: a denial cannot cross an approval of the same  *)
(* action (the decisions set and the pending check of decideApproval).      *)
EffectsApproved == \A a \in effects : approval[a] = "approved"

(* A decision is final, whatever requests, crashes and failing writes       *)
(* follow.                                                                  *)
DecisionIsFinal ==
    [][\A a \in Actions : approval[a] \in Decided => approval'[a] = approval[a]]_vars

(* A request that gets as far as its execution finds the ledger without a   *)
(* row for the key, also after a restart or a failed ledger write: the 409  *)
(* "already in progress" and the replayed result are never its answer.      *)
KeyIsFree == \A d \in Deciders : pc[d] = "run" => verdict[target[d]] = "absent"

(* Outside the duplicate scenario, a session with an approved action is     *)
(* only called completed when a receipt is stored, by a request as by the   *)
(* reconciliation after a restart.                                          *)
CompletedHasReceipt ==
    /\ status = "completed" /\ scenario # "duplicate_approval"
    /\ \E a \in Actions : approval[a] = "approved"
    => receipts # {}

OneProtected == \E a \in Range(proposed) : {b \in Range(proposed) : Requires(b)} = {a}

(* With one protected action, a session that applyPolicy is done with and   *)
(* that is completed or failed stays so: neither a late decision nor a      *)
(* restart reopens it.                                                      *)
FinishedStaysFinished ==
    [][(OneProtected /\ workflow \in {"done", "lost"} /\ status \in {"completed", "failed"})
        => status' = status]_vars

(* While nothing dies or fails and no contents change under an approval, a  *)
(* session never waits for a decision that nobody can take any more: a      *)
(* decision in the window in which approvals are stored and the session     *)
(* status is not would leave it so.                                         *)
WaitsForSomebody ==
    Wedged => crashes > 0 \/ faults > 0 \/ "invalidated" \in Range(approval)

(* With one protected action first in the store, an approval leads to a     *)
(* finished session even if the process dies on the way, as long as no      *)
(* write fails.                                                             *)
ApprovedResolves ==
    (OneProtected /\ approval[proposed[1]] = "approved")
        ~> (status \in {"completed", "failed"} \/ faults > 0)
-----------------------------------------------------------------------------
(* What the repository says of the restart, and the code does not do.       *)

(* relay-workflow-service.ts:82-84: a session at awaiting_approval with an  *)
(* already-approved record is reconciled "so the session is never wedged".  *)
NeverWedged == ~(Wedged /\ \E a \in Actions : approval[a] = "approved")
=============================================================================
