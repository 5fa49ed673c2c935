------------------------- MODULE RelayWorkflowProofs -------------------------
(***************************************************************************)
(* Proofs about RelayWorkflow, for every set of actions and requests, any  *)
(* order and kind of proposals, and any number of crashes and failing      *)
(* writes.                                                                 *)
(***************************************************************************)
EXTENDS RelayWorkflow, TLAPS

USE ProposalAssumption, ScenarioAssumption, BoundsAssumption

(* The order of the proposals is a non-empty sequence without repetition.   *)
LEMMA ProposedType ==
  ASSUME proposed \in Proposals
  PROVE  /\ proposed \in Seq(Actions)
         /\ Len(proposed) \in Nat \ {0}
         /\ DOMAIN proposed = 1..Len(proposed)
         /\ Range(proposed) \subseteq Actions
         /\ \A i \in 1..Len(proposed) : proposed[i] \in Range(proposed)
         /\ \A i, j \in 1..Len(proposed) : proposed[i] = proposed[j] => i = j
<1>1. proposed \in Seq(Actions) /\ proposed # <<>> /\ IsInjective(proposed)
  OBVIOUS
<1>2. DOMAIN proposed = 1..Len(proposed) /\ Len(proposed) \in Nat \ {0}
  BY <1>1
<1>3. \A i, j \in 1..Len(proposed) : proposed[i] = proposed[j] => i = j
  BY <1>1, <1>2 DEF IsInjective
<1>. QED
  BY <1>1, <1>2, <1>3 DEF Range

LEMMA FinalAfterType ==
  ASSUME final \in Statuses, NEW a \in Actions PROVE FinalAfter(a) \in Statuses
  BY DEF FinalAfter, Statuses

(* The type invariant.                                                      *)
LEMMA TypeInit == Init => TypeOK
<1> SUFFICES ASSUME Init PROVE TypeOK
  OBVIOUS
<1>1. Range(proposed) \subseteq Actions /\ 1 \in 1..(Len(proposed) + 1)
  BY ProposedType DEF Init
<1>. QED
  BY <1>1 DEF Init, TypeOK, Statuses, ApprovalStatus, Exec!EffectInit, Exec!EffectTypeOK,
     Exec!Verdicts

(* A death takes only what the process held in memory.                      *)
LEMMA DiesType == ASSUME TypeOK, Dies, faults' \in 0..MaxFaults PROVE TypeOK'
<1>1. up' \in BOOLEAN
  BY Zenon DEF Dies
<1>2. crashes' \in 0..MaxCrashes
  BY DEF Dies, TypeOK
<1>3. pc' \in [Deciders -> {"idle", "done", "lost"} \cup InFlight]
  BY DEF Dies, TypeOK
<1>4. workflow' \in {"coordinating", "policy", "catch", "done", "lost"}
  BY DEF Dies, TypeOK
<1>. QED
  BY <1>1, <1>2, <1>3, <1>4 DEF Dies, TypeOK, sessionVars, execVars,
     Exec!EffectTypeOK, Exec!Verdicts

LEMMA TypeStep == TypeOK /\ [Next]_vars => TypeOK'
<1> SUFFICES ASSUME TypeOK, [Next]_vars PROVE TypeOK'
  OBVIOUS
<1> USE DEF TypeOK, processVars, policyVars, requestVars, execVars,
        sessionVars, Exec!EffectTypeOK, Exec!Verdicts
<1>1. CASE CoordinatorEnds
  BY <1>1, ProposedType DEF CoordinatorEnds, Statuses
<1>2. CASE PolicyRound
  BY <1>2, ProposedType, FinalAfterType DEF PolicyRound, ApprovalStatus
<1>3. CASE PolicyEnds
  BY <1>3, ProposedType DEF PolicyEnds, Statuses
<1>4. CASE PolicyCatch
  BY <1>4, ProposedType DEF PolicyCatch, Statuses
<1>5. CASE PolicyFault
  BY <1>5, ProposedType DEF PolicyFault, Fault
<1>6. CASE CatchFails
  BY <1>6, DiesType DEF CatchFails, Fault
<1>7. ASSUME NEW a \in Actions, ChangeAction(a) PROVE TypeOK'
  BY <1>7, ProposedType DEF ChangeAction
<1>8. ASSUME NEW a \in Actions, Send(a) PROVE TypeOK'
  BY <1>8, ProposedType DEF Send, Exec!TakeEffect
<1>9. ASSUME NEW a \in Actions, StoreReceipt(a) PROVE TypeOK'
  BY <1>9, ProposedType DEF StoreReceipt, Exec!Acknowledge
<1>10. ASSUME NEW d \in Deciders, Submit(d) PROVE TypeOK'
  <2>1. Verb(d) \in InFlight
    BY DEF Verb, InFlight
  <2>2. pc' \in [Deciders -> {"idle", "done", "lost"} \cup InFlight]
    BY <1>10, <2>1 DEF Submit
  <2>3. reply' \in [Deciders -> {"none", "refused", "ok", "error"}]
    BY <1>10 DEF Submit
  <2>4. decisions' \subseteq Actions
    <3>1. decisions' = decisions \/ decisions' = decisions \cup {target[d]}
      BY <1>10 DEF Submit
    <3>. QED
      BY <3>1
  <2>. QED
    BY <1>10, <2>2, <2>3, <2>4, ProposedType DEF Submit
<1>11. ASSUME NEW d \in Deciders, Invalidate(d) PROVE TypeOK'
  BY <1>11, ProposedType DEF Invalidate, Answer, ApprovalStatus
<1>12. ASSUME NEW d \in Deciders, SaveDecision(d) PROVE TypeOK'
  <2>1. approval' \in [Actions -> ApprovalStatus]
    BY <1>12 DEF SaveDecision, ApprovalStatus
  <2>2. pc' \in [Deciders -> {"idle", "done", "lost"} \cup InFlight]
    BY <1>12 DEF SaveDecision, InFlight
  <2>. QED
    BY <1>12, <2>1, <2>2, ProposedType DEF SaveDecision
<1>13. ASSUME NEW d \in Deciders, RunBegins(d) PROVE TypeOK'
  BY <1>13, ProposedType DEF RunBegins, Exec!Open, InFlight
<1>14. ASSUME NEW d \in Deciders, RunEnds(d) PROVE TypeOK'
  BY <1>14, ProposedType
     DEF RunEnds, Exec!Succeed, Exec!Fail, AfterRun, InFlight
<1>15. ASSUME NEW d \in Deciders, SaveStatus(d) PROVE TypeOK'
  BY <1>15, ProposedType DEF SaveStatus, Answer, Statuses
<1>16. ASSUME NEW d \in Deciders, RequestFault(d) PROVE TypeOK'
  BY <1>16, ProposedType
     DEF RequestFault, Answer, Fault, Uncaught, Caught, Swallowed, InFlight
<1>17. CASE Crash
  BY <1>17, DiesType DEF Crash
<1>18. CASE Restart
  BY <1>18, ProposedType DEF Restart, Exec!Fail, Reconciled, Statuses
<1>19. CASE UNCHANGED vars
  BY <1>19, ProposedType DEF vars
<1>. QED
  BY <1>1, <1>2, <1>3, <1>4, <1>5, <1>6, <1>7, <1>8, <1>9, <1>10, <1>11,
     <1>12, <1>13, <1>14, <1>15, <1>16, <1>17, <1>18, <1>19
     DEF Next, PolicyStep, RequestStep
-----------------------------------------------------------------------------
(* The inductive invariant.                                                 *)

Flying(d) == pc[d] \in InFlight

(* The decisions set is a lock on the approvals: a request in flight holds  *)
(* its approval, no two hold the same one, and no request outlives the      *)
(* process.                                                                 *)
Locks ==
    /\ \A d \in Deciders : Flying(d) => target[d] \in decisions
    /\ \A d, e \in Deciders : Flying(d) /\ Flying(e) /\ target[d] = target[e] => d = e
    /\ up \/ \A d \in Deciders : ~Flying(d)

(* Approvals are created by the loop of applyPolicy alone, in the order of  *)
(* the proposals, and while it works the session says "completed", which    *)
(* keeps every decision out.                                                *)
PolicyFirst ==
    /\ \A i \in index..Len(proposed) : approval[proposed[i]] = "none"
    /\ \A a \in Actions : approval[a] # "none" => Requires(a) /\ a \in Range(proposed)
    /\ workflow = "coordinating" =>
         status = "running" /\ \A a \in Actions : approval[a] = "none"
    /\ workflow \in {"policy", "catch"} =>
         status = "completed" /\ \A a \in Actions : approval[a] \in {"none", "pending"}
    /\ \A d \in Deciders : Flying(d) => workflow \in {"done", "lost"}
    /\ up \/ workflow \in {"done", "lost"}

(* The status applyPolicy saves speaks of the approvals it created.         *)
FinalFollows ==
    /\ (\E a \in Actions : approval[a] # "none") => final \in {"awaiting_approval", "degraded"}
    /\ final = "awaiting_approval" => \E a \in Actions : approval[a] # "none"

(* Where a request is tells what became of its approval and of its key.     *)
Stages ==
    \A d \in Deciders :
      /\ pc[d] \in {"invalidate", "deny", "approve"} => approval[target[d]] = "pending"
      /\ pc[d] = "run" => approval[target[d]] = "approved" /\ verdict[target[d]] = "absent"
      /\ pc[d] \in {"degrade", "executing", "complete", "fail", "failAgain"}
           => approval[target[d]] \in Decided
      /\ pc[d] = "degrade" => approval[target[d]] = "denied"
      /\ pc[d] = "executing" => approval[target[d]] = "approved" /\ verdict[target[d]] = "executing"
      /\ pc[d] = "complete" => ScenarioNow = "duplicate_approval" \/ target[d] \in receipts

(* No key is claimed, and no e-mail sent, without an approval.              *)
Ledger ==
    /\ \A a \in Actions : verdict[a] # "absent" => approval[a] = "approved"
    /\ \A a \in effects : verdict[a] # "absent"

(* A completed session with an approval, or one about to be saved, has a    *)
(* receipt: the approval is saved while the session is not completed, and   *)
(* only a request with a receipt completes it afterwards.                   *)
CompletedStands ==
    /\ status = "completed" /\ scenario # "duplicate_approval"
    /\ (\E a \in Actions : approval[a] = "approved") \/ (\E d \in Deciders : pc[d] = "approve")
    => receipts # {}

(* With one protected action there is one request at most, and the session  *)
(* is neither completed nor failed before its last write.                   *)
Settling == OneProtected =>
    \A d \in Deciders : Flying(d) => status \notin {"completed", "failed"}

(* A session that waits, waits for a decision or for a request in flight.   *)
Waiting ==
    /\ crashes = 0 /\ faults = 0 /\ status = "awaiting_approval"
    => \/ \E a \in Actions : approval[a] \in {"pending", "invalidated"}
       \/ \E d \in Deciders : Flying(d)

Inv == /\ TypeOK /\ Locks /\ PolicyFirst /\ FinalFollows /\ Stages /\ Ledger
       /\ CompletedStands /\ Settling /\ Waiting
-----------------------------------------------------------------------------
(* A death leaves nobody in flight.                                          *)
LEMMA DeadFly == ASSUME Dies PROVE \A d \in Deciders : pc'[d] \notin InFlight
  BY DEF Dies, InFlight

(* What the steps of an accepted request share: only its own place moves,   *)
(* and the approval is unlocked when, and only when, the flight ends.       *)
LEMMA Moves ==
  ASSUME TypeOK, NEW d \in Deciders, RequestStep(d) \/ RequestFault(d)
  PROVE  /\ up /\ up' = up /\ Flying(d)
         /\ UNCHANGED <<target, policyVars, sessionVars, crashes>>
         /\ \A e \in Deciders : e # d => pc'[e] = pc[e]
         /\ \/ pc'[d] \in InFlight /\ decisions' = decisions
            \/ pc'[d] \notin InFlight /\ decisions' = decisions \ {target[d]}
<1> USE DEF TypeOK, Flying, processVars, policyVars, requestVars, execVars, sessionVars
<1>1. CASE Invalidate(d)
  BY <1>1 DEF Invalidate, Answer, InFlight
<1>2. CASE SaveDecision(d)
  BY <1>2 DEF SaveDecision, InFlight
<1>3. CASE RunBegins(d)
  BY <1>3 DEF RunBegins, InFlight
<1>4. CASE RunEnds(d)
  BY <1>4 DEF RunEnds, AfterRun, InFlight
<1>5. CASE SaveStatus(d)
  BY <1>5 DEF SaveStatus, Answer, InFlight
<1>6. CASE RequestFault(d)
  <2>1. pc[d] \in InFlight
    BY <1>6 DEF RequestFault, Uncaught, Caught, Swallowed, InFlight
  <2>. QED
    BY <1>6, <2>1 DEF RequestFault, Answer, InFlight
<1>. QED
  BY <1>1, <1>2, <1>3, <1>4, <1>5, <1>6 DEF RequestStep

(* Locks.                                                                   *)
LEMMA LocksStep == TypeOK /\ Locks /\ [Next]_vars => Locks'
<1> SUFFICES ASSUME TypeOK, Locks, [Next]_vars PROVE Locks'
  OBVIOUS
<1> USE DEF Locks, Flying, processVars, policyVars, requestVars, execVars, sessionVars
<1>1. CASE PolicyStep \/ PolicyFault
  BY <1>1 DEF PolicyStep, CoordinatorEnds, PolicyRound, PolicyEnds, PolicyCatch, PolicyFault
<1>2. ASSUME NEW a \in Actions, ChangeAction(a) \/ Send(a) \/ StoreReceipt(a) PROVE Locks'
  BY <1>2 DEF ChangeAction, Send, StoreReceipt
<1>3. ASSUME NEW d \in Deciders, Submit(d) PROVE Locks'
  <2>1. target' = target /\ up /\ up'
    BY <1>3 DEF Submit
  <2>2. CASE target[d] \notin decisions /\ decisions' = decisions \cup {target[d]}
             /\ pc' = [pc EXCEPT ![d] = Verb(d)]
    BY <2>1, <2>2 DEF TypeOK
  <2>3. CASE decisions' = decisions /\ pc' = [pc EXCEPT ![d] = "done"]
    BY <2>1, <2>3 DEF TypeOK, InFlight
  <2>. QED
    BY <1>3, <2>2, <2>3 DEF Submit, Locked
<1>4. ASSUME NEW d \in Deciders, RequestStep(d) \/ RequestFault(d) PROVE Locks'
  BY <1>4, Moves
<1>5. CASE CatchFails \/ Crash
  BY <1>5, DeadFly DEF CatchFails, Crash
<1>6. CASE Restart
  BY <1>6 DEF Restart
<1>7. CASE UNCHANGED vars
  BY <1>7 DEF vars
<1>. QED
  BY <1>1, <1>2, <1>3, <1>4, <1>5, <1>6, <1>7 DEF Next

(* Requests decide approvals that are pending, and nothing else.            *)
LEMMA Decides ==
  ASSUME TypeOK, Stages, NEW d \in Deciders, RequestStep(d) \/ RequestFault(d)
  PROVE  \/ approval' = approval
         \/ /\ approval[target[d]] = "pending"
            /\ \E s \in Decided : approval' = [approval EXCEPT ![target[d]] = s]
<1> USE DEF Stages, processVars, policyVars, requestVars, execVars, sessionVars
<1>1. CASE Invalidate(d)
  BY <1>1 DEF Invalidate, Decided
<1>2. CASE SaveDecision(d)
  BY <1>2 DEF SaveDecision, Decided
<1>3. CASE RunBegins(d) \/ RunEnds(d) \/ SaveStatus(d) \/ RequestFault(d)
  BY <1>3 DEF RunBegins, RunEnds, SaveStatus, RequestFault
<1>. QED
  BY <1>1, <1>2, <1>3 DEF RequestStep

(* PolicyFirst.  The order of the proposals has no repetition: the approval *)
(* applyPolicy creates is never one it has created before.                  *)
LEMMA PolicyFirstStep ==
  TypeOK /\ Stages /\ PolicyFirst /\ [Next]_vars => PolicyFirst'
<1> SUFFICES ASSUME TypeOK, Stages, PolicyFirst, [Next]_vars PROVE PolicyFirst'
  OBVIOUS
<1> USE DEF PolicyFirst, Flying, processVars, policyVars, requestVars, execVars,
        sessionVars
<1>1. CASE CoordinatorEnds
  BY <1>1 DEF CoordinatorEnds
<1>2. CASE PolicyRound
  <2> DEFINE a == proposed[index]
  <2>1. index \in 1..Len(proposed) /\ a \in Actions /\ a \in Range(proposed)
    BY <1>2, ProposedType DEF PolicyRound, TypeOK
  <2>2. \/ approval' = approval
        \/ Requires(a) /\ approval' = [approval EXCEPT ![a] = "pending"]
    BY <1>2 DEF PolicyRound
  <2> HIDE DEF a
  <2>3. \A i \in index'..Len(proposed') : i \in index..Len(proposed) /\ proposed'[i] # a
    BY <1>2, <2>1, ProposedType DEF PolicyRound, TypeOK, a
  <2>4. \A i \in index'..Len(proposed') : approval'[proposed'[i]] = "none"
    BY <1>2, <2>1, <2>2, <2>3, ProposedType DEF PolicyRound, TypeOK
  <2>5. \A b \in Actions : approval'[b] # "none" => Requires(b) /\ b \in Range(proposed)
    BY <2>1, <2>2 DEF TypeOK
  <2>6. \A b \in Actions : approval'[b] \in {"none", "pending"}
    BY <1>2, <2>1, <2>2 DEF PolicyRound, TypeOK
  <2>. QED
    BY <1>2, <2>4, <2>5, <2>6 DEF PolicyRound
<1>3. CASE PolicyEnds \/ PolicyCatch \/ PolicyFault
  BY <1>3 DEF PolicyEnds, PolicyCatch, PolicyFault
<1>4. ASSUME NEW a \in Actions, ChangeAction(a) \/ Send(a) \/ StoreReceipt(a)
      PROVE PolicyFirst'
  BY <1>4 DEF ChangeAction, Send, StoreReceipt
<1>5. ASSUME NEW d \in Deciders, Submit(d) PROVE PolicyFirst'
  <2>1. UNCHANGED <<up, approval, index, proposed, workflow, status>>
    BY <1>5 DEF Submit
  <2>2. Decidable(target[d]) => workflow \in {"done", "lost"}
    BY DEF Decidable, TypeOK
  <2>3. \A e \in Deciders : pc'[e] \in InFlight =>
          pc[e] \in InFlight \/ Decidable(target[d])
    BY <1>5 DEF Submit, TypeOK, InFlight
  <2>. QED
    BY <2>1, <2>2, <2>3
<1>6. ASSUME NEW d \in Deciders, RequestStep(d) \/ RequestFault(d) PROVE PolicyFirst'
  <2>1. workflow \in {"done", "lost"} /\ up' /\ UNCHANGED <<index, proposed, workflow>>
    BY <1>6, Moves
  <2>2. \A a \in Actions : approval'[a] # "none" => approval[a] # "none"
    BY <1>6, Decides DEF TypeOK, Decided
  <2>3. \A a \in Actions : approval[a] = "none" => approval'[a] = "none"
    BY <1>6, Decides DEF TypeOK
  <2>4. \A i \in index'..Len(proposed') : approval'[proposed'[i]] = "none"
    BY <2>1, <2>3, ProposedType DEF TypeOK
  <2>. QED
    BY <2>1, <2>2, <2>4
<1>7. CASE CatchFails \/ Crash
  <2>1. workflow' \in {"done", "lost"} /\ UNCHANGED <<index, proposed, approval>>
    BY <1>7 DEF CatchFails, Crash, Dies
  <2>. QED
    BY <1>7, <2>1, DeadFly DEF CatchFails, Crash
<1>8. CASE Restart
  BY <1>8 DEF Restart
<1>9. CASE UNCHANGED vars
  BY <1>9 DEF vars
<1>. QED
  BY <1>1, <1>2, <1>3, <1>4, <1>5, <1>6, <1>7, <1>8, <1>9 DEF Next, PolicyStep

(* A decision is final: the approvals applyPolicy creates are new ones, and *)
(* requests decide pending ones.                                            *)
LEMMA DecisionsStand ==
  TypeOK /\ Stages /\ PolicyFirst /\ [Next]_vars
    => \A a \in Actions : approval[a] \in Decided => approval'[a] = approval[a]
<1> SUFFICES ASSUME TypeOK, Stages, PolicyFirst, [Next]_vars
             PROVE  \A a \in Actions : approval[a] \in Decided => approval'[a] = approval[a]
  OBVIOUS
<1> USE DEF processVars, policyVars, requestVars, execVars, sessionVars
<1>1. CASE PolicyRound
  <2>1. index \in index..Len(proposed)
    BY <1>1, ProposedType DEF PolicyRound, TypeOK
  <2>. QED
    BY <1>1, <2>1 DEF PolicyRound, PolicyFirst, TypeOK, Decided
<1>2. ASSUME NEW d \in Deciders, RequestStep(d) \/ RequestFault(d)
      PROVE \A a \in Actions : approval[a] \in Decided => approval'[a] = approval[a]
  BY <1>2, Decides DEF TypeOK, Decided
<1>3. CASE UNCHANGED approval
  BY <1>3
<1>. QED
  BY <1>1, <1>2, <1>3 DEF Next, PolicyStep, CoordinatorEnds, PolicyEnds, PolicyCatch,
     PolicyFault, CatchFails, ChangeAction, Send, StoreReceipt, Submit, Crash, Dies,
     Restart, vars

(* FinalFollows.                                                            *)
LEMMA FinalAfterFollows ==
  ASSUME NEW a \in Actions
  PROVE  LET creates == Requires(a) /\ ScenarioNow # "bypass_protection"
         IN  /\ final \in {"awaiting_approval", "degraded"}
                  => FinalAfter(a) \in {"awaiting_approval", "degraded"}
             /\ creates => FinalAfter(a) = "awaiting_approval"
             /\ FinalAfter(a) = "awaiting_approval" => creates \/ final = "awaiting_approval"
  BY DEF FinalAfter, Requires

LEMMA FinalStep ==
  TypeOK /\ Stages /\ FinalFollows /\ [Next]_vars => FinalFollows'
<1> SUFFICES ASSUME TypeOK, Stages, FinalFollows, [Next]_vars PROVE FinalFollows'
  OBVIOUS
<1> USE DEF FinalFollows, processVars, policyVars, requestVars, execVars, sessionVars
<1>1. CASE PolicyRound
  <2> DEFINE a == proposed[index]
  <2>1. a \in Actions
    BY <1>1, ProposedType DEF PolicyRound, TypeOK
  <2>2. CASE Requires(a) /\ ScenarioNow # "bypass_protection"
    <3>1. final' = "awaiting_approval" /\ approval' = [approval EXCEPT ![a] = "pending"]
      BY <1>1, <2>1, <2>2, FinalAfterFollows DEF PolicyRound
    <3>. QED
      BY <2>1, <3>1 DEF TypeOK
  <2>3. CASE ~(Requires(a) /\ ScenarioNow # "bypass_protection")
    <3>1. final' = FinalAfter(a) /\ approval' = approval
      BY <1>1, <2>3 DEF PolicyRound
    <3>. QED
      BY <2>1, <2>3, <3>1, FinalAfterFollows
  <2>. QED
    BY <2>2, <2>3
<1>2. ASSUME NEW d \in Deciders, RequestStep(d) \/ RequestFault(d) PROVE FinalFollows'
  <2>1. \A a \in Actions : approval'[a] = "none" <=> approval[a] = "none"
    BY <1>2, Decides DEF TypeOK, Decided
  <2>. QED
    BY <1>2, <2>1, Moves
<1>3. CASE UNCHANGED <<approval, final>>
  BY <1>3
<1>. QED
  BY <1>1, <1>2, <1>3 DEF Next, PolicyStep, CoordinatorEnds, PolicyEnds, PolicyCatch,
     PolicyFault, CatchFails, ChangeAction, Send, StoreReceipt, Submit, Crash, Dies,
     Restart, vars

(* Stages.  A request moves alone, and what the others rely on is theirs:   *)
(* no two in flight have the same approval.                                 *)
LEMMA StagesStep ==
  TypeOK /\ Locks /\ PolicyFirst /\ Ledger /\ Stages /\ [Next]_vars => Stages'
<1> SUFFICES ASSUME TypeOK, Locks, PolicyFirst, Ledger, Stages, [Next]_vars PROVE Stages'
  OBVIOUS
<1> USE DEF Stages, processVars, policyVars, requestVars, execVars, sessionVars
<1>1. CASE PolicyStep \/ PolicyFault
  <2>1. workflow \notin {"done", "lost"} /\ pc' = pc
    BY <1>1 DEF PolicyStep, CoordinatorEnds, PolicyRound, PolicyEnds, PolicyCatch, PolicyFault
  <2>. QED
    BY <2>1 DEF PolicyFirst, Flying, InFlight
<1>2. ASSUME NEW a \in Actions, ChangeAction(a) \/ Send(a) PROVE Stages'
  BY <1>2 DEF ChangeAction, Send, Exec!TakeEffect, ScenarioNow
<1>3. ASSUME NEW a \in Actions, StoreReceipt(a) PROVE Stages'
  BY <1>3 DEF StoreReceipt, Exec!Acknowledge, ScenarioNow
<1>4. ASSUME NEW d \in Deciders, Submit(d) PROVE Stages'
  <2>1. UNCHANGED <<approval, verdict, receipts, target, scenario, crashes>>
    BY <1>4 DEF Submit
  <2>2. \A e \in Deciders : e # d => pc'[e] = pc[e]
    BY <1>4 DEF Submit, TypeOK
  <2>3. \/ pc'[d] = "done"
        \/ /\ pc'[d] \in {"invalidate", "approve", "deny"}
           /\ approval[target[d]] = "pending"
    BY <1>4 DEF Submit, Verb, Decidable, TypeOK
  <2>. QED
    BY <2>1, <2>2, <2>3 DEF ScenarioNow
<1>5. ASSUME NEW d \in Deciders, RequestStep(d) \/ RequestFault(d) PROVE Stages'
  <2>1. /\ Flying(d) /\ UNCHANGED <<target, scenario, crashes>>
        /\ \A e \in Deciders : e # d => pc'[e] = pc[e]
    BY <1>5, Moves
  <2>2. \A e \in Deciders : e # d /\ Flying(e) => target[e] # target[d]
    BY <2>1 DEF Locks
  <2>3. \A e \in Deciders : e # d /\ Flying(e)
          => approval'[target[e]] = approval[target[e]]
    BY <1>5, <2>2, Decides DEF TypeOK
  <2>4. verdict' = verdict \/ (\E v : verdict' = [verdict EXCEPT ![target[d]] = v])
    <3>0. target[d] \in Actions /\ verdict \in [Actions -> Exec!Verdicts]
      BY DEF TypeOK, Exec!EffectTypeOK
    <3>1. CASE Invalidate(d) \/ SaveDecision(d) \/ SaveStatus(d) \/ RequestFault(d)
      BY <3>1 DEF Invalidate, SaveDecision, SaveStatus, RequestFault
    <3>2. CASE RunBegins(d)
      BY <3>0, <3>2 DEF RunBegins, Exec!Open
    <3>3. CASE RunEnds(d)
      <4>1. Exec!Succeed(target[d]) \/ Exec!Fail({target[d]}) \/ verdict' = verdict
        BY <3>3 DEF RunEnds
      <4>. QED
        BY <3>0, <4>1 DEF Exec!Succeed, Exec!Fail
    <3>. QED
      BY <1>5, <3>1, <3>2, <3>3 DEF RequestStep
  <2>5. \A e \in Deciders : e # d /\ Flying(e)
          => verdict'[target[e]] = verdict[target[e]]
    BY <2>2, <2>4 DEF TypeOK, Exec!EffectTypeOK
  <2>6. receipts' = receipts
    BY <1>5 DEF RequestStep, Invalidate, SaveDecision, RunBegins, RunEnds, SaveStatus,
       RequestFault, Exec!Open, Exec!Succeed, Exec!Fail
  <2>7. ASSUME NEW e \in Deciders, e # d
        PROVE  /\ pc'[e] \in {"invalidate", "deny", "approve"}
                    => approval'[target'[e]] = "pending"
               /\ pc'[e] = "run" => /\ approval'[target'[e]] = "approved"
                                    /\ verdict'[target'[e]] = "absent"
               /\ pc'[e] \in {"degrade", "executing", "complete", "fail", "failAgain"}
                    => approval'[target'[e]] \in Decided
               /\ pc'[e] = "degrade" => approval'[target'[e]] = "denied"
               /\ pc'[e] = "executing" => /\ approval'[target'[e]] = "approved"
                                          /\ verdict'[target'[e]] = "executing"
               /\ pc'[e] = "complete"
                    => ScenarioNow' = "duplicate_approval" \/ target'[e] \in receipts'
    BY <2>1, <2>3, <2>5, <2>6, <2>7 DEF Flying, InFlight, ScenarioNow
  <2>8. /\ pc'[d] \notin {"invalidate", "deny", "approve"}
        /\ pc'[d] = "run" => /\ approval'[target'[d]] = "approved"
                             /\ verdict'[target'[d]] = "absent"
        /\ pc'[d] \in {"degrade", "executing", "complete", "fail", "failAgain"}
             => approval'[target'[d]] \in Decided
        /\ pc'[d] = "degrade" => approval'[target'[d]] = "denied"
        /\ pc'[d] = "executing" => /\ approval'[target'[d]] = "approved"
                                   /\ verdict'[target'[d]] = "executing"
        /\ pc'[d] = "complete"
             => ScenarioNow' = "duplicate_approval" \/ target'[d] \in receipts'
    <3>1. CASE Invalidate(d) \/ SaveStatus(d)
      BY <3>1 DEF Invalidate, SaveStatus, Answer, TypeOK
    <3>2. CASE SaveDecision(d)
      BY <3>2 DEF SaveDecision, TypeOK, Exec!EffectTypeOK, Exec!Verdicts, Decided, Ledger
    <3>3. CASE RunBegins(d)
      BY <3>3 DEF RunBegins, TypeOK, Decided, Exec!Open, Exec!EffectTypeOK
    <3>4. CASE RunEnds(d)
      BY <3>4, <2>1 DEF RunEnds, AfterRun, Exec!Succeed, TypeOK, ScenarioNow
    <3>5. CASE RequestFault(d)
      <4>1. approval' = approval
        BY <3>5 DEF RequestFault
      <4>2. \/ pc'[d] = "done"
            \/ pc'[d] = "failAgain" /\ Caught(d)
            \/ pc'[d] = "complete" /\ Swallowed(d)
        BY <3>5 DEF RequestFault, Answer, TypeOK
      <4>3. Caught(d) \/ Swallowed(d) => approval[target[d]] \in Decided
        BY DEF Caught, Swallowed, Decided
      <4>. QED
        BY <2>1, <4>1, <4>2, <4>3 DEF Swallowed, ScenarioNow
    <3>. QED
      BY <1>5, <3>1, <3>2, <3>3, <3>4, <3>5 DEF RequestStep
  <2>. QED
    BY <2>7, <2>8
<1>6. CASE CatchFails \/ Crash
  <2>1. \A d \in Deciders : pc'[d] \notin InFlight
    BY <1>6, DeadFly DEF CatchFails, Crash
  <2>. QED
    BY <2>1 DEF InFlight
<1>7. CASE Restart
  BY <1>7 DEF Restart, Locks, Flying, InFlight
<1>8. CASE UNCHANGED vars
  BY <1>8 DEF vars, ScenarioNow
<1>. QED
  BY <1>1, <1>2, <1>3, <1>4, <1>5, <1>6, <1>7, <1>8 DEF Next

(* Ledger.                                                                  *)
LEMMA LedgerStep ==
  TypeOK /\ Stages /\ PolicyFirst /\ Ledger /\ [Next]_vars => Ledger'
<1> SUFFICES ASSUME TypeOK, Stages, PolicyFirst, Ledger, [Next]_vars PROVE Ledger'
  OBVIOUS
<1> USE DEF Ledger, processVars, policyVars, requestVars, execVars, sessionVars
<1>1. \A a \in Actions : approval[a] = "approved" => approval'[a] = "approved"
  BY DecisionsStand DEF Decided
<1>2. ASSUME NEW a \in Actions, Send(a) PROVE Ledger'
  BY <1>2 DEF Send, Exec!TakeEffect
<1>3. ASSUME NEW d \in Deciders, RunBegins(d) PROVE Ledger'
  BY <1>1, <1>3 DEF RunBegins, Exec!Open, Stages, TypeOK, Exec!EffectTypeOK
<1>4. ASSUME NEW d \in Deciders, RunEnds(d) PROVE Ledger'
  BY <1>1, <1>4 DEF RunEnds, Exec!Succeed, Exec!Fail, TypeOK, Exec!EffectTypeOK
<1>5. CASE Restart
  BY <1>1, <1>5 DEF Restart, Exec!Fail, TypeOK, Exec!EffectTypeOK
<1>6. CASE UNCHANGED <<verdict, effects>>
  BY <1>1, <1>6 DEF TypeOK, Exec!EffectTypeOK
<1>. QED
  BY <1>2, <1>3, <1>4, <1>5, <1>6 DEF Next, PolicyStep, RequestStep, CoordinatorEnds,
     PolicyRound, PolicyEnds, PolicyCatch, PolicyFault, CatchFails, ChangeAction,
     StoreReceipt, Exec!Acknowledge, Submit, Invalidate, SaveDecision, SaveStatus,
     RequestFault, Crash, Dies, vars

(* CompletedStands.                                                         *)
LEMMA CompletedStep ==
  /\ TypeOK /\ Locks /\ PolicyFirst /\ FinalFollows /\ Stages /\ CompletedStands
  /\ [Next]_vars
  => CompletedStands'
<1> DEFINE AtStake == \/ \E a \in Actions : approval[a] = "approved"
                      \/ \E d \in Deciders : pc[d] = "approve"
<1> SUFFICES ASSUME TypeOK, Locks, PolicyFirst, FinalFollows, Stages, CompletedStands,
                    [Next]_vars, status' = "completed", scenario' # "duplicate_approval",
                    AtStake'
             PROVE  receipts' # {}
  BY DEF CompletedStands
<1> USE DEF processVars, policyVars, requestVars, execVars, sessionVars
<1>1. CASE CoordinatorEnds
  BY <1>1 DEF CoordinatorEnds, PolicyFirst, Flying, InFlight
<1>2. CASE PolicyRound
  <2>1. \A a \in Actions : approval[a] \in {"none", "pending"}
    BY <1>2 DEF PolicyRound, PolicyFirst
  <2>2. \A a \in Actions : approval'[a] \in {"none", "pending"}
    BY <1>2, <2>1 DEF PolicyRound, TypeOK
  <2>. QED
    BY <1>2, <2>2 DEF PolicyRound, PolicyFirst, Flying, InFlight
<1>3. CASE PolicyEnds
  <2>1. \A a \in Actions : approval[a] = "none"
    BY <1>3 DEF PolicyEnds, FinalFollows
  <2>. QED
    BY <1>3, <2>1 DEF PolicyEnds, PolicyFirst, Flying, InFlight
<1>4. CASE PolicyCatch
  BY <1>4 DEF PolicyCatch
<1>5. CASE PolicyFault \/ \E a \in Actions : ChangeAction(a) \/ Send(a)
  BY <1>5 DEF PolicyFault, ChangeAction, Send, Exec!TakeEffect, CompletedStands
<1>6. ASSUME NEW a \in Actions, StoreReceipt(a) PROVE receipts' # {}
  BY <1>6 DEF StoreReceipt, Exec!Acknowledge
<1>7. ASSUME NEW d \in Deciders, Submit(d) PROVE receipts' # {}
  <2>1. UNCHANGED <<status, scenario, approval, receipts>>
    BY <1>7 DEF Submit
  <2>2. \A e \in Deciders : pc'[e] = "approve" => pc[e] = "approve"
    BY <1>7, <2>1 DEF Submit, Decidable, TypeOK
  <2>. QED
    BY <2>1, <2>2 DEF CompletedStands
<1>8. ASSUME NEW d \in Deciders, Invalidate(d) \/ RequestFault(d) PROVE receipts' # {}
  <2>1. UNCHANGED <<status, scenario, receipts>>
    BY <1>8 DEF Invalidate, RequestFault
  <2>2. \A a \in Actions : approval'[a] = "approved" => approval[a] = "approved"
    BY <1>8 DEF Invalidate, RequestFault, TypeOK
  <2>3. \A e \in Deciders : pc'[e] = "approve" => pc[e] = "approve"
    BY <1>8 DEF Invalidate, RequestFault, Answer, TypeOK
  <2>. QED
    BY <2>1, <2>2, <2>3 DEF CompletedStands
<1>9. ASSUME NEW d \in Deciders, SaveDecision(d) PROVE receipts' # {}
  <2>1. UNCHANGED <<status, scenario, receipts>>
    BY <1>9 DEF SaveDecision
  <2>2. AtStake
    BY <1>9 DEF SaveDecision, TypeOK
  <2>. QED
    BY <2>1, <2>2 DEF CompletedStands
<1>10. ASSUME NEW d \in Deciders, RunBegins(d) \/ RunEnds(d) PROVE receipts' # {}
  <2>1. UNCHANGED <<status, scenario, approval, receipts>>
    BY <1>10 DEF RunBegins, RunEnds, Exec!Open, Exec!Succeed, Exec!Fail
  <2>2. \A e \in Deciders : pc'[e] = "approve" => pc[e] = "approve"
    BY <1>10 DEF RunBegins, RunEnds, AfterRun, TypeOK
  <2>. QED
    BY <2>1, <2>2 DEF CompletedStands
<1>11. ASSUME NEW d \in Deciders, SaveStatus(d) PROVE receipts' # {}
  <2>1. pc[d] = "complete" /\ UNCHANGED <<scenario, receipts>>
    BY <1>11 DEF SaveStatus
  <2>. QED
    BY <2>1 DEF Stages, ScenarioNow
<1>12. CASE CatchFails \/ Crash
  <2>1. UNCHANGED <<status, scenario, approval, receipts>>
    BY <1>12 DEF CatchFails, Crash, Dies
  <2>2. \A e \in Deciders : pc'[e] # "approve"
    BY <1>12, DeadFly DEF CatchFails, Crash, InFlight
  <2>. QED
    BY <2>1, <2>2 DEF CompletedStands
<1>13. CASE Restart
  BY <1>13 DEF Restart, Reconciled, Exec!Fail, CompletedStands
<1>14. CASE UNCHANGED vars
  BY <1>14 DEF vars, CompletedStands
<1>. QED
  BY <1>1, <1>2, <1>3, <1>4, <1>5, <1>6, <1>7, <1>8, <1>9, <1>10, <1>11, <1>12,
     <1>13, <1>14 DEF Next, PolicyStep, RequestStep

(* Settling.  The requests of a session with one protected action decide    *)
(* the same approval, and the lock lets one of them in.                     *)
LEMMA OneFlight ==
  ASSUME TypeOK, Locks, PolicyFirst, Stages, OneProtected, NEW d \in Deciders,
         NEW e \in Deciders, Flying(d), Flying(e)
  PROVE  d = e
<1>1. approval[target[d]] # "none" /\ approval[target[e]] # "none"
  BY DEF Stages, Flying, InFlight, Decided
<1>2. target[d] \in Actions /\ target[e] \in Actions
  BY DEF TypeOK
<1>3. target[d] = target[e]
  BY <1>1, <1>2 DEF PolicyFirst, OneProtected
<1>. QED
  BY <1>3 DEF Locks

LEMMA SettlingStep ==
  TypeOK /\ Locks /\ PolicyFirst /\ Stages /\ Settling /\ [Next]_vars => Settling'
<1> SUFFICES ASSUME TypeOK, Locks, PolicyFirst, Stages, Settling, [Next]_vars,
                    OneProtected'
             PROVE  \A d \in Deciders : Flying(d)' => status' \notin {"completed", "failed"}
  BY DEF Settling
<1> USE DEF processVars, policyVars, requestVars, execVars, sessionVars, Flying
<1>1. proposed' = proposed
  BY DEF Next, PolicyStep, RequestStep, CoordinatorEnds, PolicyRound, PolicyEnds,
     PolicyCatch, PolicyFault, CatchFails, ChangeAction, Send, StoreReceipt, Submit,
     Invalidate, SaveDecision, RunBegins, RunEnds, SaveStatus, RequestFault, Crash,
     Dies, Restart, vars
<1>2. OneProtected
  BY <1>1 DEF OneProtected, Requires, Policy
<1>3. \A d \in Deciders : Flying(d) => status \notin {"completed", "failed"}
  BY <1>2 DEF Settling
<1>4. CASE PolicyStep \/ PolicyFault
  BY <1>4 DEF PolicyStep, CoordinatorEnds, PolicyRound, PolicyEnds, PolicyCatch,
     PolicyFault, PolicyFirst
<1>5. CASE UNCHANGED <<pc, status>>
  BY <1>3, <1>5
<1>6. ASSUME NEW d \in Deciders, Submit(d)
      PROVE \A e \in Deciders : Flying(e)' => status' \notin {"completed", "failed"}
  <2>1. status' = status
    BY <1>6 DEF Submit
  <2>2. \A e \in Deciders : Flying(e)' => Flying(e) \/ Decidable(target[d])
    BY <1>6 DEF Submit, TypeOK, InFlight
  <2>. QED
    BY <1>3, <2>1, <2>2 DEF Decidable
<1>7. ASSUME NEW d \in Deciders, SaveStatus(d)
      PROVE \A e \in Deciders : Flying(e)' => status' \notin {"completed", "failed"}
  <2>1. Flying(d) /\ pc'[d] = "done" /\ \A e \in Deciders : e # d => pc'[e] = pc[e]
    BY <1>7, Moves DEF RequestStep, SaveStatus, Answer, TypeOK
  <2>2. \A e \in Deciders : ~Flying(e)'
    BY <1>2, <2>1, OneFlight DEF InFlight
  <2>. QED
    BY <2>2
<1>8. ASSUME NEW d \in Deciders, RequestStep(d) \/ RequestFault(d), status' = status
      PROVE \A e \in Deciders : Flying(e)' => status' \notin {"completed", "failed"}
  <2>1. Flying(d) /\ \A e \in Deciders : e # d => pc'[e] = pc[e]
    BY <1>8, Moves
  <2>. QED
    BY <1>3, <1>8, <2>1
<1>9. CASE CatchFails \/ Crash
  BY <1>9, DeadFly DEF CatchFails, Crash
<1>10. CASE Restart
  BY <1>10 DEF Restart, Locks
<1>. QED
  BY <1>4, <1>5, <1>6, <1>7, <1>8, <1>9, <1>10 DEF Next, RequestStep, ChangeAction, Send,
     StoreReceipt, Invalidate, SaveDecision, RunBegins, RunEnds, RequestFault, vars

(* Waiting.                                                                 *)
LEMMA WaitingStep ==
  TypeOK /\ PolicyFirst /\ FinalFollows /\ Stages /\ Waiting /\ [Next]_vars => Waiting'
<1> DEFINE Hope == \/ \E a \in Actions : approval[a] \in {"pending", "invalidated"}
                   \/ \E d \in Deciders : Flying(d)
<1> SUFFICES ASSUME TypeOK, PolicyFirst, FinalFollows, Stages, Waiting, [Next]_vars,
                    crashes' = 0, faults' = 0, status' = "awaiting_approval"
             PROVE  Hope'
  BY DEF Waiting
<1> USE DEF processVars, policyVars, requestVars, execVars, sessionVars, Flying
<1>1. CASE CoordinatorEnds \/ PolicyCatch
  BY <1>1 DEF CoordinatorEnds, PolicyCatch
<1>2. CASE PolicyRound \/ PolicyFault
  BY <1>2 DEF PolicyRound, PolicyFault, PolicyFirst
<1>3. CASE PolicyEnds
  BY <1>3 DEF PolicyEnds, PolicyFirst, FinalFollows
<1>4. ASSUME NEW a \in Actions, ChangeAction(a) \/ Send(a) \/ StoreReceipt(a) PROVE Hope'
  BY <1>4 DEF ChangeAction, Send, StoreReceipt, Waiting
<1>5. ASSUME NEW d \in Deciders, Submit(d) PROVE Hope'
  <2>1. UNCHANGED <<crashes, faults, status, approval>>
    BY <1>5 DEF Submit
  <2>2. \A e \in Deciders : Flying(e) => Flying(e)'
    BY <1>5 DEF Submit, TypeOK, InFlight
  <2>. QED
    BY <2>1, <2>2 DEF Waiting
<1>6. ASSUME NEW d \in Deciders, Invalidate(d) PROVE Hope'
  BY <1>6 DEF Invalidate, TypeOK
<1>7. ASSUME NEW d \in Deciders, SaveDecision(d) \/ RunBegins(d) \/ RunEnds(d) PROVE Hope'
  <2>1. pc'[d] \in InFlight
    BY <1>7 DEF SaveDecision, RunBegins, RunEnds, AfterRun, TypeOK, InFlight
  <2>. QED
    BY <2>1
<1>8. ASSUME NEW d \in Deciders, SaveStatus(d) \/ RequestFault(d) PROVE Hope'
  BY <1>8 DEF SaveStatus, RequestFault, Fault, TypeOK
<1>9. CASE CatchFails \/ Crash
  BY <1>9 DEF CatchFails, Crash, Dies, TypeOK
<1>10. CASE Restart
  BY <1>10 DEF Restart, Reconciled, Waiting
<1>11. CASE UNCHANGED vars
  BY <1>11 DEF vars, Waiting
<1>. QED
  BY <1>1, <1>2, <1>3, <1>4, <1>5, <1>6, <1>7, <1>8, <1>9, <1>10, <1>11
     DEF Next, PolicyStep, RequestStep
-----------------------------------------------------------------------------
LEMMA InvInit == Init => Inv
<1> SUFFICES ASSUME Init PROVE Inv
  OBVIOUS
<1>1. TypeOK
  BY TypeInit
<1>2. \A d \in Deciders : pc[d] = "idle"
  BY DEF Init
<1>3. \A a \in Actions : approval[a] = "none" /\ verdict[a] = "absent"
  BY DEF Init, Exec!EffectInit
<1>4. \A i \in index..Len(proposed) : approval[proposed[i]] = "none"
  BY <1>3, ProposedType DEF Init
<1>5. Locks /\ PolicyFirst /\ Stages /\ Settling /\ Waiting
  BY <1>2, <1>3, <1>4 DEF Init, Locks, PolicyFirst, Stages, Settling, Waiting, Flying, InFlight
<1>6. FinalFollows /\ Ledger /\ CompletedStands
  BY <1>3 DEF Init, FinalFollows, Ledger, CompletedStands, Exec!EffectInit
<1>. QED
  BY <1>1, <1>5, <1>6 DEF Inv

LEMMA InvStep == Inv /\ [Next]_vars => Inv'
  BY TypeStep, LocksStep, PolicyFirstStep, FinalStep, StagesStep, LedgerStep,
     CompletedStep, SettlingStep, WaitingStep DEF Inv

(* Inv is an invariant.                                                     *)
LEMMA Invariance == Spec => []Inv
  BY InvInit, InvStep, PTL DEF Spec

(* Every variable of the workflow keeps its type.                           *)
THEOREM WorkflowTypeCorrect == Spec => []TypeOK
<1>1. Inv => TypeOK
  BY DEF Inv
<1>. QED
  BY <1>1, Invariance, PTL

(* No e-mail leaves without an approval that still stands: decideApproval   *)
(* saves the approval before it executes, and nothing takes it back.        *)
THEOREM EffectsAreApproved == Spec => []EffectsApproved
<1>1. Inv => EffectsApproved
  BY DEF Inv, EffectsApproved, Ledger, TypeOK, Exec!EffectTypeOK
<1>. QED
  BY <1>1, Invariance, PTL

(* The claim of an approved request never meets a row in the ledger.        *)
THEOREM ClaimsNeverCollide == Spec => []KeyIsFree
<1>1. Inv => KeyIsFree
  BY DEF Inv, KeyIsFree, Stages
<1>. QED
  BY <1>1, Invariance, PTL

(* A completed session with an approved action has a stored receipt,        *)
(* whether a request or the restart completed it.                           *)
THEOREM CompletionNeedsReceipt == Spec => []CompletedHasReceipt
<1>1. Inv => CompletedHasReceipt
  BY DEF Inv, CompletedHasReceipt, CompletedStands
<1>. QED
  BY <1>1, Invariance, PTL

(* Without crashes, failing writes and changed actions, no session waits    *)
(* for an approval that nobody can decide any more.                         *)
THEOREM NobodyWaitsInVain == Spec => []WaitsForSomebody
<1>1. ASSUME Inv PROVE WaitsForSomebody
  <2>1. SUFFICES ASSUME Wedged, crashes = 0, faults = 0
                 PROVE  "invalidated" \in Range(approval)
    BY <1>1 DEF Inv, TypeOK, WaitsForSomebody
  <2>2. PICK a \in Actions : approval[a] = "invalidated"
    BY <1>1, <2>1 DEF Inv, Waiting, Wedged, Flying
  <2>. QED
    BY <1>1, <2>2 DEF Range, Inv, TypeOK
<1>. QED
  BY <1>1, Invariance, PTL

(* A decision is final.                                                     *)
THEOREM DecisionsAreFinal == Spec => DecisionIsFinal
<1>1. Inv /\ [Next]_vars
        => [\A a \in Actions : approval[a] \in Decided => approval'[a] = approval[a]]_vars
  BY DecisionsStand DEF Inv
<1>. QED
  BY <1>1, Invariance, PTL DEF Spec, DecisionIsFinal

(* With one protected action, a session that is completed or failed stays   *)
(* so.                                                                      *)
LEMMA FinishedStep ==
  /\ Inv /\ [Next]_vars
  /\ OneProtected /\ workflow \in {"done", "lost"} /\ status \in {"completed", "failed"}
  => status' = status
<1> SUFFICES ASSUME Inv, [Next]_vars, OneProtected, workflow \in {"done", "lost"},
                    status \in {"completed", "failed"}
             PROVE  status' = status
  OBVIOUS
<1> USE DEF processVars, policyVars, requestVars, execVars, sessionVars
<1>1. CASE PolicyStep
  BY <1>1 DEF PolicyStep, CoordinatorEnds, PolicyRound, PolicyEnds, PolicyCatch
<1>2. ASSUME NEW d \in Deciders, RequestStep(d) PROVE FALSE
  BY <1>2, Moves DEF Inv, Settling
<1>3. CASE Restart
  BY <1>3 DEF Restart, Reconciled
<1>4. CASE status' = status
  BY <1>4
<1>. QED
  BY <1>1, <1>2, <1>3, <1>4 DEF Next, PolicyFault, CatchFails, ChangeAction, Send,
     StoreReceipt, Submit, RequestFault, Crash, Dies, vars

(* FinishedStaysFinished: with one protected action, no later decision,     *)
(* late answer or restart takes a session out of completed or failed.       *)
THEOREM FinishedSessionsStay == Spec => FinishedStaysFinished
<1>1. Inv /\ [Next]_vars
        => [(OneProtected /\ workflow \in {"done", "lost"} /\ status \in {"completed", "failed"})
              => status' = status]_vars
  BY FinishedStep
<1>. QED
  BY <1>1, Invariance, PTL DEF Spec, FinishedStaysFinished
-----------------------------------------------------------------------------
(* The safety half of ApprovedResolves.                                     *)

(* While applyPolicy works the process has not died, so the scenario is     *)
(* known; and once it has created an approval, the session will wait.       *)
FinalWaits ==
    /\ workflow \in {"coordinating", "policy", "catch"} => crashes = 0
    /\ scenario = "bypass_protection" => \A a \in Actions : approval[a] = "none"
    /\ (\E a \in Actions : approval[a] # "none") => final = "awaiting_approval"

First == approval[proposed[1]]

(* Until the one approval is decided, and after it was approved, the        *)
(* session has a status that a restart reconciles, or is over.              *)
StaysOpen ==
    OneProtected /\ faults = 0 /\ First \in {"pending", "approved"}
        => status \in {"awaiting_approval", "completed", "failed"}

Executes(d) == target[d] = proposed[1] /\ pc[d] \in {"run", "executing", "complete", "fail"}

(* An approved action has a request at work, or the process is dead.        *)
AtWork ==
    OneProtected /\ faults = 0 /\ First = "approved"
        => status \in {"completed", "failed"} \/ ~up \/ \E d \in Deciders : Executes(d)

(* An approved action is never left alone: the session has ended, a write   *)
(* failed, a restart will end the session, or a request has its next step.  *)
GoesOn(d) == /\ up /\ target[d] = proposed[1]
             /\ \/ pc[d] = "run" /\ verdict[target[d]] = "absent"           \* RunBegins
                \/ pc[d] = "executing" /\ verdict[target[d]] = "executing"   \* RunEnds
                \/ pc[d] \in {"complete", "fail"}                            \* SaveStatus

ApprovedGoesOn ==
    OneProtected /\ First = "approved"
        => \/ status \in {"completed", "failed"} \/ faults > 0
           \/ ~up /\ Reconciled \in {"completed", "failed"}
           \/ \E d \in Deciders : GoesOn(d)

LEMMA FinalWaitsStep ==
  TypeOK /\ PolicyFirst /\ Stages /\ FinalWaits /\ [Next]_vars => FinalWaits'
<1> SUFFICES ASSUME TypeOK, PolicyFirst, Stages, FinalWaits, [Next]_vars PROVE FinalWaits'
  OBVIOUS
<1> USE DEF FinalWaits, processVars, policyVars, requestVars, execVars, sessionVars
<1>1. CASE PolicyRound
  <2> DEFINE a == proposed[index]
  <2>1. a \in Actions
    BY <1>1, ProposedType DEF PolicyRound, TypeOK
  <2>2. ScenarioNow = scenario
    BY <1>1 DEF PolicyRound, ScenarioNow
  <2>3. CASE Requires(a) /\ scenario # "bypass_protection"
    <3>1. final' = "awaiting_approval" /\ UNCHANGED <<workflow, crashes, scenario>>
      BY <1>1, <2>1, <2>2, <2>3, FinalAfterFollows DEF PolicyRound
    <3>. QED
      BY <2>3, <3>1
  <2>4. CASE ~(Requires(a) /\ scenario # "bypass_protection")
    <3>1. final' = FinalAfter(a) /\ UNCHANGED <<approval, workflow, crashes, scenario>>
      BY <1>1, <2>2, <2>4 DEF PolicyRound
    <3>2. (\E b \in Actions : approval[b] # "none") => FinalAfter(a) = "awaiting_approval"
      BY <2>2, <2>4 DEF FinalAfter, Requires
    <3>. QED
      BY <3>1, <3>2
  <2>. QED
    BY <2>3, <2>4
<1>2. ASSUME NEW d \in Deciders, RequestStep(d) \/ RequestFault(d) PROVE FinalWaits'
  <2>1. \A a \in Actions : approval'[a] = "none" <=> approval[a] = "none"
    BY <1>2, Decides DEF TypeOK, Decided
  <2>. QED
    BY <1>2, <2>1, Moves
<1>3. CASE CoordinatorEnds \/ PolicyEnds \/ PolicyCatch \/ PolicyFault
  BY <1>3 DEF CoordinatorEnds, PolicyEnds, PolicyCatch, PolicyFault
<1>4. CASE CatchFails \/ Crash
  BY <1>4 DEF CatchFails, Crash, Dies
<1>5. CASE UNCHANGED <<approval, final, workflow, crashes, scenario>>
  BY <1>5
<1>. QED
  BY <1>1, <1>2, <1>3, <1>4, <1>5 DEF Next, PolicyStep, ChangeAction, Send, StoreReceipt,
     Submit, Restart, vars

(* The one protected action is the one an approval was asked for.           *)
LEMMA OneAction ==
  ASSUME TypeOK, PolicyFirst, OneProtected, First # "none"
  PROVE  /\ proposed[1] \in Actions
         /\ \A a \in Actions : approval[a] # "none" => a = proposed[1]
<1>1. proposed[1] \in Actions /\ proposed[1] \in Range(proposed)
  BY ProposedType DEF TypeOK
<1>. QED
  BY <1>1 DEF PolicyFirst, OneProtected, First

(* An approval is asked for before the session waits; only its denial       *)
(* degrades the session.                                                    *)
LEMMA OpenStep ==
  TypeOK /\ PolicyFirst /\ Stages /\ FinalWaits /\ StaysOpen /\ [Next]_vars => StaysOpen'
<1> SUFFICES ASSUME TypeOK, PolicyFirst, Stages, FinalWaits, StaysOpen, [Next]_vars,
                    OneProtected', faults' = 0, First' \in {"pending", "approved"}
             PROVE  status' \in {"awaiting_approval", "completed", "failed"}
  BY DEF StaysOpen
<1> USE DEF First, processVars, policyVars, requestVars, execVars, sessionVars
<1>1. proposed' = proposed
  BY DEF Next, PolicyStep, RequestStep, CoordinatorEnds, PolicyRound, PolicyEnds,
     PolicyCatch, PolicyFault, CatchFails, ChangeAction, Send, StoreReceipt, Submit,
     Invalidate, SaveDecision, RunBegins, RunEnds, SaveStatus, RequestFault, Crash,
     Dies, Restart, vars
<1>2. OneProtected
  BY <1>1 DEF OneProtected, Requires, Policy
<1>3. proposed[1] \in Actions
  BY ProposedType DEF TypeOK
<1>4. CASE CoordinatorEnds
  BY <1>3, <1>4 DEF CoordinatorEnds, PolicyFirst
<1>5. CASE PolicyRound
  BY <1>5 DEF PolicyRound, PolicyFirst
<1>6. CASE PolicyEnds
  BY <1>1, <1>3, <1>6 DEF PolicyEnds, FinalWaits
<1>7. CASE PolicyCatch
  BY <1>7 DEF PolicyCatch
<1>8. CASE PolicyFault \/ CatchFails \/ \E d \in Deciders : RequestFault(d)
  BY <1>8 DEF PolicyFault, CatchFails, RequestFault, Fault, TypeOK
<1>9. ASSUME NEW d \in Deciders, Invalidate(d) \/ SaveDecision(d)
      PROVE  status' \in {"awaiting_approval", "completed", "failed"}
  <2>1. status' = status /\ faults' = faults
    BY <1>9 DEF Invalidate, SaveDecision
  <2>2. First \in {"pending", "approved"}
    BY <1>1, <1>3, <1>9, Decides DEF RequestStep, TypeOK
  <2>. QED
    BY <1>2, <2>1, <2>2 DEF StaysOpen
<1>10. ASSUME NEW d \in Deciders, SaveStatus(d)
       PROVE  status' \in {"awaiting_approval", "completed", "failed"}
  <2>1. approval' = approval
    BY <1>10 DEF SaveStatus
  <2>2. pc[d] = "degrade" => FALSE
    <3>1. target[d] \in Actions
      BY DEF TypeOK
    <3>. QED
      BY <1>1, <1>2, <2>1, <3>1, OneAction DEF Stages
  <2>. QED
    BY <1>10, <2>2 DEF SaveStatus
<1>11. CASE Restart
  <2>1. status \in {"awaiting_approval", "completed", "failed"}
    BY <1>1, <1>2, <1>11 DEF Restart, StaysOpen
  <2>. QED
    BY <1>11, <2>1 DEF Restart, Reconciled
<1>12. CASE UNCHANGED <<approval, status, faults>>
  BY <1>1, <1>2, <1>12 DEF StaysOpen
<1>. QED
  BY <1>4, <1>5, <1>6, <1>7, <1>8, <1>9, <1>10, <1>11, <1>12 DEF Next, PolicyStep,
     RequestStep, ChangeAction, Send, StoreReceipt, Submit, RunBegins, RunEnds, Crash,
     Dies, vars

(* The one who executes goes on to its last write, or dies with the process; *)
(* the restart then decides by the receipts.                                *)
LEMMA AtWorkStep ==
  Inv /\ FinalWaits /\ StaysOpen /\ AtWork /\ [Next]_vars => AtWork'
<1> DEFINE Goal == status' \in {"completed", "failed"} \/ ~up' \/ \E d \in Deciders : Executes(d)'
<1> SUFFICES ASSUME Inv, FinalWaits, StaysOpen, AtWork, [Next]_vars,
                    OneProtected', faults' = 0, First' = "approved"
             PROVE  Goal
  BY DEF AtWork
<1> USE DEF Inv, First, processVars, policyVars, requestVars, execVars, sessionVars
<1>1. proposed' = proposed
  BY DEF Next, PolicyStep, RequestStep, CoordinatorEnds, PolicyRound, PolicyEnds,
     PolicyCatch, PolicyFault, CatchFails, ChangeAction, Send, StoreReceipt, Submit,
     Invalidate, SaveDecision, RunBegins, RunEnds, SaveStatus, RequestFault, Crash,
     Dies, Restart, vars
<1>2. OneProtected /\ proposed[1] \in Actions
  <2>1. OneProtected
    BY <1>1 DEF OneProtected, Requires, Policy
  <2>2. TypeOK
    OBVIOUS
  <2>3. proposed[1] \in Actions
    BY <2>2, ProposedType DEF TypeOK
  <2>. QED
    BY <2>1, <2>3
<1>3. CASE PolicyStep
  <2>1. \A a \in Actions : approval[a] \in {"none", "pending"}
    BY <1>3 DEF PolicyStep, CoordinatorEnds, PolicyRound, PolicyEnds, PolicyCatch, PolicyFirst
  <2>2. \A a \in Actions : approval'[a] \in {"none", "pending"}
    <3>1. approval' = approval \/ \E a : approval' = [approval EXCEPT ![a] = "pending"]
      BY <1>3 DEF PolicyStep, CoordinatorEnds, PolicyRound, PolicyEnds, PolicyCatch
    <3>. QED
      BY <2>1, <3>1 DEF TypeOK
  <2>. QED
    BY <1>1, <1>2, <2>2
<1>4. CASE PolicyFault \/ CatchFails \/ \E d \in Deciders : RequestFault(d)
  BY <1>4 DEF PolicyFault, CatchFails, RequestFault, Fault, TypeOK
<1>5. ASSUME NEW d \in Deciders, Submit(d) PROVE Goal
  <2>1. UNCHANGED <<up, faults, status, approval, target>> /\ pc[d] = "idle"
    BY <1>5 DEF Submit
  <2>2. \A e \in Deciders : e # d => pc'[e] = pc[e]
    BY <1>5 DEF Submit, TypeOK
  <2>. QED
    BY <1>1, <1>2, <2>1, <2>2 DEF AtWork, Executes
<1>6. ASSUME NEW d \in Deciders, RequestStep(d) PROVE Goal
  <2>1. /\ up' = up /\ target' = target /\ faults' = faults
        /\ \A e \in Deciders : e # d => pc'[e] = pc[e]
    BY <1>6, Moves DEF RequestStep, Invalidate, SaveDecision, RunBegins, RunEnds, SaveStatus
  <2>2. CASE SaveStatus(d)
    <3>1. pc[d] # "degrade"
      <4>1. target[d] \in Actions /\ approval' = approval
        BY <2>2 DEF TypeOK, SaveStatus
      <4>. QED
        BY <1>1, <1>2, <4>1, OneAction DEF Stages
    <3>. QED
      BY <2>2, <3>1 DEF SaveStatus
  <2>3. CASE pc[d] = "approve" /\ SaveDecision(d) /\ target[d] = proposed[1]
    <3>1. pc'[d] = "run"
      BY <2>3 DEF SaveDecision, TypeOK
    <3>. QED
      BY <1>1, <2>1, <2>3, <3>1 DEF Executes
  <2>4. ASSUME ~SaveStatus(d), ~(pc[d] = "approve" /\ SaveDecision(d) /\ target[d] = proposed[1])
        PROVE  Goal
    <3>1. status' = status
      BY <1>6, <2>4 DEF RequestStep, Invalidate, SaveDecision, RunBegins, RunEnds
    <3>2. First = "approved"
      <4>1. CASE Invalidate(d)
        BY <1>1, <1>2, <4>1 DEF Invalidate, TypeOK
      <4>2. CASE SaveDecision(d)
        BY <1>1, <1>2, <2>4, <4>2 DEF SaveDecision, TypeOK
      <4>3. CASE RunBegins(d) \/ RunEnds(d)
        BY <1>1, <4>3 DEF RunBegins, RunEnds
      <4>. QED
        BY <1>6, <2>4, <4>1, <4>2, <4>3 DEF RequestStep
    <3>3. Executes(d) => pc'[d] \in {"run", "executing", "complete", "fail"}
      BY <1>6, <2>4 DEF RequestStep, Invalidate, SaveDecision, RunBegins, RunEnds, AfterRun,
         Executes, TypeOK
    <3>. QED
      BY <1>1, <1>2, <2>1, <3>1, <3>2, <3>3 DEF AtWork, Executes
  <2>. QED
    BY <2>2, <2>3, <2>4
<1>7. CASE Crash
  BY <1>7 DEF Crash, Dies
<1>8. CASE Restart
  <2>1. status \in {"awaiting_approval", "completed", "failed"} /\ FirstApproved
    BY <1>1, <1>2, <1>8 DEF Restart, StaysOpen, FirstApproved
  <2>. QED
    BY <1>8, <2>1 DEF Restart, Reconciled
<1>9. CASE UNCHANGED <<up, faults, status, approval, target, pc>>
  BY <1>1, <1>2, <1>9 DEF AtWork, Executes
<1>. QED
  BY <1>3, <1>4, <1>5, <1>6, <1>7, <1>8, <1>9 DEF Next, ChangeAction, Send, StoreReceipt, vars

LEMMA WorkInvariance == Spec => [](Inv /\ FinalWaits /\ StaysOpen /\ AtWork)
<1>1. Init => FinalWaits /\ StaysOpen /\ AtWork
  <2> SUFFICES ASSUME Init PROVE FinalWaits /\ StaysOpen /\ AtWork
    OBVIOUS
  <2>1. \A a \in Actions : approval[a] = "none"
    BY DEF Init
  <2>2. First = "none"
    BY <2>1, ProposedType DEF Init, First
  <2>. QED
    BY <2>1, <2>2 DEF Init, FinalWaits, StaysOpen, AtWork
<1>2. Inv /\ FinalWaits /\ StaysOpen /\ AtWork /\ [Next]_vars
        => FinalWaits' /\ StaysOpen' /\ AtWork'
  BY FinalWaitsStep, OpenStep, AtWorkStep DEF Inv
<1>. QED
  BY <1>1, <1>2, InvInit, InvStep, PTL DEF Spec

(* With one protected action first in the store, an approval is never left  *)
(* alone, by a crash either, while no write fails: the session has ended,   *)
(* the restart will end it, or a request has its next step.                 *)
THEOREM ApprovalsAreSeenThrough == Spec => []ApprovedGoesOn
<1>1. ASSUME Inv, StaysOpen, AtWork PROVE ApprovedGoesOn
  <2>. SUFFICES ASSUME OneProtected, First = "approved", faults = 0,
                       status \notin {"completed", "failed"}
                PROVE  \/ ~up /\ Reconciled \in {"completed", "failed"}
                       \/ \E d \in Deciders : GoesOn(d)
    BY <1>1 DEF ApprovedGoesOn, Inv, TypeOK
  <2>1. status = "awaiting_approval"
    BY <1>1 DEF StaysOpen
  <2>2. CASE ~up
    BY <2>1, <2>2 DEF Reconciled, FirstApproved, First
  <2>3. CASE up
    <3>1. PICK d \in Deciders : Executes(d)
      BY <1>1, <2>3 DEF AtWork
    <3>2. GoesOn(d)
      BY <1>1, <2>3, <3>1 DEF Executes, GoesOn, Inv, Stages
    <3>. QED
      BY <3>2
  <2>. QED
    BY <2>2, <2>3 DEF Inv, TypeOK
<1>. QED
  BY <1>1, WorkInvariance, PTL
=============================================================================
