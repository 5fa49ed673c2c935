------------------------------ MODULE RelayDesk ------------------------------
(***************************************************************************)
(* The dashboard of the Relay workflows and the views it is shown: how     *)
(* createSession admits a workflow, how project reads a session while it   *)
(* is being written, and how AgentRelayDashboard polls it, opens another   *)
(* one and decides its approval.                                           *)
(*                                                                         *)
(* A view is put together from two reads: the session first, its approvals *)
(* later.  Answers arrive in any order, and some never do.  What the agents *)
(* of a session come to is not modelled: its coordinator ends with any     *)
(* outcome.                                                                *)
(***************************************************************************)
EXTENDS Integers, FiniteSets

CONSTANTS
    Sessions,          \* the workflows, numbered in the order they are admitted
    Outcomes,          \* what the agents of a workflow may come to
    Polls,             \* polls that may be under way at the same time
    User,              \* the request of a button, one at a time (busy)
    NoSession,         \* emptySession.id
    MaxMishaps         \* bound on lost requests, failing writes and crashes

ASSUME OutcomeAssumption ==
    Outcomes \subseteq {"mail", "recommended", "denied", "automatic", "nothing", "failed"}
ASSUME SessionAssumption == Sessions \subseteq Nat
ASSUME NoSessionAssumption == NoSession \notin Sessions
ASSUME BoundsAssumption == MaxMishaps \in Nat

Statuses == {"none", "running", "awaiting_approval", "recommend_only", "degraded",
             "completed", "failed"}
ViewStatuses == {"running", "awaiting_approval", "degraded", "completed", "failed"}
ApprovalStatus == {"none", "pending", "approved", "denied"}
Slots == Polls \cup {User}

VARIABLES
    outcome,                \* what the agents of a session came to
    active,                 \* RelayWorkflowService.active
    stage,                  \* createSession, runCoordinator and applyPolicy
    status, approval,       \* the session and its approval in the store
    shown,                  \* the session in the dashboard's state
    request,                \* its requests under way
    mishaps                 \* so far

serverVars == <<active, stage, status, approval>>
vars == <<outcome, serverVars, shown, request, mishaps>>

View(s, st, ap) == [id |-> s, status |-> st, approval |-> ap]
Empty == View(NoSession, "running", "none")
Idle == [at |-> "idle", id |-> NoSession, read |-> "none", view |-> Empty]
Sent(at, s) == [Idle EXCEPT !.at = at, !.id = s]

Init == /\ outcome = [s \in Sessions |-> "unknown"]
        /\ active = {}
        /\ stage = [s \in Sessions |-> "none"]
        /\ status = [s \in Sessions |-> "none"]
        /\ approval = [s \in Sessions |-> "none"]
        /\ shown = Empty
        /\ request = [q \in Slots |-> Idle]
        /\ mishaps = 0

Mishap == mishaps < MaxMishaps /\ mishaps' = mishaps + 1

Stored(s) == stage[s] \notin {"none", "admitted"}
HasAction(s) == outcome[s] \notin {"nothing", "failed"}
-----------------------------------------------------------------------------
(* createSession.  It looks for a running workflow first, and registers its *)
(* own after several awaits.  Another client asks here, the user in Create. *)
MayAdmit(s) == /\ active = {} /\ stage[s] = "none"
               /\ \A r \in Sessions : r < s => stage[r] # "none"

Admit(s) ==
    /\ MayAdmit(s)
    /\ stage' = [stage EXCEPT ![s] = "admitted"]
    /\ UNCHANGED <<outcome, active, status, approval, shown, request, mishaps>>

(* Coordinator.start saves the session: it is running from then on.         *)
Store(s) ==
    /\ stage[s] = "admitted" /\ stage' = [stage EXCEPT ![s] = "started"]
    /\ status' = [status EXCEPT ![s] = "running"]
    /\ UNCHANGED <<outcome, active, approval, shown, request, mishaps>>

Register(s) ==
    /\ stage[s] = "started"
    /\ active' = active \cup {s}
    /\ stage' = [stage EXCEPT ![s] = "coordinating"]
    /\ UNCHANGED <<outcome, status, approval, shown, request, mishaps>>

(* A later write fails before the workflow is registered: nobody will run   *)
(* it.                                                                      *)
AbandonCreate(s) ==
    /\ stage[s] = "started"
    /\ Mishap
    /\ stage' = [stage EXCEPT ![s] = "abandoned"]
    /\ UNCHANGED <<outcome, active, status, approval, shown, request>>

(* The coordinator's verdict; applyPolicy leaves a failed session, and one  *)
(* without actions, as it is.                                               *)
EndCoordinator(s) ==
    /\ stage[s] = "coordinating"
    /\ \E end \in Outcomes :
          /\ outcome' = [outcome EXCEPT ![s] = end]
          /\ status' = [status EXCEPT ![s] = IF end = "failed" THEN "failed" ELSE "completed"]
          /\ IF end \in {"failed", "nothing"}
             THEN stage' = [stage EXCEPT ![s] = "settled"] /\ active' = active \ {s}
             ELSE stage' = [stage EXCEPT ![s] = "judging"] /\ UNCHANGED active
    /\ UNCHANGED <<approval, shown, request, mishaps>>

FinalStatus(s) == CASE outcome[s] = "mail" -> "awaiting_approval"
                    [] outcome[s] = "recommended" -> "recommend_only"
                    [] outcome[s] = "denied" -> "degraded"
                    [] OTHER -> "completed"

(* applyPolicy saves the approval, then the status. *)
SaveApproval(s) ==
    /\ stage[s] = "judging" /\ outcome[s] = "mail" /\ approval[s] = "none"
    /\ approval' = [approval EXCEPT ![s] = "pending"]
    /\ UNCHANGED <<outcome, active, stage, status, shown, request, mishaps>>

EndPolicy(s) ==
    /\ stage[s] = "judging"
    /\ outcome[s] = "mail" => approval[s] # "none"
    /\ status' = [status EXCEPT ![s] = FinalStatus(s)]
    /\ stage' = [stage EXCEPT ![s] = "settled"]
    /\ active' = active \ {s}
    /\ UNCHANGED <<outcome, approval, shown, request, mishaps>>
-----------------------------------------------------------------------------
(* projectSessionStatus, of the statuses that are ever stored.  (Mutant: it *)
(* leaves one that the dashboard does not know.)                            *)
ProjectedVerbatim(st) == st
Projected(st) == IF st = "recommend_only" THEN "degraded" ELSE st

(* The view of project, for a session and an approval that were read.  A    *)
(* completed session whose actions have no approval yet counts as running.  *)
(* (Mutant: it counts as completed.)                                        *)
ProjectStored(s, st, ap) == View(s, Projected(st), ap)
Project(s, st, ap) ==
    View(s, IF st = "completed" /\ HasAction(s) /\ ap = "none" THEN "running"
                                                               ELSE Projected(st), ap)

(* getSession: the session is read, then what belongs to it.                *)
ReadSession(q) ==
    /\ request[q].at = "sent" /\ Stored(request[q].id)
    /\ request' = [request EXCEPT ![q].at = "half", ![q].read = status[request[q].id]]
    /\ UNCHANGED <<outcome, serverVars, shown, mishaps>>

ReadApproval(q) ==
    /\ request[q].at = "half"
    /\ LET s == request[q].id IN
       request' = [request EXCEPT ![q].at = "answered",
                                  ![q].view = Project(s, request[q].read, approval[s])]
    /\ UNCHANGED <<outcome, serverVars, shown, mishaps>>

(* The effect on the dashboard: whatever was opened since, the answer is    *)
(* shown.                                                                   *)
Arrive(q) ==
    /\ request[q].at = "answered"
    /\ shown' = request[q].view
    /\ request' = [request EXCEPT ![q] = Idle]
    /\ UNCHANGED <<outcome, serverVars, mishaps>>

(* A request fails: an error is shown, and the next tick of the timer polls *)
(* again.  (Mutant: the failed poll is never taken for ended.)              *)
LoseUnended(q) ==
    /\ request[q].at # "idle" /\ Mishap
    /\ request' = [request EXCEPT ![q] = Sent("given up", request[q].id)]
    /\ UNCHANGED <<outcome, serverVars, shown>>

Lose(q) ==
    /\ request[q].at # "idle" /\ Mishap
    /\ request' = [request EXCEPT ![q] = Idle]
    /\ UNCHANGED <<outcome, serverVars, shown>>
-----------------------------------------------------------------------------
(* The poll effect: while the shown session is running. *)
Poll(q) ==
    /\ q \in Polls /\ request[q].at = "idle"
    /\ shown.status = "running" /\ shown.id # NoSession
    /\ request' = [request EXCEPT ![q] = Sent("sent", shown.id)]
    /\ UNCHANGED <<outcome, serverVars, shown, mishaps>>

(* createWorkflow is shown the session once it is registered; openWorkflow  *)
(* takes any session of the history.                                        *)
Open(s) ==
    /\ request[User].at = "idle" /\ Stored(s)
    /\ request' = [request EXCEPT ![User] = Sent("sent", s)]
    /\ UNCHANGED <<outcome, serverVars, shown, mishaps>>

Create(s) ==
    /\ request[User].at = "idle"
    /\ MayAdmit(s)
    /\ stage' = [stage EXCEPT ![s] = "admitted"]
    /\ request' = [request EXCEPT ![User] = Sent("waiting", s)]
    /\ UNCHANGED <<outcome, active, status, approval, shown, mishaps>>

(* decideApproval, of the approval that is shown: refused while the session *)
(* is called completed; else the approval is saved, and then the status.    *)
Decide(choice) ==
    /\ request[User].at = "idle"
    /\ shown.approval = "pending"
    /\ approval[shown.id] = "pending" /\ status[shown.id] \notin {"completed", "failed"}
    /\ approval' = [approval EXCEPT ![shown.id] = choice]
    /\ stage' = [stage EXCEPT ![shown.id] = "deciding"]
    /\ request' = [request EXCEPT ![User] = Sent("waiting", shown.id)]
    /\ UNCHANGED <<outcome, active, status, shown, mishaps>>

EndDecision(s) ==
    /\ stage[s] = "deciding" /\ stage' = [stage EXCEPT ![s] = "settled"]
    /\ \/ /\ approval[s] = "approved"
          /\ \E end \in {"completed", "failed"} : status' = [status EXCEPT ![s] = end]
       \/ approval[s] = "denied" /\ status' = [status EXCEPT ![s] = "degraded"]
    /\ UNCHANGED <<outcome, active, approval, shown, request, mishaps>>

(* Both end with getSession, unless createSession failed or the approved    *)
(* execution did: that is answered with an error.                           *)
Refused(s) == \/ stage[s] = "abandoned"
              \/ stage[s] = "settled" /\ status[s] = "failed" /\ approval[s] = "approved"

Proceed ==
    /\ request[User].at = "waiting"
    /\ \/ /\ Refused(request[User].id)
          /\ request' = [request EXCEPT ![User] = Idle]
       \/ /\ ~Refused(request[User].id)
          /\ stage[request[User].id] \in {"coordinating", "judging", "settled"}
          /\ request' = [request EXCEPT ![User].at = "sent"]
    /\ UNCHANGED <<outcome, serverVars, shown, mishaps>>

(* The server dies and is started again: requests fail, workflows are       *)
(* forgotten, what was not stored never was, and initialize reconciles the  *)
(* rest.  Of an awaiting session it asks about the first action only, which *)
(* need not be the approved one: then the session stays as it is.           *)
Restart ==
    /\ Mishap
    /\ active' = {}
    /\ stage' = [s \in Sessions |-> IF Stored(s) THEN "settled" ELSE "none"]
    /\ \E end \in [Sessions -> {"completed", "failed", "awaiting_approval"}] :
       status' = [s \in Sessions |->
                     IF status[s] = "running" THEN "failed"
                     ELSE IF status[s] = "awaiting_approval" /\ approval[s] = "approved"
                          THEN end[s] ELSE status[s]]
    /\ request' = [q \in Slots |-> Idle]
    /\ UNCHANGED <<outcome, approval, shown>>
-----------------------------------------------------------------------------
WorkflowStep(s) == \/ Store(s) \/ Register(s) \/ EndCoordinator(s)
                   \/ SaveApproval(s) \/ EndPolicy(s) \/ EndDecision(s)
RequestStep(q) == ReadSession(q) \/ ReadApproval(q) \/ Arrive(q)
UserStep == \/ \E s \in Sessions : Open(s) \/ Create(s)
            \/ \E choice \in {"approved", "denied"} : Decide(choice)

Next == \/ \E s \in Sessions : Admit(s) \/ WorkflowStep(s) \/ AbandonCreate(s)
        \/ \E q \in Slots : RequestStep(q) \/ Lose(q) \/ Poll(q)
        \/ UserStep \/ Proceed \/ Restart

Spec == Init /\ [][Next]_vars

(* The timer ticks, and requests that are not lost are answered.            *)
Fairness == /\ \A q \in Slots : WF_vars(RequestStep(q)) /\ WF_vars(Poll(q))
            /\ \A s \in Sessions : WF_vars(WorkflowStep(s))
            /\ WF_vars(Proceed)

FairSpec == Spec /\ Fairness
-----------------------------------------------------------------------------
Views == [id : Sessions \cup {NoSession}, status : ViewStatuses, approval : ApprovalStatus]

TypeOK ==
    /\ outcome \in [Sessions -> Outcomes \cup {"unknown"}]
    /\ active \subseteq {s \in Sessions : stage[s] \in {"coordinating", "judging"}}
    /\ stage \in [Sessions -> {"none", "admitted", "started",
                               "abandoned", "coordinating", "judging", "deciding", "settled"}]
    /\ status \in [Sessions -> Statuses] /\ approval \in [Sessions -> ApprovalStatus]
    /\ shown \in Views
    /\ \A q \in Slots : /\ request[q].id \in Sessions \cup {NoSession}
                        /\ request[q].read \in Statuses /\ request[q].view \in Views
    /\ mishaps \in 0..MaxMishaps

(* A dashboard that no longer polls, while the session it shows waits for   *)
(* an approval, shows that approval: a view that ends the polling is never  *)
(* one from before the approval.                                            *)
DecisionIsOffered ==
    \A s \in Sessions :
        /\ shown.id = s /\ shown.status # "running"
        /\ status[s] = "awaiting_approval" /\ approval[s] = "pending"
        => shown.approval = "pending"

(* A dashboard that shows a session as running learns that it is not, if it *)
(* stays with it: whatever answers were lost or came late, it still polls.  *)
ServerView(s) == Project(s, status[s], approval[s])

OutcomeIsLearnt ==
    \A s \in Sessions :
        (shown.id = s /\ shown.status = "running" /\ ServerView(s).status # "running")
            ~> (shown.id # s \/ shown.status # "running")
=============================================================================
