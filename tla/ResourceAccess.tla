---------------------------- MODULE ResourceAccess ----------------------------
(***************************************************************************)
(* What the agents of one workflow read, and what becomes of what they     *)
(* say: run-scoped grants, the resource gateway, the Codex adapter with    *)
(* its recording wrapper, the acceptance of evidence and the policy.       *)
(*                                                                         *)
(* A read is judged when it is asked for and delivered later, after two    *)
(* trace writes and a file read: the grant may have ended in between, and  *)
(* the attempt it was made for as well.                                    *)
(***************************************************************************)
EXTENDS Integers, Sequences, FiniteSets, AutomationPolicy

CONSTANTS
    Tasks, DependsOn,  \* the validated task graph
    Agent,             \* the manifest of the agent each task is routed to
    Resources,         \* logical names, well-formed or not
    Answers,           \* the evidence an agent may answer with: sets of sets of
                       \* source references
    Proposals,         \* the action types an agent may propose for a task
    Scenarios,         \* the controlled scenarios
    MaxAttempts, MaxPending, MaxExpired    \* bounds

Attempts == 1..MaxAttempts
Grants == Tasks \X Attempts
Scopes == Seq([covers : SUBSET Resources, permits : SUBSET {"read"}])

ASSUME GraphAssumption == DependsOn \in [Tasks -> SUBSET Tasks]
ASSUME AgentAssumption ==
    \A t \in Tasks : /\ Agent[t].tools \subseteq {"resource.read"}
                     /\ Agent[t].scopes \in Scopes
                     /\ Agent[t].permissions \subseteq Permissions
ASSUME ScenarioAssumption ==
    Scenarios \subseteq {"normal", "timeout", "resource_scope_breach",
                         "evidence_acceptance", "denial"}
ASSUME BoundsAssumption ==
    MaxAttempts \in Nat \ {0} /\ MaxPending \in Nat /\ MaxExpired \in Nat

Phases == {"waiting", "granted", "reading", "running", "failing", "answered",
           "completed", "done", "failed"}

VARIABLES
    scenario,        \* the scenario of the workflow
    phase, attempt,  \* executeTask of every task
    grant,           \* AccessGrantService.grants
    pending,         \* reads that were allowed and are not delivered
    refs,            \* authorizedSourceRefs, by task: one session, fixed agents
    got,             \* what the agent of the last attempt had received when it
                     \* answered, its context included
    answer,          \* the claims of that answer
    action,          \* the stored action of every task
    evidence,        \* the evidence in the store
    decision         \* what the policy made of every action

taskVars == <<phase, attempt>>
answerVars == <<got, answer, action>>
vars == <<scenario, taskVars, grant, pending, refs, answerVars, evidence, decision>>

Evidence(session, t, producer, claim, status) ==
    [session |-> session, task |-> t, producer |-> producer, refs |-> claim,
     status |-> status]

(* Every workflow uses the same task ids: the store may hold evidence of an *)
(* earlier one.                                                             *)
Init == /\ scenario \in Scenarios
        /\ phase = [t \in Tasks |-> "waiting"] /\ attempt = [t \in Tasks |-> 0]
        /\ grant = [g \in Grants |-> "none"]
        /\ pending = {}
        /\ refs = [t \in Tasks |-> {}]
        /\ got = [t \in Tasks |-> {}] /\ answer = [t \in Tasks |-> {}]
        /\ action = [t \in Tasks |-> "none"]
        /\ evidence = {Evidence("earlier", t, t, Resources, "accepted") : t \in Tasks}
        /\ decision = [t \in Tasks |-> "none"]

GrantOf(t) == <<t, attempt[t]>>
-----------------------------------------------------------------------------
(* ToolPolicyService.evaluate of a grant and a read.  The first scope that  *)
(* covers the resource decides.                                             *)
Covering(t, r) == {i \in DOMAIN Agent[t].scopes : r \in Agent[t].scopes[i].covers}
InScope(t, r) == /\ "resource.read" \in Agent[t].tools
                 /\ \E i \in Covering(t, r) :
                        /\ \A j \in Covering(t, r) : i <= j
                        /\ "read" \in Agent[t].scopes[i].permits

Permits(g, r) == grant[g] = "active" /\ InScope(g[1], r)

Read(g, r, by) == [grant |-> g, resource |-> r, by |-> by]

(* executeTask starts an attempt: it is routed, saved as running, and gets  *)
(* its grant.                                                               *)
IssueGrant(t) ==
    /\ phase[t] = "waiting"
    /\ \A d \in DependsOn[t] : phase[d] = "done"
    /\ attempt' = [attempt EXCEPT ![t] = @ + 1]
    /\ grant' = [grant EXCEPT ![<<t, attempt[t] + 1>>] = "active"]
    /\ phase' = [phase EXCEPT ![t] = "granted"]
    /\ UNCHANGED <<scenario, pending, refs, answerVars, evidence, decision>>

(* resourcesForTask: what the adapter reads for a task.  The scenarios give *)
(* research one file of the market or another.                              *)
ResourcesForTask(t) == CASE t = "research" -> {"market"}
                         [] t = "finance" -> {"finance"}
                         [] t = "outreach" -> {"customer"}
                         [] OTHER -> {}

(* The executors start: a controlled scenario may end the attempt at once   *)
(* (the read that resource_scope_breach tries first is one of AskGateway).  *)
(* The adapter asks for everything the task is handed; one denial is its    *)
(* failure, and the other reads go on.                                      *)
Controlled(t) == /\ t = "research"
                 /\ \/ scenario = "timeout"
                    \/ scenario = "resource_scope_breach"

Execute(t) ==
    /\ phase[t] = "granted"
    /\ IF Controlled(t)
       THEN /\ phase' = [phase EXCEPT ![t] = "failing"]
            /\ UNCHANGED pending
       ELSE LET allowed == {r \in ResourcesForTask(t) : Permits(GrantOf(t), r)} IN
            /\ pending' = pending \cup {Read(GrantOf(t), r, "adapter") : r \in allowed}
            /\ phase' = [phase EXCEPT ![t] = IF allowed = ResourcesForTask(t)
                                               THEN "reading" ELSE "failing"]
    /\ UNCHANGED <<scenario, attempt, grant, refs, answerVars, evidence, decision>>

(* An agent asks the HTTP gateway for more, with the grant in its           *)
(* environment, which its process may keep after the attempt.               *)
AskGateway(g, r) ==
    /\ grant[g] # "none" /\ Cardinality(pending) < MaxPending
    /\ Permits(g, r)
    /\ pending' = pending \cup {Read(g, r, "agent")}
    /\ UNCHANGED <<scenario, taskVars, grant, refs, answerVars, evidence, decision>>

(* The end of readResource.  The reference is noted for the task and its    *)
(* agent, whatever has become of the grant.                                 *)
Deliver(read) ==
    /\ pending' = pending \ {read}
    /\ refs' = [refs EXCEPT ![read.grant[1]] = @ \cup {read.resource}]
    /\ UNCHANGED <<scenario, taskVars, grant, answerVars, evidence, decision>>

(* A trace write or the file read fails: so does the adapter's attempt.     *)
FailRead(read) ==
    /\ pending' = pending \ {read}
    /\ LET t == read.grant[1] IN
       phase' = IF read.by = "adapter" /\ phase[t] = "reading" /\ read.grant = GrantOf(t)
                THEN [phase EXCEPT ![t] = "failing"] ELSE phase
    /\ UNCHANGED <<scenario, attempt, grant, refs, answerVars, evidence, decision>>

(* Everything the task is handed has been read: the agent runs.             *)
StartAgent(t) ==
    /\ phase[t] = "reading"
    /\ ~\E read \in pending : read.grant = GrantOf(t) /\ read.by = "adapter"
    /\ phase' = [phase EXCEPT ![t] = "running"]
    /\ UNCHANGED <<scenario, attempt, grant, pending, refs, answerVars, evidence, decision>>
-----------------------------------------------------------------------------
Here(records) == {e \in records : e.session = "this"}
Accepted(records) == {e \in records : e.status = "accepted"}
OfTasks(ts) == {e \in evidence : e.task \in ts}

(* buildContext: what an agent is told of earlier work is the accepted      *)
(* evidence of the dependencies, of this session; its references count for  *)
(* the task in persistEvidence too.  (Mutant: of any session.)              *)
DependencyEvidence(t) == Accepted(Here(OfTasks(DependsOn[t])))
InheritedFromAny(t) == UNION {e.refs : e \in Accepted(OfTasks(DependsOn[t]))}
Inherited(t) == UNION {e.refs : e \in DependencyEvidence(t)}

(* What the recording executor makes of an answer. *)
RecordedClaims(t, claims) ==
    IF scenario = "evidence_acceptance" /\ t = "research"
    THEN {{"market"}, {"rumour"}, {}} ELSE claims
RecordedAction(t, type) ==
    IF scenario = "denial" /\ t = "outreach" THEN "DELETE_PROTECTED_DATA" ELSE type
Spoofed == Evidence("this", "research", "finance", {"finance"}, "rejected")

Answer(t, claims, type) ==
    /\ phase[t] = "running"
    /\ phase' = [phase EXCEPT ![t] = "answered"]
    /\ got' = [got EXCEPT ![t] = refs[t] \cup Inherited(t)]
    /\ answer' = [answer EXCEPT ![t] = RecordedClaims(t, claims)]
    /\ action' = [action EXCEPT ![t] = RecordedAction(t, type)]
    /\ evidence' = IF scenario = "evidence_acceptance" /\ t = "research"
                   THEN evidence \cup {Spoofed} ELSE evidence
    /\ UNCHANGED <<scenario, attempt, grant, pending, refs, decision>>

(* The agent fails, answers too late, or its result is invalid. *)
FailAgent(t) ==
    /\ phase[t] = "running"
    /\ phase' = [phase EXCEPT ![t] = "failing"]
    /\ UNCHANGED <<scenario, attempt, grant, pending, refs, answerVars, evidence, decision>>

(* The finally block revokes the grant; then the task is completed, or      *)
(* tried again, or failed.  (Mutant: it revokes after a success only.)        *)
EndAttemptUnrevoked(t) ==
    /\ \/ /\ phase[t] = "answered" /\ phase' = [phase EXCEPT ![t] = "completed"]
          /\ grant' = [grant EXCEPT ![GrantOf(t)] = "revoked"]
       \/ /\ phase[t] = "failing" /\ UNCHANGED grant
          /\ phase' = [phase EXCEPT ![t] = IF attempt[t] < MaxAttempts THEN "waiting"
                                                                       ELSE "failed"]
    /\ UNCHANGED <<scenario, attempt, pending, refs, answerVars, evidence, decision>>

EndAttempt(t) ==
    /\ \/ /\ phase[t] = "answered"
          /\ phase' = [phase EXCEPT ![t] = "completed"]
       \/ /\ phase[t] = "failing"
          /\ phase' = [phase EXCEPT ![t] = IF attempt[t] < MaxAttempts THEN "waiting"
                                                                       ELSE "failed"]
    /\ grant' = [grant EXCEPT ![GrantOf(t)] = "revoked"]
    /\ UNCHANGED <<scenario, attempt, pending, refs, answerVars, evidence, decision>>

ExpireGrant(g) ==
    /\ grant[g] = "active"
    /\ Cardinality({h \in Grants : grant[h] = "expired"}) < MaxExpired
    /\ grant' = [grant EXCEPT ![g] = "expired"]
    /\ UNCHANGED <<scenario, taskVars, pending, refs, answerVars, evidence, decision>>

(* assessEvidence, of a record the coordinator made for task t.             *)
Assess(t, claim, authorized) ==
    IF phase[t] = "completed" /\ claim # {} /\ claim \subseteq authorized
    THEN "accepted" ELSE "rejected"

(* persistEvidence. *)
PersistEvidence(t) ==
    /\ phase[t] = "completed"
    /\ evidence' = evidence \cup
           {Evidence("this", t, t, claim, Assess(t, claim, refs[t] \cup Inherited(t))) :
                claim \in answer[t]}
    /\ phase' = [phase EXCEPT ![t] = "done"]
    /\ UNCHANGED <<scenario, attempt, grant, pending, refs, answerVars, decision>>

(* applyPolicy judges every action by all the evidence of the session.      *)
ApplyPolicy ==
    /\ \A t \in Tasks : phase[t] = "done" /\ decision[t] = "none"
    /\ LET statuses == {e.status : e \in Here(evidence)} IN
       decision' = [t \in Tasks |->
                       IF action[t] = "none" THEN "no action"
                       ELSE Decide(action[t], statuses, Agent[t].permissions)]
    /\ UNCHANGED <<scenario, taskVars, grant, pending, refs, answerVars, evidence>>
-----------------------------------------------------------------------------
TaskStep(t) == \/ IssueGrant(t) \/ Execute(t) \/ StartAgent(t) \/ FailAgent(t)
               \/ EndAttempt(t) \/ PersistEvidence(t)

Next == \/ \E t \in Tasks : TaskStep(t)
        \/ \E t \in Tasks : \E claims \in Answers, type \in Proposals[t] :
               Answer(t, claims, type)
        \/ \E g \in Grants, r \in Resources : AskGateway(g, r)
        \/ \E read \in pending : Deliver(read) \/ FailRead(read)
        \/ \E g \in Grants : ExpireGrant(g)
        \/ ApplyPolicy

Spec == Init /\ [][Next]_vars
-----------------------------------------------------------------------------
References == (UNION (UNION Answers)) \cup Resources \cup {"finance", "market", "rumour"}

TypeOK ==
    /\ scenario \in Scenarios
    /\ phase \in [Tasks -> Phases] /\ attempt \in [Tasks -> 0..MaxAttempts]
    /\ grant \in [Grants -> {"none", "active", "expired", "revoked"}]
    /\ pending \subseteq [grant : Grants, resource : Resources, by : {"adapter", "agent"}]
    /\ \A read \in pending : grant[read.grant] # "none"
    /\ refs \in [Tasks -> SUBSET Resources]
    /\ got \in [Tasks -> SUBSET References]
    /\ answer \in [Tasks -> SUBSET SUBSET References]
    /\ action \in [Tasks -> {"none"} \cup (UNION {Proposals[t] : t \in Tasks}) \cup ActionTypes]
    /\ \A e \in evidence : e.status \in {"accepted", "rejected"}
    /\ decision \in [Tasks -> Decisions \cup {"none", "no action"}]
    /\ (\A t \in Tasks : phase[t] = "failed" \/ phase[t] = "done")
       => \A g \in Grants : grant[g] \in {"none", "revoked"}

(* The tasks whose evidence may have reached task t: those in every set     *)
(* that holds its dependencies and the dependencies of its own members.     *)
Upstream(t) ==
    {u \in Tasks : \A S \in SUBSET Tasks :
        DependsOn[t] \subseteq S /\ (\A v \in S : DependsOn[v] \subseteq S) => u \in S}

(* Accepted evidence rests, reference by reference, on resources that the   *)
(* gateway delivered within the scope of the task or of one it builds on:   *)
(* neither another task's reads, nor another session's evidence, nor a read *)
(* that outlives its attempt gives authority.  And nothing an agent had     *)
(* received when it answered is held against it.                            *)
VerdictsAreFair ==
    \A e \in Here(evidence) \ {Spoofed} :
        IF e.status = "accepted"
        THEN /\ e.refs # {}
             /\ \A r \in e.refs : \E t \in Tasks :
                    /\ t = e.task \/ t \in Upstream(e.task)
                    /\ r \in refs[t] /\ InScope(t, r)
        ELSE e.refs = {} \/ ~(e.refs \subseteq got[e.task])

(* What may take effect, by itself or once approved, is a registered        *)
(* low-impact action of an agent with the permission, in a session where    *)
(* some evidence was obtained through the gateway and none was rejected.    *)
Obtained == UNION {refs[t] : t \in Tasks}

EffectsRestOnEvidence ==
    \A t \in Tasks : decision[t] \in {"AUTO_EXECUTE", "REQUIRE_APPROVAL"} =>
        /\ action[t] \in ActionTypes /\ Registry[action[t]].impact = "low"
        /\ Registry[action[t]].requiredPermission \in Agent[t].permissions
        /\ \E u \in Tasks : \E claim \in answer[u] : claim # {} /\ claim \subseteq Obtained
        /\ \A u \in Tasks : \A claim \in answer[u] : claim # {} /\ claim \subseteq Obtained
=============================================================================
