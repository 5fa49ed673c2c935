------------------------- MODULE ResourceAccessProofs -------------------------
(***************************************************************************)
(* Proofs about ResourceAccess, for every task graph, every set of agents  *)
(* with their manifests, resources, answers and proposals, and any number  *)
(* of attempts and pending reads.                                          *)
(***************************************************************************)
EXTENDS ResourceAccess, TLAPS

USE GraphAssumption, AgentAssumption, ScenarioAssumption, BoundsAssumption

(* The inductive invariant.                                                 *)

Ongoing == {"granted", "reading", "running", "failing", "answered"}

(* A grant that was issued and is not revoked belongs to the attempt that   *)
(* its task is making.                                                      *)
Held ==
    /\ \A t \in Tasks : /\ phase[t] = "waiting" => attempt[t] < MaxAttempts
                        /\ phase[t] # "waiting" => attempt[t] \in Attempts
    /\ \A g \in Grants : grant[g] \in {"active", "expired"} =>
         g[2] = attempt[g[1]] /\ phase[g[1]] \in Ongoing

(* Nothing is read, or noted as read, beyond the scope of the grant.        *)
Scoped ==
    /\ \A read \in pending : InScope(read.grant[1], read.resource)
    /\ \A t \in Tasks : \A r \in refs[t] : InScope(t, r)

Ours == Here(evidence) \ {Spoofed}

(* The evidence of this session is that of the last answers of the tasks    *)
(* that are done.                                                           *)
Provenance ==
    /\ \A e \in evidence : e.status \in {"accepted", "rejected"} /\ e.refs \subseteq References
    /\ \A e \in Ours : e.task \in Tasks /\ phase[e.task] = "done" /\ e.refs \in answer[e.task]
    /\ \A t \in Tasks : phase[t] = "done" =>
         \A claim \in answer[t] : \E e \in Ours : e.refs = claim

(* What an agent had received when it answered can still be relied on.      *)
Received == \A t \in Tasks : got[t] \subseteq refs[t] \cup Inherited(t)

(* Decisions are made once everything is done.                              *)
DecidedLast == (\E t \in Tasks : decision[t] # "none") => \A t \in Tasks : phase[t] = "done"

Inv == /\ TypeOK /\ Held /\ Scoped /\ Provenance /\ Received /\ VerdictsAreFair
       /\ DecidedLast /\ EffectsRestOnEvidence
-----------------------------------------------------------------------------
(* A scope covers resources only, so nothing else is ever permitted.        *)
LEMMA ScopeCovers ==
  ASSUME NEW t \in Tasks, NEW r, InScope(t, r) PROVE r \in Resources
<1> DEFINE S == [covers : SUBSET Resources, permits : SUBSET {"read"}]
           scopes == Agent[t].scopes
<1>1. scopes \in Seq(S)
  BY DEF Scopes
<1>2. PICK i \in DOMAIN scopes : r \in scopes[i].covers
  BY DEF InScope, Covering
<1>3. scopes[i] \in S
  <2> HIDE DEF S, scopes
  <2>. QED
    BY <1>1, <1>2
<1>. QED
  BY <1>2, <1>3

LEMMA GrantType ==
  /\ \A t \in Tasks, a \in Attempts : <<t, a>> \in Grants
  /\ \A g \in Grants : g[1] \in Tasks /\ g[2] \in Attempts /\ g = <<g[1], g[2]>>
  BY DEF Grants

(* Evidence is only ever added, and what a task inherits grows with it.     *)
LEMMA EvidenceGrows == [Next]_vars => evidence \subseteq evidence'
  BY DEF Next, TaskStep, vars, taskVars, answerVars, IssueGrant, Execute, StartAgent, FailAgent,
     EndAttempt, PersistEvidence, Answer, AskGateway, Deliver, FailRead, ExpireGrant, ApplyPolicy

LEMMA InheritedGrows ==
  ASSUME evidence \subseteq evidence' PROVE \A t \in Tasks : Inherited(t) \subseteq Inherited(t)'
  BY DEF Inherited, DependencyEvidence, Accepted, Here, OfTasks

LEMMA InheritedFrom ==
  ASSUME NEW t \in Tasks
  PROVE  \A r \in Inherited(t) : \E e \in Here(evidence) :
           e.status = "accepted" /\ e.task \in DependsOn[t] /\ r \in e.refs
  BY DEF Inherited, DependencyEvidence, Accepted, Here, OfTasks

LEMMA RefsGrow == TypeOK /\ [Next]_vars => \A t \in Tasks : refs[t] \subseteq refs'[t]
<1> SUFFICES ASSUME TypeOK, [Next]_vars PROVE \A t \in Tasks : refs[t] \subseteq refs'[t]
  OBVIOUS
<1>1. ASSUME NEW read \in pending, Deliver(read)
      PROVE  \A t \in Tasks : refs[t] \subseteq refs'[t]
  BY <1>1 DEF Deliver, TypeOK
<1>2. CASE UNCHANGED refs
  BY <1>2
<1>. QED
  BY <1>1, <1>2 DEF Next, TaskStep, vars, taskVars, answerVars, IssueGrant, Execute, StartAgent,
     FailAgent, EndAttempt, PersistEvidence, Answer, AskGateway, FailRead, ExpireGrant, ApplyPolicy

(* What is done stays done, with its answer, its action and its last        *)
(* attempt.                                                                 *)
LEMMA DoneStays ==
  TypeOK /\ [Next]_vars
    => \A t \in Tasks : phase[t] = "done" =>
         /\ phase'[t] = "done" /\ answer'[t] = answer[t] /\ action'[t] = action[t]
         /\ got'[t] = got[t]
<1> SUFFICES ASSUME TypeOK, [Next]_vars, NEW t \in Tasks, phase[t] = "done"
             PROVE  /\ phase'[t] = "done" /\ answer'[t] = answer[t] /\ action'[t] = action[t]
                    /\ got'[t] = got[t]
  OBVIOUS
<1> USE DEF TypeOK, taskVars, answerVars
<1>1. ASSUME NEW u \in Tasks, TaskStep(u)
      PROVE  phase'[t] = "done" /\ UNCHANGED <<answer, action, got>>
  <2>1. UNCHANGED <<answer, action, got>> /\ phase[u] # "done"
    BY <1>1 DEF TaskStep, IssueGrant, Execute, StartAgent, FailAgent, EndAttempt, PersistEvidence
  <2>2. u # t
    BY <2>1
  <2>3. \E x : phase' = [phase EXCEPT ![u] = x]
    BY <1>1 DEF TaskStep, IssueGrant, Execute, StartAgent, FailAgent, EndAttempt, PersistEvidence
  <2>. QED
    BY <2>1, <2>2, <2>3
<1>2. ASSUME NEW u \in Tasks, NEW claims \in Answers, NEW type \in Proposals[u],
             Answer(u, claims, type)
      PROVE  /\ phase'[t] = "done" /\ answer'[t] = answer[t] /\ action'[t] = action[t]
             /\ got'[t] = got[t]
  BY <1>2 DEF Answer
<1>3. ASSUME NEW read \in pending, FailRead(read)
      PROVE  phase'[t] = "done" /\ UNCHANGED <<answer, action, got>>
  BY <1>3 DEF FailRead
<1>4. CASE UNCHANGED <<phase, answer, action, got>>
  BY <1>4
<1>. QED
  BY <1>1, <1>2, <1>3, <1>4 DEF Next, vars, AskGateway, Deliver, ExpireGrant, ApplyPolicy
-----------------------------------------------------------------------------
(* Held.                                                                    *)
LEMMA HeldStep == TypeOK /\ Held /\ [Next]_vars => Held'
<1> SUFFICES ASSUME TypeOK, Held, [Next]_vars PROVE Held'
  OBVIOUS
<1> USE DEF taskVars, answerVars
<1>0. /\ MaxAttempts \in Nat /\ Attempts = 1..MaxAttempts
      /\ phase \in [Tasks -> Phases] /\ attempt \in [Tasks -> 0..MaxAttempts]
      /\ grant \in [Grants -> {"none", "active", "expired", "revoked"}]
  BY DEF Attempts, TypeOK
<1>a. /\ \A t \in Tasks : /\ phase[t] = "waiting" => attempt[t] < MaxAttempts
                          /\ phase[t] # "waiting" => attempt[t] \in Attempts
      /\ \A g \in Grants : grant[g] \in {"active", "expired"} =>
           g[2] = attempt[g[1]] /\ phase[g[1]] \in Ongoing
  BY DEF Held
(* Steps of a task that leave its attempt and every grant alone.            *)
<1>b. ASSUME NEW t \in Tasks, phase[t] # "waiting", UNCHANGED <<attempt, grant>>,
             NEW x \in Phases \ {"waiting"}, phase' = [phase EXCEPT ![t] = x],
             phase[t] \in Ongoing => x \in Ongoing
      PROVE  Held'
  <2>1. \A u \in Tasks : phase'[u] = IF u = t THEN x ELSE phase[u]
    BY <1>0, <1>b
  <2>2. \A u \in Tasks : /\ phase'[u] = "waiting" => attempt'[u] < MaxAttempts
                         /\ phase'[u] # "waiting" => attempt'[u] \in Attempts
    BY <1>a, <1>b, <2>1
  <2>3. \A g \in Grants : grant'[g] \in {"active", "expired"} =>
           g[2] = attempt'[g[1]] /\ phase'[g[1]] \in Ongoing
    BY <1>a, <1>b, <2>1, GrantType
  <2>. QED
    BY <2>2, <2>3 DEF Held
<1>1. ASSUME NEW t \in Tasks, IssueGrant(t) PROVE Held'
  <2> DEFINE new == <<t, attempt[t] + 1>>
  <2>1. attempt[t] + 1 \in Attempts /\ attempt[t] + 1 \in Nat
    BY <1>0, <1>a, <1>1 DEF IssueGrant
  <2>2. /\ phase' = [phase EXCEPT ![t] = "granted"]
        /\ attempt' = [attempt EXCEPT ![t] = attempt[t] + 1]
        /\ grant' = [grant EXCEPT ![new] = "active"]
    BY <1>1 DEF IssueGrant
  <2>3. \A g \in Grants : g[1] = t => grant[g] \notin {"active", "expired"}
    BY <1>1, <1>a DEF IssueGrant, Ongoing
  <2>4. ASSUME NEW g \in Grants, grant'[g] \in {"active", "expired"}
        PROVE  g[2] = attempt'[g[1]] /\ phase'[g[1]] \in Ongoing
    <3>1. g[1] \in Tasks
      BY GrantType
    <3>2. CASE g = new
      <4>1. g[1] = t /\ g[2] = attempt[t] + 1
        BY <3>2
      <4>. QED
        BY <1>0, <2>2, <4>1 DEF Ongoing
    <3>3. CASE g # new
      <4> HIDE DEF new
      <4>1. grant'[g] = grant[g]
        BY <1>0, <2>2, <3>3
      <4>2. g[1] # t
        BY <2>3, <2>4, <4>1
      <4>. QED
        BY <1>0, <1>a, <2>2, <2>4, <3>1, <4>1, <4>2
    <3>. QED
      BY <3>2, <3>3
  <2>5. \A u \in Tasks : /\ phase'[u] = "waiting" => attempt'[u] < MaxAttempts
                         /\ phase'[u] # "waiting" => attempt'[u] \in Attempts
    BY <1>0, <1>a, <2>1, <2>2
  <2>. QED
    BY <2>4, <2>5 DEF Held
<1>2. ASSUME NEW t \in Tasks, Execute(t) \/ StartAgent(t) \/ FailAgent(t) PROVE Held'
  <2>1. PICK x \in {"reading", "failing", "running"} : phase' = [phase EXCEPT ![t] = x]
    BY <1>2 DEF Execute, StartAgent, FailAgent
  <2>2. UNCHANGED <<attempt, grant>> /\ phase[t] # "waiting" /\ x \in Ongoing /\ x \in Phases \ {"waiting"}
    BY <1>2 DEF Execute, StartAgent, FailAgent, Ongoing, Phases
  <2>. QED
    BY <1>b, <2>1, <2>2
<1>3. ASSUME NEW t \in Tasks, EndAttempt(t) PROVE Held'
  <2>1. PICK x \in {"waiting", "failed", "completed"} :
          /\ phase' = [phase EXCEPT ![t] = x]
          /\ x = "waiting" => attempt[t] < MaxAttempts
    BY <1>3 DEF EndAttempt
  <2>2. phase[t] # "waiting" /\ attempt' = attempt
    BY <1>3 DEF EndAttempt
  <2> DEFINE old == <<t, attempt[t]>>
  <2>3. old \in Grants /\ grant' = [grant EXCEPT ![old] = "revoked"]
    BY <1>3, <1>a, <2>2, GrantType DEF EndAttempt, GrantOf
  <2>4. \A u \in Tasks : phase'[u] = IF u = t THEN x ELSE phase[u]
    BY <1>0, <2>1
  <2>5. ASSUME NEW g \in Grants, grant'[g] \in {"active", "expired"}
        PROVE  g[2] = attempt'[g[1]] /\ phase'[g[1]] \in Ongoing
    <3>1. g[1] \in Tasks /\ g = <<g[1], g[2]>>
      BY GrantType
    <3>2. g # old /\ grant'[g] = grant[g]
      <4> HIDE DEF old
      <4>. QED
        BY <1>0, <2>3, <2>5
    <3>3. g[2] = attempt[g[1]] /\ phase[g[1]] \in Ongoing
      BY <1>a, <2>5, <3>2
    <3>4. g[1] # t
      BY <3>1, <3>2, <3>3
    <3>. QED
      BY <2>2, <2>4, <3>1, <3>3, <3>4
  <2>6. \A u \in Tasks : /\ phase'[u] = "waiting" => attempt'[u] < MaxAttempts
                         /\ phase'[u] # "waiting" => attempt'[u] \in Attempts
    BY <1>a, <2>1, <2>2, <2>4
  <2>. QED
    BY <2>5, <2>6 DEF Held
<1>4. ASSUME NEW t \in Tasks, PersistEvidence(t) PROVE Held'
  <2>1. /\ phase' = [phase EXCEPT ![t] = "done"] /\ phase[t] = "completed"
        /\ UNCHANGED <<attempt, grant>> /\ "done" \in Phases \ {"waiting"}
    BY <1>4 DEF PersistEvidence, Phases
  <2>. QED
    BY <1>b, <2>1 DEF Ongoing
<1>5. ASSUME NEW t \in Tasks, NEW claims \in Answers, NEW type \in Proposals[t],
             Answer(t, claims, type)
      PROVE  Held'
  <2>1. /\ phase' = [phase EXCEPT ![t] = "answered"] /\ phase[t] = "running"
        /\ UNCHANGED <<attempt, grant>> /\ "answered" \in Phases \ {"waiting"}
    BY <1>5 DEF Answer, Phases
  <2>. QED
    BY <1>b, <2>1 DEF Ongoing
<1>6. ASSUME NEW read \in pending, FailRead(read) PROVE Held'
  <2> DEFINE t == read.grant[1]
  <2>1. UNCHANGED <<attempt, grant>> /\ t \in Tasks /\ "failing" \in Phases \ {"waiting"}
    BY <1>6, GrantType DEF FailRead, TypeOK, Phases
  <2>2. \/ phase' = phase
        \/ phase[t] = "reading" /\ phase' = [phase EXCEPT ![t] = "failing"]
    BY <1>6 DEF FailRead
  <2>3. CASE phase' = phase
    BY <1>a, <2>1, <2>3 DEF Held
  <2> HIDE DEF t
  <2>. QED
    BY <1>b, <2>1, <2>2, <2>3 DEF Ongoing
<1>7. ASSUME NEW g \in Grants, ExpireGrant(g) PROVE Held'
  <2>1. UNCHANGED <<phase, attempt>> /\ grant' = [grant EXCEPT ![g] = "expired"]
        /\ grant[g] = "active"
    BY <1>7 DEF ExpireGrant
  <2>2. \A h \in Grants : grant'[h] \in {"active", "expired"} => grant[h] \in {"active", "expired"}
    BY <1>0, <2>1
  <2>. QED
    BY <1>a, <2>1, <2>2 DEF Held
<1>8. CASE UNCHANGED <<phase, attempt, grant>>
  BY <1>a, <1>8 DEF Held
<1>. QED
  BY <1>1, <1>2, <1>3, <1>4, <1>5, <1>6, <1>7, <1>8 DEF Next, TaskStep, vars, AskGateway,
     Deliver, ApplyPolicy
-----------------------------------------------------------------------------
(* The type invariant.                                                      *)
LEMMA DecideType ==
  ASSUME NEW type, NEW statuses, NEW permissions
  PROVE  Decide(type, statuses, permissions) \in Decisions
  BY DEF Decide, Decisions

LEMMA EvidenceFields ==
  \A s, t, p, c, st : /\ Evidence(s, t, p, c, st).session = s /\ Evidence(s, t, p, c, st).task = t
                      /\ Evidence(s, t, p, c, st).producer = p /\ Evidence(s, t, p, c, st).refs = c
                      /\ Evidence(s, t, p, c, st).status = st
  BY DEF Evidence

LEMMA InheritedType ==
  ASSUME Provenance, NEW t \in Tasks PROVE Inherited(t) \subseteq References
  BY DEF Provenance, Inherited, DependencyEvidence, Accepted, Here, OfTasks

LEMMA TypeInit == Init => TypeOK
<1> SUFFICES ASSUME Init PROVE TypeOK
  OBVIOUS
<1>1. \A t \in Tasks : attempt[t] \in 0..MaxAttempts
  BY DEF Init
<1>2. \A e \in evidence : e.status \in {"accepted", "rejected"}
  BY DEF Init, Evidence
<1>. QED
  BY <1>1, <1>2 DEF Init, TypeOK, Phases

(* Only reads that the policy permits are asked for, of a grant that was    *)
(* issued.                                                                  *)
LEMMA Asked ==
  ASSUME TypeOK, Held, NEW t \in Tasks, phase[t] # "waiting", NEW r, NEW by \in {"adapter", "agent"},
         Permits(GrantOf(t), r)
  PROVE  /\ Read(GrantOf(t), r, by) \in [grant : Grants, resource : Resources, by : {"adapter", "agent"}]
         /\ grant[GrantOf(t)] = "active" /\ InScope(t, r)
<1>1. GrantOf(t) \in Grants /\ GrantOf(t)[1] = t
  BY GrantType DEF GrantOf, Held
<1>. QED
  BY <1>1, ScopeCovers DEF Permits, Read

LEMMA TypeStep == TypeOK /\ Held /\ Provenance /\ [Next]_vars => TypeOK'
<1> SUFFICES ASSUME TypeOK, Held, Provenance, [Next]_vars PROVE TypeOK'
  OBVIOUS
<1> USE DEF taskVars, answerVars
<1>0. /\ MaxAttempts \in Nat /\ Attempts = 1..MaxAttempts
      /\ phase \in [Tasks -> Phases] /\ attempt \in [Tasks -> 0..MaxAttempts]
      /\ grant \in [Grants -> {"none", "active", "expired", "revoked"}]
      /\ pending \subseteq [grant : Grants, resource : Resources, by : {"adapter", "agent"}]
      /\ \A read \in pending : grant[read.grant] # "none"
      /\ refs \in [Tasks -> SUBSET Resources]
      /\ \A e \in evidence : e.status \in {"accepted", "rejected"}
      /\ decision \in [Tasks -> Decisions \cup {"none", "no action"}]
  BY DEF Attempts, TypeOK
<1>1. phase' \in [Tasks -> Phases]
  <2>1. ASSUME NEW t, NEW x \in Phases, phase' = [phase EXCEPT ![t] = x]
        PROVE  phase' \in [Tasks -> Phases]
    BY <1>0, <2>1
  <2>2. ASSUME NEW t \in Tasks, TaskStep(t)
        PROVE  \E x \in Phases : phase' = [phase EXCEPT ![t] = x]
    BY <2>2 DEF Phases, TaskStep, IssueGrant, Execute, StartAgent, FailAgent, EndAttempt,
       PersistEvidence
  <2>3. ASSUME NEW t \in Tasks, NEW claims \in Answers, NEW type \in Proposals[t],
               Answer(t, claims, type)
        PROVE  \E x \in Phases : phase' = [phase EXCEPT ![t] = x]
    BY <2>3 DEF Phases, Answer
  <2>4. ASSUME NEW read \in pending, FailRead(read)
        PROVE  phase' = phase \/ \E x \in Phases : phase' = [phase EXCEPT ![read.grant[1]] = x]
    BY <2>4 DEF Phases, FailRead
  <2>5. CASE UNCHANGED phase
    BY <1>0, <2>5
  <2>. QED
    BY <1>0, <2>1, <2>2, <2>3, <2>4, <2>5 DEF Next, vars, AskGateway, Deliver, ExpireGrant,
       ApplyPolicy
<1>2. attempt' \in [Tasks -> 0..MaxAttempts]
  <2>1. ASSUME NEW t \in Tasks, IssueGrant(t) PROVE attempt' \in [Tasks -> 0..MaxAttempts]
    <3>1. attempt[t] + 1 \in 0..MaxAttempts
      <4>1. attempt[t] < MaxAttempts
        BY <2>1 DEF IssueGrant, Held
      <4>2. attempt[t] \in 0..MaxAttempts /\ MaxAttempts \in Nat
        BY <1>0
      <4>. QED
        BY <4>1, <4>2
    <3>. QED
      BY <1>0, <2>1, <3>1 DEF IssueGrant
  <2>2. CASE UNCHANGED attempt
    BY <1>0, <2>2
  <2>. QED
    BY <2>1, <2>2 DEF Next, TaskStep, vars, Execute, StartAgent, FailAgent, EndAttempt,
       PersistEvidence, Answer, AskGateway, Deliver, FailRead, ExpireGrant, ApplyPolicy
<1>3. /\ grant' \in [Grants -> {"none", "active", "expired", "revoked"}]
      /\ \A g \in Grants : grant[g] # "none" => grant'[g] # "none"
  <2>1. ASSUME NEW h, NEW x \in {"active", "expired", "revoked"}, grant' = [grant EXCEPT ![h] = x]
        PROVE  /\ grant' \in [Grants -> {"none", "active", "expired", "revoked"}]
               /\ \A g \in Grants : grant[g] # "none" => grant'[g] # "none"
    BY <1>0, <2>1
  <2>2. ASSUME NEW t \in Tasks, IssueGrant(t) \/ EndAttempt(t)
        PROVE  \E h : \E x \in {"active", "expired", "revoked"} : grant' = [grant EXCEPT ![h] = x]
    BY <2>2 DEF IssueGrant, EndAttempt
  <2>3. ASSUME NEW h \in Grants, ExpireGrant(h)
        PROVE  grant' = [grant EXCEPT ![h] = "expired"]
    BY <2>3 DEF ExpireGrant
  <2>4. CASE UNCHANGED grant
    BY <1>0, <2>4
  <2>. QED
    BY <2>1, <2>2, <2>3, <2>4 DEF Next, TaskStep, vars, Execute, StartAgent, FailAgent,
       PersistEvidence, Answer, AskGateway, Deliver, FailRead, ApplyPolicy
<1>4. /\ pending' \subseteq [grant : Grants, resource : Resources, by : {"adapter", "agent"}]
      /\ \A read \in pending' : grant'[read.grant] # "none"
  <2>1. ASSUME NEW t \in Tasks, Execute(t), NEW read \in pending'
        PROVE  /\ read \in [grant : Grants, resource : Resources, by : {"adapter", "agent"}]
               /\ grant'[read.grant] # "none"
    <3>1. CASE read \in pending
      BY <1>0, <2>1, <3>1 DEF Execute
    <3>2. CASE \E r : Permits(GrantOf(t), r) /\ read = Read(GrantOf(t), r, "adapter")
      <4>1. PICK r : Permits(GrantOf(t), r) /\ read = Read(GrantOf(t), r, "adapter")
        BY <3>2
      <4>2. phase[t] # "waiting" /\ grant' = grant
        BY <2>1 DEF Execute
      <4>. QED
        BY <4>1, <4>2, Asked DEF Read
    <3>. QED
      BY <2>1, <3>1, <3>2 DEF Execute
  <2>2. ASSUME NEW g \in Grants, NEW r \in Resources, AskGateway(g, r)
        PROVE  /\ pending' \subseteq [grant : Grants, resource : Resources, by : {"adapter", "agent"}]
               /\ \A read \in pending' : grant'[read.grant] # "none"
    <3>1. /\ pending' = pending \cup {Read(g, r, "agent")} /\ grant' = grant
          /\ grant[g] # "none"
      BY <2>2 DEF AskGateway
    <3>2. /\ Read(g, r, "agent") \in [grant : Grants, resource : Resources, by : {"adapter", "agent"}]
          /\ Read(g, r, "agent").grant = g
      BY DEF Read
    <3>. QED
      BY <1>0, <3>1, <3>2
  <2>3. CASE pending' \subseteq pending
    <3>1. \A read \in pending : read.grant \in Grants
      BY <1>0
    <3>. QED
      BY <1>0, <1>3, <2>3, <3>1
  <2>. QED
    BY <2>1, <2>2, <2>3 DEF Next, TaskStep, vars, IssueGrant, StartAgent, FailAgent, EndAttempt,
       PersistEvidence, Answer, Deliver, FailRead, ExpireGrant, ApplyPolicy
<1>5. refs' \in [Tasks -> SUBSET Resources]
  <2>1. ASSUME NEW read \in pending, Deliver(read) PROVE refs' \in [Tasks -> SUBSET Resources]
    <3>1. read.grant[1] \in Tasks /\ read.resource \in Resources
      BY <1>0, GrantType
    <3>2. refs[read.grant[1]] \cup {read.resource} \in SUBSET Resources
      BY <1>0, <3>1
    <3>. QED
      BY <1>0, <2>1, <3>1, <3>2 DEF Deliver
  <2>2. CASE UNCHANGED refs
    BY <1>0, <2>2
  <2>. QED
    BY <2>1, <2>2 DEF Next, TaskStep, vars, IssueGrant, Execute, StartAgent, FailAgent,
       EndAttempt, PersistEvidence, Answer, AskGateway, FailRead, ExpireGrant, ApplyPolicy
<1>6. /\ got' \in [Tasks -> SUBSET References] /\ answer' \in [Tasks -> SUBSET SUBSET References]
      /\ action' \in [Tasks -> {"none"} \cup (UNION {Proposals[t] : t \in Tasks}) \cup ActionTypes]
  <2>1. ASSUME NEW t \in Tasks, NEW claims \in Answers, NEW type \in Proposals[t],
               Answer(t, claims, type)
        PROVE  /\ got' \in [Tasks -> SUBSET References]
               /\ answer' \in [Tasks -> SUBSET SUBSET References]
               /\ action' \in
                    [Tasks -> {"none"} \cup (UNION {Proposals[u] : u \in Tasks}) \cup ActionTypes]
    <3>1. refs[t] \cup Inherited(t) \in SUBSET References
      BY InheritedType DEF TypeOK, References
    <3>2. RecordedClaims(t, claims) \in SUBSET SUBSET References
      BY DEF RecordedClaims, References
    <3>3. RecordedAction(t, type) \in
            {"none"} \cup (UNION {Proposals[u] : u \in Tasks}) \cup ActionTypes
      BY DEF RecordedAction, ActionTypes, Registry
    <3>4. got' \in [Tasks -> SUBSET References]
      BY <2>1, <3>1 DEF Answer, TypeOK
    <3>5. answer' \in [Tasks -> SUBSET SUBSET References]
      BY <2>1, <3>2 DEF Answer, TypeOK
    <3>6. action' \in [Tasks -> {"none"} \cup (UNION {Proposals[u] : u \in Tasks}) \cup ActionTypes]
      BY <2>1, <3>3 DEF Answer, TypeOK
    <3>. QED
      BY <3>4, <3>5, <3>6
  <2>2. CASE UNCHANGED <<got, answer, action>>
    BY <2>2 DEF TypeOK
  <2>. QED
    BY <2>1, <2>2 DEF Next, TaskStep, vars, IssueGrant, Execute, StartAgent, FailAgent,
       EndAttempt, PersistEvidence, AskGateway, Deliver, FailRead, ExpireGrant, ApplyPolicy
<1>7. \A e \in evidence' : e.status \in {"accepted", "rejected"}
  <2>1. ASSUME NEW t \in Tasks, PersistEvidence(t) PROVE \A e \in evidence' : e.status \in {"accepted", "rejected"}
    <3>1. \A claim, authorized : Assess(t, claim, authorized) \in {"accepted", "rejected"}
      BY DEF Assess
    <3>2. ASSUME NEW e \in evidence', e \notin evidence
          PROVE  e.status \in {"accepted", "rejected"}
      <4>1. PICK claim \in answer[t] :
              e = Evidence("this", t, t, claim, Assess(t, claim, refs[t] \cup Inherited(t)))
        BY <2>1, <3>2 DEF PersistEvidence
      <4>. QED
        BY <3>1, <4>1, EvidenceFields
    <3>. QED
      BY <1>0, <3>2
  <2>2. ASSUME NEW t \in Tasks, NEW claims \in Answers, NEW type \in Proposals[t],
               Answer(t, claims, type)
        PROVE  \A e \in evidence' : e.status \in {"accepted", "rejected"}
    <3>1. Spoofed.status = "rejected" /\ evidence' \subseteq evidence \cup {Spoofed}
      BY <2>2, EvidenceFields DEF Answer, Spoofed
    <3>. QED
      BY <1>0, <3>1
  <2>3. CASE UNCHANGED evidence
    BY <1>0, <2>3
  <2>. QED
    BY <2>1, <2>2, <2>3 DEF Next, TaskStep, vars, IssueGrant, Execute, StartAgent, FailAgent,
       EndAttempt, AskGateway, Deliver, FailRead, ExpireGrant, ApplyPolicy
<1>8. decision' \in [Tasks -> Decisions \cup {"none", "no action"}]
  <2>1. ASSUME ApplyPolicy PROVE decision' \in [Tasks -> Decisions \cup {"none", "no action"}]
    <3> DEFINE verdict(t) == IF action[t] = "none" THEN "no action"
                             ELSE Decide(action[t], {e.status : e \in Here(evidence)},
                                         Agent[t].permissions)
    <3>1. decision' = [t \in Tasks |-> verdict(t)]
      BY <2>1 DEF ApplyPolicy
    <3>2. \A t \in Tasks : verdict(t) \in Decisions \cup {"no action"}
      BY DecideType
    <3> HIDE DEF verdict
    <3>. QED
      BY <3>1, <3>2
  <2>2. CASE UNCHANGED decision
    BY <1>0, <2>2
  <2>. QED
    BY <2>1, <2>2 DEF Next, TaskStep, vars, IssueGrant, Execute, StartAgent, FailAgent,
       EndAttempt, PersistEvidence, Answer, AskGateway, Deliver, FailRead, ExpireGrant
<1>9. (\A t \in Tasks : phase'[t] = "failed" \/ phase'[t] = "done")
        => \A g \in Grants : grant'[g] \in {"none", "revoked"}
  <2>1. \A g \in Grants : grant'[g] \in {"active", "expired"} => phase'[g[1]] \in Ongoing
    BY HeldStep DEF Held
  <2>. QED
    BY <1>3, <2>1, GrantType DEF Ongoing
<1>10. scenario' = scenario
  BY DEF Next, TaskStep, vars, IssueGrant, Execute, StartAgent, FailAgent,
     EndAttempt, PersistEvidence, Answer, AskGateway, Deliver, FailRead, ExpireGrant, ApplyPolicy
<1>. QED
  BY <1>1, <1>2, <1>3, <1>4, <1>5, <1>6, <1>7, <1>8, <1>9, <1>10 DEF TypeOK
-----------------------------------------------------------------------------
(* Scoped.  The policy permits a read before it is delivered, and what is   *)
(* in scope of an agent does not change.                                    *)
LEMMA ScopedStep == TypeOK /\ Held /\ Scoped /\ [Next]_vars => Scoped'
<1> SUFFICES ASSUME TypeOK, Held, Scoped, [Next]_vars PROVE Scoped'
  OBVIOUS
<1> USE DEF taskVars, answerVars
<1>1. \A read \in pending' : read \in pending \/ InScope(read.grant[1], read.resource)
  <2>1. ASSUME NEW t \in Tasks, Execute(t), NEW read \in pending', read \notin pending
        PROVE  InScope(read.grant[1], read.resource)
    <3>1. PICK r : Permits(GrantOf(t), r) /\ read = Read(GrantOf(t), r, "adapter")
      BY <2>1 DEF Execute
    <3>. QED
      BY <3>1 DEF Permits, Read
  <2>2. ASSUME NEW g \in Grants, NEW r \in Resources, AskGateway(g, r)
        PROVE  \A read \in pending' : read \in pending \/ InScope(read.grant[1], read.resource)
    <3>1. pending' = pending \cup {Read(g, r, "agent")} /\ InScope(g[1], r)
      BY <2>2 DEF AskGateway, Permits
    <3>. QED
      BY <3>1 DEF Read
  <2>3. CASE pending' \subseteq pending
    BY <2>3
  <2>. QED
    BY <2>1, <2>2, <2>3 DEF Next, TaskStep, vars, IssueGrant, StartAgent, FailAgent, EndAttempt,
       PersistEvidence, Answer, Deliver, FailRead, ExpireGrant, ApplyPolicy
<1>2. \A t \in Tasks : \A r \in refs'[t] : InScope(t, r)
  <2>1. ASSUME NEW read \in pending, Deliver(read), NEW t \in Tasks, NEW r \in refs'[t]
        PROVE  InScope(t, r)
    <3>1. CASE r \in refs[t]
      BY <3>1 DEF Scoped
    <3>2. CASE r \notin refs[t]
      <4>1. t = read.grant[1] /\ r = read.resource
        BY <2>1, <3>2 DEF Deliver, TypeOK
      <4>. QED
        BY <2>1, <4>1 DEF Scoped
    <3>. QED
      BY <3>1, <3>2
  <2>2. CASE UNCHANGED refs
    BY <2>2 DEF Scoped
  <2>. QED
    BY <2>1, <2>2 DEF Next, TaskStep, vars, IssueGrant, Execute, StartAgent, FailAgent,
       EndAttempt, PersistEvidence, Answer, AskGateway, FailRead, ExpireGrant, ApplyPolicy
<1>. QED
  BY <1>1, <1>2 DEF Scoped

(* persistEvidence is the only writer of evidence, but for the item that a  *)
(* scenario plants, and writes what it makes of the last answer.            *)
Assessed(t, claim) ==
    Evidence("this", t, t, claim, Assess(t, claim, refs[t] \cup Inherited(t)))

LEMMA SpoofedFields == /\ Spoofed.status = "rejected"
                       /\ \A t, claim, st : Evidence("this", t, t, claim, st) # Spoofed
  BY EvidenceFields DEF Spoofed

LEMMA NewEvidence ==
  TypeOK /\ [Next]_vars
    => /\ \A e \in evidence' \ evidence : e # Spoofed =>
            \E t \in Tasks : /\ phase[t] = "completed" /\ phase'[t] = "done"
                             /\ answer'[t] = answer[t] /\ got'[t] = got[t]
                             /\ \E claim \in answer[t] : e = Assessed(t, claim)
       /\ \A t \in Tasks : phase[t] # "done" /\ phase'[t] = "done" =>
            answer'[t] = answer[t] /\ \A claim \in answer[t] : Assessed(t, claim) \in evidence'
<1> DEFINE Goal == /\ \A e \in evidence' \ evidence : e # Spoofed =>
                        \E t \in Tasks : /\ phase[t] = "completed" /\ phase'[t] = "done"
                                         /\ answer'[t] = answer[t] /\ got'[t] = got[t]
                                         /\ \E claim \in answer[t] : e = Assessed(t, claim)
                   /\ \A t \in Tasks : phase[t] # "done" /\ phase'[t] = "done" =>
                        /\ answer'[t] = answer[t]
                        /\ \A claim \in answer[t] : Assessed(t, claim) \in evidence'
<1> SUFFICES ASSUME TypeOK, [Next]_vars PROVE Goal
  OBVIOUS
<1> USE DEF taskVars, answerVars
<1>0. phase \in [Tasks -> Phases]
  BY DEF TypeOK
<1>1. ASSUME NEW t \in Tasks, PersistEvidence(t) PROVE Goal
  <2>1. /\ phase[t] = "completed" /\ phase' = [phase EXCEPT ![t] = "done"]
        /\ UNCHANGED <<answer, got>>
        /\ evidence' = evidence \cup {Assessed(t, claim) : claim \in answer[t]}
    BY <1>1 DEF PersistEvidence, Assessed
  <2>. QED
    BY <1>0, <2>1
<1>2. ASSUME NEW t \in Tasks, NEW claims \in Answers, NEW type \in Proposals[t],
             Answer(t, claims, type)
      PROVE  Goal
  <2>1. phase' = [phase EXCEPT ![t] = "answered"] /\ evidence' \subseteq evidence \cup {Spoofed}
    BY <1>2 DEF Answer
  <2>. QED
    BY <1>0, <2>1
<1>3. ASSUME NEW t, NEW x \in Phases \ {"done"}, phase' = [phase EXCEPT ![t] = x],
             evidence' = evidence
      PROVE  Goal
  BY <1>0, <1>3
<1>4. ASSUME NEW t \in Tasks, IssueGrant(t) \/ Execute(t) \/ StartAgent(t) \/ FailAgent(t) \/ EndAttempt(t)
      PROVE  evidence' = evidence /\ \E x \in Phases \ {"done"} : phase' = [phase EXCEPT ![t] = x]
  BY <1>4 DEF IssueGrant, Execute, StartAgent, FailAgent, EndAttempt, Phases
<1>5. ASSUME NEW read \in pending, FailRead(read)
      PROVE  /\ evidence' = evidence
             /\ \/ phase' = phase
                \/ \E x \in Phases \ {"done"} : phase' = [phase EXCEPT ![read.grant[1]] = x]
  BY <1>5 DEF FailRead, Phases
<1>6. CASE UNCHANGED <<phase, evidence>>
  BY <1>6
<1> HIDE DEF Goal
<1>. QED
  BY <1>1, <1>2, <1>3, <1>4, <1>5, <1>6 DEF Next, TaskStep, vars, AskGateway, Deliver,
     ExpireGrant, ApplyPolicy

(* Provenance.                                                              *)
LEMMA ProvenanceStep == TypeOK /\ Provenance /\ [Next]_vars => Provenance'
<1> SUFFICES ASSUME TypeOK, Provenance, [Next]_vars PROVE Provenance'
  OBVIOUS
<1>1. evidence \subseteq evidence'
  BY EvidenceGrows
<1>2. \A t \in Tasks : answer[t] \subseteq SUBSET References
  BY DEF TypeOK
<1>3. \A t, claim : /\ Assessed(t, claim).task = t /\ Assessed(t, claim).refs = claim
                    /\ Assessed(t, claim).status \in {"accepted", "rejected"}
                    /\ Assessed(t, claim).session = "this" /\ Assessed(t, claim) # Spoofed
  BY EvidenceFields, SpoofedFields DEF Assessed, Assess
<1>4. \A e \in evidence' : e.status \in {"accepted", "rejected"} /\ e.refs \subseteq References
  <2>1. ASSUME NEW e \in evidence', e \notin evidence, e # Spoofed
        PROVE  e.status \in {"accepted", "rejected"} /\ e.refs \subseteq References
    <3>1. PICK t \in Tasks : \E claim \in answer[t] : e = Assessed(t, claim)
      BY <2>1, NewEvidence
    <3>. QED
      BY <1>2, <1>3, <3>1
  <2>2. Spoofed.status = "rejected" /\ Spoofed.refs \subseteq References
    BY SpoofedFields, EvidenceFields DEF Spoofed, References
  <2>. QED
    BY <2>1, <2>2 DEF Provenance
<1>5. ASSUME NEW e \in Ours'
      PROVE  e.task \in Tasks /\ phase'[e.task] = "done" /\ e.refs \in answer'[e.task]
  <2>0. e \in evidence' /\ e # Spoofed /\ e.session = "this"
    BY <1>5 DEF Ours, Here, Spoofed
  <2>1. CASE e \in evidence
    <3>1. e \in Ours
      BY <2>0, <2>1 DEF Ours, Here
    <3>. QED
      BY <3>1, DoneStays DEF Provenance
  <2>2. CASE e \notin evidence
    BY <1>3, <2>0, <2>2, NewEvidence
  <2>. QED
    BY <2>1, <2>2
<1>6. ASSUME NEW t \in Tasks, phase'[t] = "done", NEW claim \in answer'[t]
      PROVE  \E e \in Ours' : e.refs = claim
  <2>1. CASE phase[t] = "done"
    <3>1. claim \in answer[t]
      BY <1>6, <2>1, DoneStays
    <3>2. PICK e \in Ours : e.refs = claim
      BY <2>1, <3>1 DEF Provenance
    <3>3. e \in Ours'
      BY <1>1 DEF Ours, Here, Spoofed
    <3>. QED
      BY <3>2, <3>3
  <2>2. CASE phase[t] # "done"
    <3>1. Assessed(t, claim) \in evidence'
      BY <1>6, <2>2, NewEvidence
    <3>2. Assessed(t, claim) \in Ours'
      BY <1>3, <3>1 DEF Ours, Here, Spoofed
    <3>. QED
      BY <1>3, <3>2
  <2>. QED
    BY <2>1, <2>2
<1>. QED
  BY <1>4, <1>5, <1>6 DEF Provenance
-----------------------------------------------------------------------------
(* What persistEvidence allows a task only grows, so what its agent had     *)
(* received stays allowed.                                                  *)
LEMMA ReceivedStep == TypeOK /\ Received /\ [Next]_vars => Received'
<1> SUFFICES ASSUME TypeOK, Received, [Next]_vars PROVE Received'
  OBVIOUS
<1>1. \A t \in Tasks : refs[t] \cup Inherited(t) \subseteq refs'[t] \cup Inherited(t)'
  BY RefsGrow, EvidenceGrows, InheritedGrows
<1>2. \A t \in Tasks : got'[t] \subseteq got[t] \cup refs[t] \cup Inherited(t)
  <2>1. ASSUME NEW t \in Tasks, NEW claims \in Answers, NEW type \in Proposals[t],
               Answer(t, claims, type)
        PROVE  \A u \in Tasks : got'[u] \subseteq got[u] \cup refs[u] \cup Inherited(u)
    <3>1. got' = [got EXCEPT ![t] = refs[t] \cup Inherited(t)] /\ got \in [Tasks -> SUBSET References]
      BY <2>1 DEF Answer, TypeOK
    <3>. QED
      BY <3>1
  <2>2. CASE UNCHANGED got
    BY <2>2
  <2>. QED
    BY <2>1, <2>2 DEF Next, TaskStep, vars, taskVars, answerVars, IssueGrant, Execute,
       StartAgent, FailAgent, EndAttempt, PersistEvidence, AskGateway, Deliver, FailRead,
       ExpireGrant, ApplyPolicy
<1>. QED
  BY <1>1, <1>2 DEF Received

(* Upstream is closed: what a dependency builds on, its dependent does.     *)
LEMMA UpstreamClosed ==
  ASSUME NEW t \in Tasks, NEW d \in DependsOn[t]
  PROVE  d \in Tasks /\ d \in Upstream(t) /\ Upstream(d) \subseteq Upstream(t)
  BY DEF Upstream

(* A reference that counts for a task was delivered to it, or to a task it  *)
(* builds on, within the scope of its reader.                               *)
Rests(t, r) == \E u \in Tasks : /\ u = t \/ u \in Upstream(t)
                                /\ r \in refs[u] /\ InScope(u, r)

LEMMA CountedReferencesRest ==
  ASSUME TypeOK, Scoped, Provenance, VerdictsAreFair, NEW t \in Tasks,
         NEW r \in refs[t] \cup Inherited(t)
  PROVE  Rests(t, r)
<1>1. CASE r \in refs[t]
  BY <1>1 DEF Scoped, Rests
<1>2. CASE r \in Inherited(t)
  <2>1. PICK e \in Here(evidence) : e.status = "accepted" /\ e.task \in DependsOn[t] /\ r \in e.refs
    BY <1>2, InheritedFrom
  <2>2. e # Spoofed
    BY <2>1, SpoofedFields
  <2>3. PICK u \in Tasks : /\ u = e.task \/ u \in Upstream(e.task)
                           /\ r \in refs[u] /\ InScope(u, r)
    BY <2>1, <2>2 DEF VerdictsAreFair
  <2>4. u \in Upstream(t)
    BY <2>1, <2>3, UpstreamClosed
  <2>. QED
    BY <2>3, <2>4 DEF Rests
<1>. QED
  BY <1>1, <1>2

LEMMA FairStep ==
  TypeOK /\ Scoped /\ Provenance /\ Received /\ VerdictsAreFair /\ [Next]_vars
    => VerdictsAreFair'
<1> SUFFICES ASSUME TypeOK, Scoped, Provenance, Received, VerdictsAreFair, [Next]_vars,
                    NEW e \in Ours'
             PROVE  IF e.status = "accepted"
                    THEN /\ e.refs # {}
                         /\ \A r \in e.refs : Rests(e.task, r)'
                    ELSE e.refs = {} \/ ~(e.refs \subseteq got'[e.task])
  BY DEF VerdictsAreFair, Ours, Rests, Here, Spoofed
<1>0. e \in evidence' /\ e # Spoofed /\ e.session = "this"
  BY DEF Ours, Here, Spoofed
<1>1. \A t \in Tasks : \A r : Rests(t, r) => Rests(t, r)'
  BY RefsGrow DEF Rests
<1>2. CASE e \in evidence
  <2>1. e \in Ours
    BY <1>0, <1>2 DEF Ours, Here
  <2>2. e.task \in Tasks /\ phase[e.task] = "done"
    BY <2>1 DEF Provenance
  <2>3. got'[e.task] = got[e.task]
    BY <2>2, DoneStays
  <2>4. CASE e.status = "accepted"
    <3>1. e.refs # {} /\ \A r \in e.refs : Rests(e.task, r)
      BY <2>1, <2>4 DEF VerdictsAreFair, Ours, Rests
    <3>. QED
      BY <1>1, <2>2, <2>4, <3>1
  <2>5. CASE e.status # "accepted"
    BY <2>1, <2>3, <2>5 DEF VerdictsAreFair, Ours
  <2>. QED
    BY <2>4, <2>5
<1>3. CASE e \notin evidence
  <2>1. PICK t \in Tasks : /\ phase[t] = "completed" /\ got'[t] = got[t]
                           /\ \E claim \in answer[t] : e = Assessed(t, claim)
    BY <1>0, <1>3, NewEvidence
  <2>2. PICK claim \in answer[t] : e = Assessed(t, claim)
    BY <2>1
  <2>3. /\ e.task = t /\ e.refs = claim
        /\ e.status = Assess(t, claim, refs[t] \cup Inherited(t))
    BY <2>2, EvidenceFields DEF Assessed
  <2>4. CASE claim # {} /\ claim \subseteq refs[t] \cup Inherited(t)
    <3>1. \A r \in claim : Rests(t, r)
      BY <2>4, CountedReferencesRest
    <3>2. e.status = "accepted"
      BY <2>1, <2>3, <2>4 DEF Assess
    <3>. QED
      BY <1>1, <2>3, <2>4, <3>1, <3>2
  <2>5. CASE ~(claim # {} /\ claim \subseteq refs[t] \cup Inherited(t))
    <3>1. e.status = "rejected"
      BY <2>3, <2>5 DEF Assess
    <3>2. claim = {} \/ ~(claim \subseteq got[t])
      BY <2>5 DEF Received
    <3>. QED
      BY <2>1, <2>3, <3>1, <3>2
  <2>. QED
    BY <2>4, <2>5
<1>. QED
  BY <1>2, <1>3
-----------------------------------------------------------------------------
(* The policy.                                                              *)
LEMMA DecideAllows ==
  ASSUME NEW type, NEW statuses, NEW permissions,
         Decide(type, statuses, permissions) \in {"AUTO_EXECUTE", "REQUIRE_APPROVAL"}
  PROVE  /\ type \in ActionTypes /\ Registry[type].impact = "low"
         /\ Registry[type].requiredPermission \in permissions
         /\ "accepted" \in statuses /\ "rejected" \notin statuses
<1>1. /\ type \in ActionTypes /\ Registry[type].impact \notin {"high", "critical"}
      /\ Registry[type].requiredPermission \in permissions /\ Supported(statuses)
  BY DEF Decide
<1>2. Registry[type].impact = "low"
  <2>1. type \in {"CREATE_INTERNAL_DRAFT", "SEND_EMAIL", "UPDATE_PRICING", "DELETE_PROTECTED_DATA"}
    BY <1>1 DEF ActionTypes, Registry
  <2>. QED
    BY <1>1, <2>1 DEF Registry, Risk
<1>. QED
  BY <1>1, <1>2 DEF Supported

LEMMA DecidedLastStep == TypeOK /\ DecidedLast /\ [Next]_vars => DecidedLast'
<1> SUFFICES ASSUME TypeOK, DecidedLast, [Next]_vars PROVE DecidedLast'
  OBVIOUS
<1> USE DEF taskVars, answerVars
<1>1. CASE ApplyPolicy
  BY <1>1 DEF ApplyPolicy, DecidedLast
<1>2. CASE UNCHANGED decision
  BY <1>2, DoneStays DEF DecidedLast
<1>. QED
  BY <1>1, <1>2 DEF Next, TaskStep, vars, IssueGrant, Execute, StartAgent, FailAgent,
     EndAttempt, PersistEvidence, Answer, AskGateway, Deliver, FailRead, ExpireGrant

(* With no rejected evidence, what was claimed was obtained.                *)
LEMMA ClaimsObtained ==
  ASSUME TypeOK, Provenance, VerdictsAreFair, \A t \in Tasks : phase[t] = "done",
         "accepted" \in {e.status : e \in Here(evidence)},
         "rejected" \notin {e.status : e \in Here(evidence)}
  PROVE  /\ \E u \in Tasks : \E claim \in answer[u] : claim # {} /\ claim \subseteq Obtained
         /\ \A u \in Tasks : \A claim \in answer[u] : claim # {} /\ claim \subseteq Obtained
<1>1. \A e \in Ours : e.status = "accepted"
  BY DEF Provenance, Ours, Here
<1>2. \A e \in Ours : e.refs # {} /\ e.refs \subseteq Obtained
  BY <1>1 DEF VerdictsAreFair, Ours, Obtained
<1>3. \A u \in Tasks : \A claim \in answer[u] : claim # {} /\ claim \subseteq Obtained
  BY <1>2 DEF Provenance
<1>4. PICK e \in Here(evidence) : e.status = "accepted"
  OBVIOUS
<1>5. e \in Ours
  BY <1>4, SpoofedFields DEF Ours
<1>6. e.task \in Tasks /\ e.refs \in answer[e.task]
  BY <1>5 DEF Provenance
<1>. QED
  BY <1>3, <1>6

LEMMA EffectsStep ==
  /\ TypeOK /\ Provenance /\ VerdictsAreFair /\ DecidedLast /\ EffectsRestOnEvidence
  /\ [Next]_vars
  => EffectsRestOnEvidence'
<1> SUFFICES ASSUME TypeOK, Provenance, VerdictsAreFair, DecidedLast, EffectsRestOnEvidence,
                    [Next]_vars, NEW t \in Tasks,
                    decision'[t] \in {"AUTO_EXECUTE", "REQUIRE_APPROVAL"}
             PROVE  /\ action'[t] \in ActionTypes /\ Registry[action'[t]].impact = "low"
                    /\ Registry[action'[t]].requiredPermission \in Agent[t].permissions
                    /\ \E u \in Tasks : \E claim \in answer'[u] : claim # {} /\ claim \subseteq Obtained'
                    /\ \A u \in Tasks : \A claim \in answer'[u] : claim # {} /\ claim \subseteq Obtained'
  BY DEF EffectsRestOnEvidence
<1> USE DEF taskVars, answerVars
<1>1. Obtained \subseteq Obtained'
  BY RefsGrow DEF Obtained
<1>2. CASE ApplyPolicy
  <2>1. /\ \A u \in Tasks : phase[u] = "done"
        /\ UNCHANGED <<action, answer>>
        /\ Decide(action[t], {e.status : e \in Here(evidence)}, Agent[t].permissions)
             \in {"AUTO_EXECUTE", "REQUIRE_APPROVAL"}
    BY <1>2 DEF ApplyPolicy
  <2>2. /\ action[t] \in ActionTypes /\ Registry[action[t]].impact = "low"
        /\ Registry[action[t]].requiredPermission \in Agent[t].permissions
        /\ "accepted" \in {e.status : e \in Here(evidence)}
        /\ "rejected" \notin {e.status : e \in Here(evidence)}
    BY <2>1, DecideAllows
  <2>. QED
    BY <1>1, <2>1, <2>2, ClaimsObtained
<1>3. CASE UNCHANGED decision
  <2>1. decision[t] \in {"AUTO_EXECUTE", "REQUIRE_APPROVAL"}
    BY <1>3
  <2>2. \A u \in Tasks : phase[u] = "done"
    BY <2>1 DEF DecidedLast
  <2>3. \A u \in Tasks : answer'[u] = answer[u] /\ action'[u] = action[u]
    BY <2>2, DoneStays
  <2>. QED
    BY <1>1, <2>1, <2>3 DEF EffectsRestOnEvidence
<1>. QED
  BY <1>2, <1>3 DEF Next, TaskStep, vars, IssueGrant, Execute, StartAgent, FailAgent,
     EndAttempt, PersistEvidence, Answer, AskGateway, Deliver, FailRead, ExpireGrant
-----------------------------------------------------------------------------
LEMMA InvInit == Init => Inv
<1> SUFFICES ASSUME Init PROVE Inv
  OBVIOUS
<1>1. TypeOK
  BY TypeInit
<1>2. /\ \A t \in Tasks : phase[t] = "waiting" /\ attempt[t] = 0 /\ refs[t] = {} /\ got[t] = {}
                          /\ decision[t] = "none"
      /\ \A g \in Grants : grant[g] = "none"
      /\ pending = {}
  BY DEF Init
<1>3. \A e \in evidence : e.session = "earlier" /\ e.status = "accepted" /\ e.refs = Resources
  BY EvidenceFields DEF Init
<1>4. Here(evidence) = {}
  BY <1>3 DEF Here
<1>5. Held /\ Scoped
  BY <1>2 DEF Held, Scoped
<1>6. Provenance /\ VerdictsAreFair
  BY <1>2, <1>3, <1>4 DEF Provenance, VerdictsAreFair, Ours, References
<1>7. Received /\ DecidedLast /\ EffectsRestOnEvidence
  BY <1>2 DEF Received, DecidedLast, EffectsRestOnEvidence
<1>. QED
  BY <1>1, <1>5, <1>6, <1>7 DEF Inv

LEMMA InvStep == Inv /\ [Next]_vars => Inv'
  BY TypeStep, HeldStep, ScopedStep, ProvenanceStep, ReceivedStep, FairStep, DecidedLastStep,
     EffectsStep DEF Inv

(* Inv is an invariant.                                                     *)
LEMMA Invariance == Spec => []Inv
  BY InvInit, InvStep, PTL DEF Spec

(* Every variable keeps its type, and no grant outlives the workflow.       *)
THEOREM AccessTypeCorrect == Spec => []TypeOK
<1>1. Inv => TypeOK
  BY DEF Inv
<1>. QED
  BY <1>1, Invariance, PTL

(* Accepted evidence rests on resources delivered within scope to its task  *)
(* or to one it builds on, and rejected evidence claims something that its  *)
(* agent had not received.                                                  *)
THEOREM VerdictsOnEvidenceAreFair == Spec => []VerdictsAreFair
<1>1. Inv => VerdictsAreFair
  BY DEF Inv
<1>. QED
  BY <1>1, Invariance, PTL

(* Only registered low-impact actions of permitted agents take effect, in   *)
(* sessions in which every claim was obtained through the gateway.          *)
THEOREM EffectsAreSupported == Spec => []EffectsRestOnEvidence
<1>1. Inv => EffectsRestOnEvidence
  BY DEF Inv
<1>. QED
  BY <1>1, Invariance, PTL
=============================================================================
