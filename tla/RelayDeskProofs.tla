---------------------------- MODULE RelayDeskProofs ----------------------------
(***************************************************************************)
(* Proofs about RelayDesk, for any number of workflows, of polls under way *)
(* and of mishaps.                                                         *)
(***************************************************************************)
EXTENDS RelayDesk, TLAPS

USE OutcomeAssumption, SessionAssumption, NoSessionAssumption, BoundsAssumption

(* The inductive invariant.                                                 *)

Request == [at : {"idle", "sent", "waiting", "half", "answered"},
            id : Sessions \cup {NoSession}, read : Statuses, view : Views]

Server ==
    /\ outcome \in [Sessions -> Outcomes \cup {"unknown"}]
    /\ active \subseteq {s \in Sessions : stage[s] \in {"coordinating", "judging"}}
    /\ stage \in [Sessions -> {"none", "admitted", "started",
                               "abandoned", "coordinating", "judging", "deciding", "settled"}]
    /\ status \in [Sessions -> Statuses] /\ approval \in [Sessions -> ApprovalStatus]
    /\ mishaps \in 0..MaxMishaps

(* Only emptySession is no session: it is running, without an approval.     *)
Types ==
    /\ Server
    /\ shown \in Views
    /\ request \in [Slots -> Request]
    /\ \A q \in Slots : request[q].at # "idle" => request[q].id \in Sessions
    /\ shown.id = NoSession => shown = Empty
    /\ \A q \in Slots : request[q].view.id = NoSession => request[q].view = Empty

(* What is stored of a workflow at every stage of it.                       *)
Stages ==
    \A s \in Sessions :
        /\ stage[s] \in {"none", "admitted"} => status[s] = "none" /\ approval[s] = "none"
        /\ stage[s] \in {"started", "abandoned", "coordinating"} =>
             status[s] = "running" /\ approval[s] = "none"
        /\ stage[s] = "judging" => /\ status[s] = "completed" /\ HasAction(s)
                                   /\ approval[s] \in {"none", "pending"}
        /\ stage[s] = "deciding" => approval[s] \in {"approved", "denied"}
        /\ stage[s] \in {"deciding", "settled"} => status[s] \notin {"none", "running"}
        /\ status[s] = "awaiting_approval" => approval[s] # "none"

(* The agents have come to something, and that stands.                      *)
Judged(s) == stage[s] \in {"judging", "deciding", "settled"}

(* No decision will be asked for any more.                                  *)
Past(s) == \/ approval[s] \in {"approved", "denied"}
           \/ stage[s] = "settled" /\ status[s] \notin {"running", "awaiting_approval"}
Over == {s \in Sessions : Past(s)}

(* A view that ends the polling shows the approval, unless it is decided or *)
(* none will come.                                                          *)
Timely(view, over) ==
    view.status # "running" => view.approval = "pending" \/ view.id \in over

(* What the first read of a view found still holds at the second, as far as *)
(* it matters there.                                                        *)
Informed(s, read) ==
    /\ read # "none"
    /\ read # "running" =>
         /\ Judged(s)
         /\ (read = "completed" /\ HasAction(s)) \/ approval[s] # "none" \/ Past(s)

Knowledge ==
    /\ Timely(shown, Over)
    /\ \A q \in Slots : Timely(request[q].view, Over)
    /\ \A q \in Slots, s \in Sessions :
         request[q].at = "half" /\ request[q].id = s => Informed(s, request[q].read)

Inv == Types /\ Stages /\ Knowledge
-----------------------------------------------------------------------------
(* What every step leaves of a session that is past being judged, decided   *)
(* or over.                                                                 *)
Advances ==
    \A s \in Sessions : /\ Past(s) => Past(s)'
                        /\ approval[s] # "none" => approval'[s] # "none"
                        /\ Judged(s) => Judged(s)' /\ outcome'[s] = outcome[s]

(* So what was read and what is shown can still be relied on.               *)
LEMMA KnowledgeStands ==
  ASSUME Types, Knowledge, Advances,
         shown' \in {shown} \cup {request[q].view : q \in Slots},
         \A q \in Slots : \/ request'[q] = request[q]
                          \/ /\ request'[q].view \in {Empty, request[q].view}
                             /\ request'[q].at # "half"
  PROVE  Knowledge'
<1>1. Over \subseteq Over'
  BY DEF Over, Advances
<1>2. Timely(shown', Over')
  <2>1. \A view \in {shown} \cup {request[q].view : q \in Slots} : Timely(view, Over)
    BY DEF Knowledge
  <2>. QED
    BY <1>1, <2>1 DEF Timely
<1>3. ASSUME NEW q \in Slots PROVE Timely(request'[q].view, Over')
  <2>1. Timely(Empty, Over')
    BY DEF Timely, Empty, View
  <2>2. Timely(request[q].view, Over')
    BY <1>1 DEF Knowledge, Timely
  <2>. QED
    BY <2>1, <2>2
<1>4. ASSUME NEW q \in Slots, NEW s \in Sessions, request'[q].at = "half", request'[q].id = s
      PROVE  Informed(s, request[q].read)' /\ request'[q] = request[q]
  <2>1. request'[q] = request[q]
    BY <1>4
  <2>2. Informed(s, request[q].read)
    BY <1>4, <2>1 DEF Knowledge
  <2>. QED
    BY <2>1, <2>2 DEF Informed, Advances, HasAction
<1>. QED
  BY <1>2, <1>3, <1>4 DEF Knowledge

(* A step of the server alone: the views stay.                              *)
LEMMA ServerStepPreserves ==
  ASSUME Inv, Server', Stages', Advances, UNCHANGED <<shown, request>> PROVE Inv'
<1>1. \A q \in Slots : request'[q] = request[q]
  OBVIOUS
<1>2. Types'
  BY DEF Inv, Types
<1>. QED
  BY <1>1, <1>2, KnowledgeStands DEF Inv

LEMMA InitEstablishes == Init => Inv
<1> SUFFICES ASSUME Init PROVE Inv
  OBVIOUS
<1>. USE DEF Init
<1>1. Types
  <2>1. Empty \in Views /\ Idle \in Request
    BY DEF Empty, View, Views, ViewStatuses, ApprovalStatus, Idle, Request, Statuses
  <2>2. Idle.at = "idle" /\ Idle.view = Empty
    BY DEF Idle
  <2>. QED
    BY <2>1, <2>2 DEF Types, Server, Statuses, ApprovalStatus, Request
<1>2. Stages
  BY DEF Stages
<1>3. Knowledge
  BY DEF Knowledge, Timely, Idle, Empty, View
<1>. QED
  BY <1>1, <1>2, <1>3 DEF Inv

(* Creation: nothing is known of a session that is not stored.              *)
LEMMA AdmitPreserves ==
  ASSUME Inv, NEW s \in Sessions, Admit(s) \/ Store(s) \/ Register(s) \/ AbandonCreate(s)
  PROVE  Inv'
<1>. USE DEF Inv
<1>1. /\ UNCHANGED <<outcome, approval, shown, request>>
      /\ \/ stage[s] = "none" /\ stage' = [stage EXCEPT ![s] = "admitted"]
            /\ UNCHANGED <<active, status, mishaps>>
         \/ stage[s] = "admitted" /\ stage' = [stage EXCEPT ![s] = "started"]
            /\ status' = [status EXCEPT ![s] = "running"] /\ UNCHANGED <<active, mishaps>>
         \/ stage[s] = "started" /\ stage' = [stage EXCEPT ![s] = "coordinating"]
            /\ active' = active \cup {s} /\ UNCHANGED <<status, mishaps>>
         \/ stage[s] = "started" /\ stage' = [stage EXCEPT ![s] = "abandoned"]
            /\ Mishap /\ UNCHANGED <<active, status>>
  BY DEF Admit, MayAdmit, Store, Register, AbandonCreate
<1>2. Server'
  <2>1. mishaps' \in 0..MaxMishaps
    BY <1>1 DEF Types, Server, Mishap
  <2>2. /\ status' \in [Sessions -> Statuses]
        /\ stage' \in [Sessions -> {"none", "admitted", "started", "abandoned",
                                   "coordinating", "judging", "deciding", "settled"}]
    BY <1>1 DEF Types, Server, Statuses
  <2>3. \A r \in active : r \in Sessions /\ stage[r] \in {"coordinating", "judging"}
    BY DEF Types, Server
  <2>4. \A r \in active' : r \in Sessions /\ stage'[r] \in {"coordinating", "judging"}
    <3>1. stage \in [Sessions -> {"none", "admitted", "started", "abandoned",
                                  "coordinating", "judging", "deciding", "settled"}]
      BY DEF Types, Server
    <3>2. CASE stage[s] \in {"none", "admitted", "started"} /\ active' = active
      <4>1. \A r \in Sessions : r # s => stage'[r] = stage[r]
        BY <1>1, <3>1
      <4>2. s \notin active
        BY <2>3, <3>2
      <4>. QED
        BY <2>3, <3>2, <4>1, <4>2
    <3>3. CASE active' = active \cup {s} /\ stage' = [stage EXCEPT ![s] = "coordinating"]
      BY <2>3, <3>1, <3>3
    <3>. QED
      BY <1>1, <3>2, <3>3
  <2>. QED
    BY <1>1, <2>1, <2>2, <2>4 DEF Types, Server
<1>3. Stages'
  <2>1. /\ stage' \in [Sessions -> {"none", "admitted", "started", "abandoned",
                                    "coordinating", "judging", "deciding", "settled"}]
        /\ status' \in [Sessions -> Statuses]
        /\ stage'[s] \in {"admitted", "started", "abandoned", "coordinating"}
        /\ stage'[s] = "admitted" => status'[s] = "none"
        /\ stage'[s] \in {"started", "abandoned", "coordinating"} => status'[s] = "running"
    BY <1>1, <1>2 DEF Types, Server, Stages
  <2>2. \A r \in Sessions : r # s => stage'[r] = stage[r] /\ status'[r] = status[r]
    BY <1>1 DEF Types, Server
  <2>3. approval[s] = "none" /\ UNCHANGED <<approval, outcome>>
    BY <1>1 DEF Stages
  <2>. QED
    BY <2>1, <2>2, <2>3 DEF Stages, HasAction
<1>4. Advances
  BY <1>1 DEF Types, Server, Stages, Advances, Past, Judged
<1>. QED
  BY <1>1, <1>2, <1>3, <1>4, ServerStepPreserves

(* The verdict: the only step that gives an outcome.                        *)
LEMMA EndCoordinatorPreserves == ASSUME Inv, NEW s \in Sessions, EndCoordinator(s) PROVE Inv'
<1>. USE DEF Inv
<1>1. PICK end \in Outcomes :
        /\ stage[s] = "coordinating"
        /\ outcome' = [outcome EXCEPT ![s] = end]
        /\ status' = [status EXCEPT ![s] = IF end = "failed" THEN "failed" ELSE "completed"]
        /\ IF end \in {"failed", "nothing"}
           THEN stage' = [stage EXCEPT ![s] = "settled"] /\ active' = active \ {s}
           ELSE stage' = [stage EXCEPT ![s] = "judging"] /\ UNCHANGED active
        /\ UNCHANGED <<approval, shown, request, mishaps>>
  BY DEF EndCoordinator
<1>2. Server'
  BY <1>1 DEF Types, Server, Statuses
<1>3. Stages'
  BY <1>1 DEF Types, Server, Stages, HasAction
<1>4. Advances
  BY <1>1 DEF Types, Server, Stages, Advances, Past, Judged
<1>. QED
  BY <1>1, <1>2, <1>3, <1>4, ServerStepPreserves

LEMMA PolicyPreserves ==
  ASSUME Inv, NEW s \in Sessions, SaveApproval(s) \/ EndPolicy(s) PROVE Inv'
<1>. USE DEF Inv
<1>1. /\ stage[s] = "judging"
      /\ \/ /\ approval' = [approval EXCEPT ![s] = "pending"]
            /\ approval[s] = "none" /\ UNCHANGED <<active, stage, status>>
         \/ /\ status' = [status EXCEPT ![s] = FinalStatus(s)]
            /\ stage' = [stage EXCEPT ![s] = "settled"] /\ active' = active \ {s}
            /\ outcome[s] = "mail" => approval[s] # "none"
            /\ UNCHANGED approval
      /\ UNCHANGED <<outcome, shown, request, mishaps>>
  BY DEF SaveApproval, EndPolicy
<1>2. /\ FinalStatus(s) \in Statuses \ {"none", "running"}
      /\ FinalStatus(s) = "awaiting_approval" => outcome[s] = "mail"
  BY DEF FinalStatus, Statuses
<1>. HIDE DEF FinalStatus
<1>3. Server'
  <2>1. /\ status' \in [Sessions -> Statuses] /\ approval' \in [Sessions -> ApprovalStatus]
        /\ stage' \in [Sessions -> {"none", "admitted", "started", "abandoned",
                                   "coordinating", "judging", "deciding", "settled"}]
    BY <1>1, <1>2 DEF Types, Server, ApprovalStatus
  <2>2. \A r \in active' : r \in Sessions /\ stage'[r] \in {"coordinating", "judging"}
    BY <1>1 DEF Types, Server
  <2>. QED
    BY <1>1, <2>1, <2>2 DEF Types, Server
<1>4. Stages'
  <2>1. \A r \in Sessions : r # s =>
          stage'[r] = stage[r] /\ status'[r] = status[r] /\ approval'[r] = approval[r]
    BY <1>1 DEF Types, Server
  <2>2. CASE approval' = [approval EXCEPT ![s] = "pending"] /\ UNCHANGED <<stage, status>>
    <3>1. approval'[s] = "pending"
      BY <2>2 DEF Types, Server
    <3>. QED
      BY <1>1, <2>1, <2>2, <3>1 DEF Stages, HasAction
  <2>3. CASE /\ status' = [status EXCEPT ![s] = FinalStatus(s)]
             /\ stage' = [stage EXCEPT ![s] = "settled"]
             /\ outcome[s] = "mail" => approval[s] # "none"
             /\ UNCHANGED approval
    <3>1. stage'[s] = "settled" /\ status'[s] = FinalStatus(s)
      BY <2>3 DEF Types, Server
    <3>. QED
      BY <1>1, <1>2, <2>1, <2>3, <3>1 DEF Stages, HasAction
  <2>. QED
    BY <1>1, <2>2, <2>3
<1>5. Advances
  <2>1. \A r \in Sessions : r # s =>
          stage'[r] = stage[r] /\ status'[r] = status[r] /\ approval'[r] = approval[r]
    BY <1>1 DEF Types, Server
  <2>2. /\ approval'[s] = "pending" \/ approval'[s] = approval[s]
        /\ stage'[s] \in {"judging", "settled"}
    BY <1>1 DEF Types, Server
  <2>3. ~Past(s)
    BY <1>1 DEF Stages, Past
  <2>. QED
    BY <1>1, <2>1, <2>2, <2>3 DEF Advances, Past, Judged
<1>. QED
  BY <1>1, <1>3, <1>4, <1>5, ServerStepPreserves

LEMMA EndDecisionPreserves == ASSUME Inv, NEW s \in Sessions, EndDecision(s) PROVE Inv'
<1>. USE DEF Inv
<1>1. PICK end \in {"completed", "failed", "degraded"} :
        /\ stage[s] = "deciding" /\ stage' = [stage EXCEPT ![s] = "settled"]
        /\ status' = [status EXCEPT ![s] = end]
        /\ UNCHANGED <<outcome, active, approval, shown, request, mishaps>>
  BY DEF EndDecision
<1>2. Server'
  BY <1>1 DEF Types, Server, Statuses
<1>3. Stages'
  BY <1>1 DEF Types, Server, Stages, HasAction
<1>4. Advances
  BY <1>1 DEF Types, Server, Stages, Advances, Past, Judged
<1>. QED
  BY <1>1, <1>2, <1>3, <1>4, ServerStepPreserves

(* What the requests carry besides ids, and what an ended one leaves.       *)
LEMMA RequestTypes ==
  /\ Idle \in Request /\ Idle.at = "idle" /\ Idle.view = Empty /\ Empty \in Views
  /\ \A at \in {"sent", "waiting"}, s \in Sessions :
       /\ Sent(at, s) \in Request /\ Sent(at, s).at = at
       /\ Sent(at, s).id = s /\ Sent(at, s).view = Empty
<1>1. Empty \in Views
  BY DEF Empty, View, Views, ViewStatuses, ApprovalStatus
<1>. QED
  BY <1>1 DEF Sent, Idle, Request, Statuses

(* Requests that begin, end or go on without an answer.                     *)
LEMMA RequestStepPreserves ==
  ASSUME Inv, NEW q \in Slots, NEW s \in Sessions, NEW new,
         new \in {Idle, Sent("sent", s), Sent("waiting", s)},
         request' = [request EXCEPT ![q] = new],
         shown' = shown \/ (shown' = request[q].view /\ new = Idle),
         Server', Stages', Advances
  PROVE  Inv'
<1>. USE DEF Inv
<1>1. /\ new \in Request /\ new.at # "half" /\ new.view = Empty
      /\ new.at # "idle" => new.id \in Sessions
  BY RequestTypes
<1>2. request[q] \in Request
  BY DEF Types
<1>3. Types'
  <2>1. request' \in [Slots -> Request] /\ shown' \in Views
    BY <1>1, <1>2 DEF Types, Request
  <2>2. \A r \in Slots : request'[r] = request[r] \/ (r = q /\ request'[r] = new)
    BY DEF Types
  <2>. QED
    BY <1>1, <2>1, <2>2 DEF Types
<1>4. \A r \in Slots : request'[r] = request[r] \/ (request'[r].view = Empty /\ request'[r].at # "half")
  BY <1>1 DEF Types
<1>. QED
  BY <1>3, <1>4, KnowledgeStands

(* Nothing of the server changes: then all of it stands.                    *)
LEMMA ServerUnchanged ==
  ASSUME Inv, UNCHANGED <<outcome, active, stage, status, approval>>, mishaps' \in 0..MaxMishaps
  PROVE  Server' /\ Stages' /\ Advances
  BY DEF Inv, Types, Server, Stages, HasAction, Advances, Past, Judged

(* Of an approval that is pending, nobody is still judging the session.     *)
LEMMA DecidePreserves ==
  ASSUME Inv, NEW choice \in {"approved", "denied"}, Decide(choice) PROVE Inv'
<1>. USE DEF Inv
<1>1. PICK s \in Sessions :
        /\ s = shown.id /\ approval[s] = "pending" /\ status[s] \notin {"completed", "failed"}
        /\ approval' = [approval EXCEPT ![s] = choice]
        /\ stage' = [stage EXCEPT ![s] = "deciding"]
        /\ request' = [request EXCEPT ![User] = Sent("waiting", s)]
        /\ UNCHANGED <<outcome, active, status, shown, mishaps>>
  <2>1. shown.id \in Sessions
    BY DEF Decide, Types, Views, Empty, View
  <2>. QED
    BY <2>1 DEF Decide
<1>2. stage[s] \in {"deciding", "settled"}
  <2>1. stage[s] \in {"none", "admitted", "started", "abandoned", "coordinating", "judging",
                      "deciding", "settled"}
    BY DEF Types, Server
  <2>. QED
    BY <1>1, <2>1 DEF Stages
<1>3. Server'
  <2>1. s \notin active
    BY <1>2 DEF Types, Server
  <2>. QED
    BY <1>1, <2>1 DEF Types, Server, ApprovalStatus
<1>4. Stages'
  BY <1>1, <1>2 DEF Types, Server, Stages, HasAction
<1>5. Advances
  BY <1>1, <1>2 DEF Types, Server, Advances, Past, Judged
<1>6. User \in Slots
  BY DEF Slots
<1>. QED
  BY <1>1, <1>3, <1>4, <1>5, <1>6, RequestStepPreserves

LEMMA CreatePreserves == ASSUME Inv, NEW s \in Sessions, Create(s) PROVE Inv'
<1>. USE DEF Inv
<1>1. /\ stage[s] = "none" /\ stage' = [stage EXCEPT ![s] = "admitted"]
      /\ request' = [request EXCEPT ![User] = Sent("waiting", s)]
      /\ UNCHANGED <<outcome, active, status, approval, shown, mishaps>>
  BY DEF Create, MayAdmit
<1>2. Server'
  BY <1>1 DEF Types, Server
<1>3. Stages'
  BY <1>1 DEF Types, Server, Stages, HasAction
<1>4. Advances
  BY <1>1 DEF Types, Server, Stages, Advances, Past, Judged
<1>5. User \in Slots
  BY DEF Slots
<1>. QED
  BY <1>1, <1>2, <1>3, <1>4, <1>5, RequestStepPreserves

(* The other requests: what they do to the dashboard is to show a view they *)
(* were answered with.                                                      *)
LEMMA AskPreserves ==
  ASSUME Inv,
         \/ \E q \in Slots : Poll(q) \/ Lose(q) \/ Arrive(q)
         \/ \E s \in Sessions : Open(s)
  PROVE  Inv'
<1>. USE DEF Inv
<1>1. mishaps' \in 0..MaxMishaps /\ UNCHANGED <<outcome, active, stage, status, approval>>
  BY DEF Poll, Lose, Arrive, Open, serverVars, Mishap, Types, Server
<1>2. Server' /\ Stages' /\ Advances
  BY <1>1, ServerUnchanged
<1>3. ASSUME NEW q \in Slots, Poll(q) PROVE Inv'
  <2>1. shown.id \in Sessions
    BY <1>3 DEF Poll, Types, Views
  <2>. QED
    BY <1>2, <1>3, <2>1, RequestStepPreserves DEF Poll
<1>4. ASSUME NEW s \in Sessions, Open(s) PROVE Inv'
  <2>1. User \in Slots
    BY DEF Slots
  <2>. QED
    BY <1>2, <1>4, <2>1, RequestStepPreserves DEF Open
<1>5. ASSUME NEW q \in Slots, Lose(q) \/ Arrive(q) PROVE Inv'
  <2>1. request[q].id \in Sessions
    BY <1>5 DEF Lose, Arrive, Types
  <2>. QED
    BY <1>2, <1>5, <2>1, RequestStepPreserves DEF Lose, Arrive
<1>. QED
  BY <1>3, <1>4, <1>5

(* The decision or the creation is through: then its session is asked for.  *)
LEMMA ProceedPreserves == ASSUME Inv, Proceed PROVE Inv'
<1>. USE DEF Inv
<1>1. Server' /\ Stages' /\ Advances
  <2>1. mishaps' \in 0..MaxMishaps /\ UNCHANGED <<outcome, active, stage, status, approval>>
    BY DEF Proceed, serverVars, Types, Server
  <2>. QED
    BY <2>1, ServerUnchanged
<1>2. User \in Slots /\ request[User] \in Request /\ request[User].at = "waiting"
  BY DEF Slots, Proceed, Types
<1>3. PICK new \in {Idle, [request[User] EXCEPT !.at = "sent"]} :
        request' = [request EXCEPT ![User] = new] /\ shown' = shown
  BY DEF Proceed
<1>4. /\ new \in Request /\ new.at # "half" /\ new.view \in {Empty, request[User].view}
      /\ new.at # "idle" => new.id = request[User].id
  BY <1>2, <1>3, RequestTypes DEF Request
<1>5. Types'
  <2>1. request' \in [Slots -> Request]
    BY <1>3, <1>4 DEF Types
  <2>2. \A r \in Slots : request'[r] = request[r] \/ (r = User /\ request'[r] = new)
    BY <1>3 DEF Types
  <2>3. request[User].id \in Sessions
    BY <1>2 DEF Types
  <2>. QED
    BY <1>1, <1>3, <1>4, <2>1, <2>2, <2>3, <1>2 DEF Types
<1>6. \A r \in Slots : \/ request'[r] = request[r]
                       \/ /\ request'[r].view \in {Empty, request[r].view}
                          /\ request'[r].at # "half"
  BY <1>3, <1>4 DEF Types
<1>. QED
  BY <1>1, <1>3, <1>5, <1>6, KnowledgeStands

(* What the first read of a view finds: what was stored of the session as   *)
(* far as it had come.                                                      *)
LEMMA StoredIsInformed ==
  ASSUME Inv, NEW s \in Sessions, Stored(s) PROVE Informed(s, status[s])
<1>1. stage[s] \in {"started", "abandoned", "coordinating", "judging", "deciding", "settled"}
  BY DEF Inv, Types, Server, Stored
<1>2. CASE stage[s] \in {"started", "abandoned", "coordinating"}
  BY <1>2 DEF Inv, Stages, Informed
<1>3. CASE stage[s] = "judging"
  BY <1>3 DEF Inv, Stages, Informed, Judged
<1>4. CASE stage[s] = "deciding"
  BY <1>4 DEF Inv, Stages, Informed, Judged, Past
<1>5. CASE stage[s] = "settled"
  BY <1>5 DEF Inv, Stages, Informed, Judged, Past
<1>. QED
  BY <1>1, <1>2, <1>3, <1>4, <1>5

LEMMA ReadSessionPreserves == ASSUME Inv, NEW q \in Slots, ReadSession(q) PROVE Inv'
<1>. USE DEF Inv
<1> DEFINE s == request[q].id
           new == [request[q] EXCEPT !.at = "half", !.read = status[s]]
<1>1. /\ request[q].at = "sent" /\ Stored(s)
      /\ request' = [request EXCEPT ![q].at = "half", ![q].read = status[s]]
      /\ UNCHANGED <<outcome, active, stage, status, approval, shown, mishaps>>
  BY DEF ReadSession, serverVars
<1>2. s \in Sessions /\ request[q] \in Request /\ status[s] \in Statuses
  BY <1>1 DEF Types, Server
<1>3. /\ request' \in [Slots -> Request]
      /\ request'[q].at = "half" /\ request'[q].read = status[s]
      /\ request'[q].id = s /\ request'[q].view = request[q].view
      /\ \A r \in Slots : r # q => request'[r] = request[r]
  BY <1>1, <1>2 DEF Types, Request
<1>. HIDE DEF s, new
<1>4. Server' /\ Stages' /\ Advances
  BY <1>1, ServerUnchanged DEF Types, Server
<1>5. Types'
  BY <1>1, <1>2, <1>3, <1>4 DEF Types, s
<1>6. \A t \in Sessions, read \in Statuses : Informed(t, read) => Informed(t, read)'
  BY <1>1 DEF Informed, Judged, HasAction, Past
<1>7. Knowledge'
  <2>1. Over' = Over
    BY <1>1 DEF Over, Past
  <2>2. \A r \in Slots : Timely(request'[r].view, Over')
    BY <1>3, <2>1 DEF Knowledge
  <2>3. ASSUME NEW r \in Slots, NEW t \in Sessions, request'[r].at = "half", request'[r].id = t
        PROVE  Informed(t, request[r].read)'
    <3>1. PICK read \in Statuses : read = request'[r].read
      BY <1>3 DEF Request
    <3>2. Informed(t, read)
      <4>1. CASE r = q
        BY <1>1, <1>2, <1>3, <2>3, <3>1, <4>1, StoredIsInformed
      <4>2. CASE r # q
        BY <1>3, <2>3, <3>1, <4>2 DEF Knowledge
      <4>. QED
        BY <4>1, <4>2
    <3>3. Informed(t, read)'
      BY <3>2, <1>6
    <3>. QED
      BY <3>1, <3>3 DEF Informed
  <2>. QED
    BY <1>1, <2>1, <2>2, <2>3 DEF Knowledge
<1>. QED
  BY <1>4, <1>5, <1>7

(* The view that the second read completes is timely: a session that is     *)
(* completed, with actions and no approval yet, still counts as running.    *)
LEMMA ProjectIsTimely ==
  ASSUME Inv, NEW s \in Sessions, NEW read \in Statuses, Informed(s, read)
  PROVE  /\ Project(s, read, approval[s]) \in Views
         /\ Project(s, read, approval[s]).id = s
         /\ Timely(Project(s, read, approval[s]), Over)
<1>1. approval[s] \in ApprovalStatus
  BY DEF Inv, Types, Server
<1>2. Projected(read) \in ViewStatuses
  BY DEF Informed, Projected, Statuses, ViewStatuses
<1>3. Project(s, read, approval[s]) \in Views /\ Project(s, read, approval[s]).id = s
  BY <1>1, <1>2 DEF Project, View, Views, ViewStatuses
<1>4. CASE approval[s] # "none"
  BY <1>1, <1>3, <1>4 DEF Project, View, Timely, Over, Past, ApprovalStatus
<1>5. CASE approval[s] = "none" /\ Past(s)
  BY <1>3, <1>5 DEF Timely, Over
<1>6. CASE approval[s] = "none" /\ (read = "running" \/ (read = "completed" /\ HasAction(s)))
  BY <1>3, <1>6 DEF Project, View, Projected, Timely
<1>7. approval[s] # "none" \/ Past(s) \/ read = "running" \/ (read = "completed" /\ HasAction(s))
  BY DEF Informed
<1>. QED
  BY <1>3, <1>4, <1>5, <1>6, <1>7

LEMMA ReadApprovalPreserves == ASSUME Inv, NEW q \in Slots, ReadApproval(q) PROVE Inv'
<1>. USE DEF Inv
<1> DEFINE s == request[q].id
           view == Project(s, request[q].read, approval[s])
<1>1. /\ request[q].at = "half"
      /\ request' = [request EXCEPT ![q].at = "answered", ![q].view = view]
      /\ UNCHANGED <<outcome, active, stage, status, approval, shown, mishaps>>
  BY DEF ReadApproval, serverVars
<1>2. s \in Sessions /\ request[q] \in Request /\ request[q].read \in Statuses
  BY <1>1 DEF Types, Request
<1>3. Informed(s, request[q].read)
  BY <1>1, <1>2 DEF Knowledge
<1>4. view \in Views /\ view.id = s /\ Timely(view, Over)
  BY <1>2, <1>3, ProjectIsTimely
<1>. HIDE DEF view
<1>5. /\ request' \in [Slots -> Request]
      /\ request'[q].at = "answered" /\ request'[q].view = view /\ request'[q].id = s
      /\ \A r \in Slots : r # q => request'[r] = request[r]
  BY <1>1, <1>2, <1>4 DEF Types, Request
<1>. HIDE DEF s
<1>6. Server' /\ Stages' /\ Advances
  BY <1>1, ServerUnchanged DEF Types, Server
<1>7. Types'
  BY <1>1, <1>2, <1>4, <1>5, <1>6 DEF Types, s
<1>8. Knowledge'
  <2>1. Over' = Over
    BY <1>1 DEF Over, Past
  <2>2. \A r \in Slots : Timely(request'[r].view, Over')
    BY <1>4, <1>5, <2>1 DEF Knowledge
  <2>3. ASSUME NEW r \in Slots, NEW t \in Sessions, request'[r].at = "half", request'[r].id = t
        PROVE  Informed(t, request[r].read)'
    <3>1. r # q /\ request'[r] = request[r]
      BY <1>5, <2>3
    <3>2. Informed(t, request[r].read)
      BY <2>3, <3>1 DEF Knowledge
    <3>. QED
      BY <1>1, <3>1, <3>2 DEF Informed, Judged, HasAction, Past
  <2>. QED
    BY <1>1, <2>1, <2>2, <2>3 DEF Knowledge
<1>. QED
  BY <1>6, <1>7, <1>8

(* A restart ends what was running, and every request.                      *)
LEMMA RestartPreserves == ASSUME Inv, Restart PROVE Inv'
<1>. USE DEF Inv
<1>1. PICK end \in [Sessions -> {"completed", "failed", "awaiting_approval"}] :
        /\ Mishap /\ active' = {}
        /\ stage' = [s \in Sessions |-> IF Stored(s) THEN "settled" ELSE "none"]
        /\ status' = [s \in Sessions |->
                        IF status[s] = "running" THEN "failed"
                        ELSE IF status[s] = "awaiting_approval" /\ approval[s] = "approved"
                             THEN end[s] ELSE status[s]]
        /\ request' = [q \in Slots |-> Idle]
        /\ UNCHANGED <<outcome, approval, shown>>
  BY DEF Restart
<1>2. Server'
  <2>1. mishaps' \in 0..MaxMishaps
    BY <1>1 DEF Types, Server, Mishap
  <2>. QED
    BY <1>1, <2>1 DEF Types, Server, Statuses
<1>3. Types'
  BY <1>1, <1>2, RequestTypes DEF Types
<1>4. Stages'
  BY <1>1 DEF Types, Server, Stages, Stored
<1>5. Advances
  BY <1>1 DEF Types, Server, Stages, Advances, Past, Judged, Stored
<1>6. \A q \in Slots : request'[q].view = Empty /\ request'[q].at # "half"
  BY <1>1, RequestTypes
<1>. QED
  BY <1>1, <1>3, <1>4, <1>5, <1>6, KnowledgeStands

LEMMA NextPreserves == Inv /\ [Next]_vars => Inv'
<1> SUFFICES ASSUME Inv, [Next]_vars PROVE Inv'
  OBVIOUS
<1>1. CASE UNCHANGED vars
  <2>1. UNCHANGED <<outcome, active, stage, status, approval, shown, request, mishaps>>
    BY <1>1 DEF vars, serverVars
  <2>2. Server' /\ Stages' /\ Advances
    BY <2>1, ServerUnchanged DEF Inv, Types, Server
  <2>. QED
    BY <2>1, <2>2, ServerStepPreserves
<1>2. ASSUME NEW s \in Sessions, Admit(s) \/ WorkflowStep(s) \/ AbandonCreate(s) PROVE Inv'
  BY <1>2, AdmitPreserves, EndCoordinatorPreserves, PolicyPreserves, EndDecisionPreserves
     DEF WorkflowStep
<1>3. ASSUME NEW q \in Slots, RequestStep(q) \/ Lose(q) \/ Poll(q) PROVE Inv'
  BY <1>3, ReadSessionPreserves, ReadApprovalPreserves, AskPreserves DEF RequestStep
<1>4. CASE UserStep
  BY <1>4, AskPreserves, CreatePreserves, DecidePreserves DEF UserStep
<1>5. CASE Proceed
  BY <1>5, ProceedPreserves
<1>6. CASE Restart
  BY <1>6, RestartPreserves
<1>. QED
  BY <1>1, <1>2, <1>3, <1>4, <1>5, <1>6 DEF Next

(* The invariant is inductive.                                              *)
LEMMA Invariance == Spec => []Inv
  BY InitEstablishes, NextPreserves, PTL DEF Spec

(* What is stored, shown and under way has its type, and a workflow that is *)
(* registered in active is coordinating or judging.                         *)
THEOREM DeskTypeCorrect == Spec => []TypeOK
<1>1. Inv => TypeOK
  BY DEF Inv, Types, Server, TypeOK, Request
<1>. QED
  BY <1>1, Invariance, PTL

(* A dashboard that no longer polls, while the session it shows waits for   *)
(* an approval, shows that approval: project, which calls a completed       *)
(* session with actions and no approval running, never lets a view from     *)
(* before the approval end the polling.                                     *)
THEOREM DecisionsAreOffered == Spec => []DecisionIsOffered
<1>1. Inv => DecisionIsOffered
  <2> SUFFICES ASSUME Inv, NEW s \in Sessions, shown.id = s, shown.status # "running",
                      status[s] = "awaiting_approval", approval[s] = "pending"
               PROVE  shown.approval = "pending"
    BY DEF DecisionIsOffered
  <2>1. Timely(shown, Over)
    BY DEF Inv, Knowledge
  <2>2. ~Past(s)
    BY DEF Past
  <2>. QED
    BY <2>1, <2>2 DEF Timely, Over
<1>. QED
  BY <1>1, Invariance, PTL
-----------------------------------------------------------------------------
(* What OutcomeIsLearnt rests on, apart from fairness: a session that has   *)
(* ended stays so, and no request waits for what will not come.             *)

(* getSession would answer that the session is no longer running.           *)
Ended(s) == Stored(s) /\ ServerView(s).status # "running"

EndIsForGood == [][\A s \in Sessions : Ended(s) => Ended(s)']_vars

(* A request that was sent is about a stored session, and what the user     *)
(* waits for, a creation or a decision, was begun.                          *)
RequestsGetOn ==
    /\ shown.id # NoSession => Stored(shown.id)
    /\ \A q \in Slots :
         /\ request[q].at \in {"sent", "half", "answered"} => Stored(request[q].id)
         /\ request[q].at = "waiting" => q = User /\ stage[request[q].id] # "none"

(* The views under way are of stored sessions as well.                      *)
Watching ==
    /\ RequestsGetOn
    /\ \A q \in Slots : request[q].view.id # NoSession => Stored(request[q].view.id)

LEMMA EndedMeans ==
  ASSUME NEW s \in Sessions
  PROVE  Ended(s) <=> /\ Stored(s) /\ status[s] # "running"
                      /\ status[s] = "completed" /\ HasAction(s) => approval[s] # "none"
  BY DEF Ended, ServerView, Project, Projected, View

(* What is not told here of a session leaves it as it is.                   *)
LEMMA SessionStands ==
  ASSUME NEW s \in Sessions, Ended(s), stage'[s] = stage[s], status'[s] = status[s],
         approval'[s] = approval[s], outcome'[s] = outcome[s]
  PROVE  Ended(s)'
<1>1. Stored(s)' /\ (HasAction(s)' <=> HasAction(s))
  BY EndedMeans DEF Stored, HasAction
<1>. QED
  BY <1>1 DEF Ended, ServerView, Project, Projected, View

LEMMA EndedStands == ASSUME Inv, [Next]_vars, NEW s \in Sessions, Ended(s) PROVE Ended(s)'
<1>1. /\ Stored(s) /\ status[s] # "running"
      /\ status[s] = "completed" /\ HasAction(s) => approval[s] # "none"
      /\ stage[s] \notin {"none", "admitted", "started", "coordinating", "abandoned"}
  BY EndedMeans DEF Inv, Stages, Stored
<1>2. ASSUME UNCHANGED <<outcome, stage, status, approval>> PROVE Ended(s)'
  BY <1>2, SessionStands
<1>3. ASSUME NEW r \in Sessions,
             Admit(r) \/ WorkflowStep(r) \/ AbandonCreate(r) \/ Create(r)
      PROVE  Ended(s)'
  <2>1. CASE r # s
    <3>1. /\ stage'[s] = stage[s] /\ status'[s] = status[s]
          /\ approval'[s] = approval[s] /\ outcome'[s] = outcome[s]
      BY <1>3, <2>1 DEF Inv, Types, Server, Admit, WorkflowStep, AbandonCreate, Create, Store,
         Register, EndCoordinator, SaveApproval, EndPolicy, EndDecision
    <3>. QED
      BY <3>1, SessionStands
  <2>2. CASE r = s
    <3>1. SaveApproval(s) \/ EndPolicy(s) \/ EndDecision(s)
      BY <1>1, <1>3, <2>2 DEF Admit, MayAdmit, WorkflowStep, AbandonCreate, Create, Store, Register,
         EndCoordinator
    <3>2. CASE SaveApproval(s)
      <4>1. /\ UNCHANGED <<outcome, stage, status>> /\ approval'[s] = "pending"
        BY <3>2 DEF SaveApproval, Inv, Types, Server
      <4>. QED
        BY <1>1, <4>1 DEF Ended, ServerView, Project, Projected, View, Stored, HasAction
    <3>3. CASE EndPolicy(s)
      <4>1. approval[s] # "none"
        BY <1>1, <3>3 DEF EndPolicy, Inv, Stages
      <4>2. /\ stage'[s] = "settled" /\ approval'[s] = approval[s]
            /\ status'[s] = FinalStatus(s)
        BY <3>3 DEF EndPolicy, Inv, Types, Server
      <4>3. FinalStatus(s) # "running"
        BY DEF FinalStatus
      <4>. QED
        BY <4>1, <4>2, <4>3 DEF Ended, ServerView, Project, Projected, View, Stored
    <3>4. CASE EndDecision(s)
      <4>1. /\ stage'[s] = "settled" /\ approval'[s] = approval[s] /\ approval[s] # "none"
            /\ status'[s] \in {"completed", "failed", "degraded"}
        BY <3>4 DEF EndDecision, Inv, Types, Server
      <4>. QED
        BY <4>1 DEF Ended, ServerView, Project, Projected, View, Stored
    <3>. QED
      BY <3>1, <3>2, <3>3, <3>4
  <2>. QED
    BY <2>1, <2>2
<1>4. ASSUME NEW choice \in {"approved", "denied"}, Decide(choice) PROVE Ended(s)'
  <2>1. CASE shown.id # s
    <3>1. /\ stage'[s] = stage[s] /\ approval'[s] = approval[s] /\ UNCHANGED <<status, outcome>>
      BY <1>4, <2>1 DEF Decide, Inv, Types, Server
    <3>. QED
      BY <3>1, SessionStands
  <2>2. CASE shown.id = s
    <3>1. stage'[s] = "deciding" /\ approval'[s] = choice /\ UNCHANGED status
      BY <1>4, <2>2 DEF Decide, Inv, Types, Server
    <3>. QED
      BY <1>1, <3>1 DEF Ended, ServerView, Project, Projected, View, Stored
  <2>. QED
    BY <2>1, <2>2
<1>5. CASE Restart
  <2>1. PICK end \in {"completed", "failed", "awaiting_approval"} :
          status'[s] = IF status[s] = "running" THEN "failed"
                       ELSE IF status[s] = "awaiting_approval" /\ approval[s] = "approved"
                            THEN end ELSE status[s]
    BY <1>5 DEF Restart
  <2>2. stage'[s] = "settled" /\ UNCHANGED <<outcome, approval>>
    BY <1>1, <1>5 DEF Restart
  <2>. QED
    BY <1>1, <2>1, <2>2 DEF Ended, ServerView, Project, Projected, View, Stored, HasAction
<1>6. ASSUME NEW q \in Slots, RequestStep(q) \/ Lose(q) \/ Poll(q) PROVE Ended(s)'
  BY <1>6, <1>2 DEF RequestStep, ReadSession, ReadApproval, Arrive, Lose, Poll, serverVars
<1>7. CASE (\E r \in Sessions : Open(r)) \/ Proceed \/ UNCHANGED vars
  BY <1>7, <1>2 DEF Open, Proceed, vars, serverVars
<1>. QED
  BY <1>3, <1>4, <1>5, <1>6, <1>7 DEF Next, UserStep

(* A session whose view once said that it is not running is never called    *)
(* running again, whatever its policy, a decision or a restart do to its    *)
(* status: so a poll that is sent after its end says so.                    *)
THEOREM EndsAreFinal == Spec => EndIsForGood
<1>1. Inv /\ [Next]_vars => [\A s \in Sessions : Ended(s) => Ended(s)']_vars
  BY EndedStands
<1>. QED
  BY <1>1, Invariance, PTL DEF Spec, EndIsForGood

(* What is stored stays so.                                                 *)
LEMMA StoredStands ==
  ASSUME Inv, [Next]_vars, NEW s \in Sessions, Stored(s) PROVE Stored(s)'
<1>1. stage[s] \notin {"none", "admitted"}
  BY DEF Stored
<1>2. CASE stage' = stage
  BY <1>1, <1>2 DEF Stored
<1>3. ASSUME NEW r \in Sessions, NEW to, stage' = [stage EXCEPT ![r] = to],
             to \in {"none", "admitted"} => stage[r] = "none"
      PROVE  Stored(s)'
  <2>1. stage'[s] = (IF r = s THEN to ELSE stage[s])
    BY <1>3 DEF Inv, Types, Server
  <2>. QED
    BY <1>1, <1>3, <2>1 DEF Stored
<1>4. ASSUME NEW r \in Sessions,
             Admit(r) \/ WorkflowStep(r) \/ AbandonCreate(r) \/ Create(r)
      PROVE  Stored(s)'
  BY <1>2, <1>3, <1>4 DEF Admit, MayAdmit, WorkflowStep, AbandonCreate, Create, Store,
         Register, EndCoordinator, SaveApproval, EndPolicy, EndDecision
<1>5. ASSUME NEW choice \in {"approved", "denied"}, Decide(choice) PROVE Stored(s)'
  <2>1. shown.id \in Sessions
    BY <1>5 DEF Decide, Inv, Types, Views, Empty, View
  <2>. QED
    BY <1>3, <1>5, <2>1 DEF Decide
<1>6. CASE Restart
  BY <1>1, <1>6 DEF Restart, Stored
<1>7. ASSUME NEW q \in Slots, RequestStep(q) \/ Lose(q) \/ Poll(q) PROVE Stored(s)'
  BY <1>7, <1>2 DEF RequestStep, ReadSession, ReadApproval, Arrive, Lose, Poll, serverVars
<1>8. CASE (\E r \in Sessions : Open(r)) \/ Proceed \/ UNCHANGED vars
  BY <1>8, <1>2 DEF Open, Proceed, vars, serverVars
<1>. QED
  BY <1>4, <1>5, <1>6, <1>7, <1>8 DEF Next, UserStep

(* What a slot may hold.                                                    *)
Proper(r) == /\ r.at \in {"sent", "half", "answered"} => Stored(r.id)
             /\ r.at = "waiting" => stage[r.id] # "none"
             /\ r.view.id # NoSession => Stored(r.view.id)

(* The steps of one slot.                                                   *)
LEMMA SlotStep ==
  ASSUME Inv, Inv', [Next]_vars, Watching, NEW q \in Slots, NEW new,
         request' = [request EXCEPT ![q] = new], Proper(new)',
         new.at = "waiting" => q = User,
         \A r \in Slots : request[r].at = "waiting" => stage'[request[r].id] # "none",
         shown' \in {shown, request[q].view}
  PROVE  Watching'
<1>1. \A s \in Sessions : Stored(s) => Stored(s)'
  BY StoredStands
<1>2. \A r \in Slots : request'[r] = (IF r = q THEN new ELSE request[r])
  BY DEF Inv, Types
<1>3. \A r \in Slots : /\ request[r].id \in Sessions \cup {NoSession}
                       /\ request[r].view.id \in Sessions \cup {NoSession}
                       /\ request[r].at # "idle" => request[r].id \in Sessions
  BY DEF Inv, Types, Request, Views
<1>4. shown.id \in Sessions \cup {NoSession}
  BY DEF Inv, Types, Views
<1>5. shown'.id # NoSession => Stored(shown.id)'
  BY <1>1, <1>3, <1>4 DEF Watching, RequestsGetOn
<1>6. ASSUME NEW r \in Slots
      PROVE  /\ request'[r].at \in {"sent", "half", "answered"} => Stored(request[r].id)'
             /\ request'[r].at = "waiting" => r = User /\ stage'[request'[r].id] # "none"
             /\ request'[r].view.id # NoSession => Stored(request[r].view.id)'
  <2>1. CASE r = q
    BY <1>2, <2>1 DEF Proper, Stored
  <2>2. CASE r # q
    <3>1. request'[r] = request[r]
      BY <1>2, <2>2
    <3>2. /\ request[r].at \in {"sent", "half", "answered"} =>
               Stored(request[r].id) /\ request[r].id \in Sessions
          /\ request[r].view.id # NoSession =>
               Stored(request[r].view.id) /\ request[r].view.id \in Sessions
          /\ request[r].at = "waiting" => r = User /\ stage'[request[r].id] # "none"
      BY <1>3 DEF Watching, RequestsGetOn
    <3>. QED
      BY <1>1, <3>1, <3>2 DEF Stored
  <2>. QED
    BY <2>1, <2>2
<1>. QED
  BY <1>5, <1>6 DEF Watching, RequestsGetOn

(* Short of a restart, what was begun stays so.                             *)
LEMMA BegunStands ==
  ASSUME Inv, [Next]_vars, ~Restart, NEW s \in Sessions, stage[s] # "none"
  PROVE  stage'[s] # "none"
<1>1. ASSUME NEW r \in Sessions, NEW to, stage' = [stage EXCEPT ![r] = to], to # "none"
      PROVE  stage'[s] # "none"
  BY <1>1 DEF Inv, Types, Server
<1>2. ASSUME NEW r \in Sessions,
             Admit(r) \/ WorkflowStep(r) \/ AbandonCreate(r) \/ Create(r)
      PROVE  stage'[s] # "none"
  BY <1>1, <1>2 DEF Admit, MayAdmit, WorkflowStep, AbandonCreate, Create, Store,
         Register, EndCoordinator, SaveApproval, EndPolicy, EndDecision
<1>3. ASSUME NEW choice \in {"approved", "denied"}, Decide(choice) PROVE stage'[s] # "none"
  <2>1. shown.id \in Sessions
    BY <1>3 DEF Decide, Inv, Types, Views, Empty, View
  <2>. QED
    BY <1>1, <1>3, <2>1 DEF Decide
<1>4. ASSUME NEW q \in Slots, RequestStep(q) \/ Lose(q) \/ Poll(q) PROVE stage'[s] # "none"
  BY <1>4 DEF RequestStep, ReadSession, ReadApproval, Arrive, Lose, Poll, serverVars
<1>5. CASE (\E r \in Sessions : Open(r)) \/ Proceed \/ UNCHANGED vars
  BY <1>5 DEF Open, Proceed, vars, serverVars
<1>. QED
  BY <1>2, <1>3, <1>4, <1>5 DEF Next, UserStep

(* A step that leaves the requests and the dashboard alone.                 *)
LEMMA WatchingStands ==
  ASSUME Inv, Inv', [Next]_vars, ~Restart, Watching, UNCHANGED <<request, shown>>
  PROVE  Watching'
<1>1. /\ User \in Slots /\ request' = [request EXCEPT ![User] = request[User]]
  BY DEF Inv, Types, Slots
<1>2. \A r \in Slots : request[r].at = "waiting" => stage'[request[r].id] # "none"
  BY BegunStands DEF Inv, Types, Watching, RequestsGetOn
<1>3. Proper(request[User])'
  <2> DEFINE r == request[User]
  <2>1. r' = r
    OBVIOUS
  <2>2. r.view.id \in Sessions \cup {NoSession} /\ (r.at # "idle" => r.id \in Sessions)
    BY <1>1 DEF Inv, Types, Request, Views
  <2>3. r.at \in {"sent", "half", "answered"} => Stored(r.id)'
    BY <1>1, <2>2, StoredStands DEF Watching, RequestsGetOn
  <2>4. r.view.id # NoSession => Stored(r.view.id)'
    BY <1>1, <2>2, StoredStands DEF Watching
  <2>. QED
    BY <1>1, <1>2, <2>1, <2>3, <2>4 DEF Proper, Stored
<1>4. ASSUME NEW r, r = request[User] PROVE Watching'
  <2>1. Proper(r)'
    BY <1>3, <1>4 DEF Proper, Stored
  <2>. QED
    BY <1>1, <1>2, <1>4, <2>1, SlotStep DEF Watching, RequestsGetOn
<1>. QED
  BY <1>4

LEMMA WatchingStep == ASSUME Inv, Inv', [Next]_vars, Watching PROVE Watching'
<1>1. CASE Restart
  <2>1. \A q \in Slots : request'[q].at = "idle" /\ request'[q].view.id = NoSession
    BY <1>1 DEF Restart, Idle, Empty, View
  <2>2. shown' = shown /\ (shown.id # NoSession => shown.id \in Sessions)
    BY <1>1 DEF Restart, Inv, Types, Views
  <2>3. shown'.id # NoSession => Stored(shown.id)'
    BY <2>2, StoredStands DEF Watching, RequestsGetOn
  <2>. QED
    BY <2>1, <2>3 DEF Watching, RequestsGetOn
<1>. SUFFICES ASSUME ~Restart PROVE Watching'
  BY <1>1
<1>2. \A r \in Slots : request[r].at = "waiting" => stage'[request[r].id] # "none"
  BY BegunStands DEF Inv, Types, Watching, RequestsGetOn
<1>3. User \in Slots
  BY DEF Slots
<1>4. \A at \in {"sent", "waiting"}, s \in Sessions :
        /\ at = "sent" => Stored(s)'
        /\ at = "waiting" => stage'[s] # "none"
        => Proper(Sent(at, s))' /\ Sent(at, s).at = at
  BY DEF Proper, Sent, Idle, Empty, View, Stored
<1>5. Proper(Idle)' /\ Idle.at = "idle"
  BY DEF Proper, Idle, Empty, View
<1>6. ASSUME NEW s \in Sessions, Admit(s) \/ WorkflowStep(s) \/ AbandonCreate(s) PROVE Watching'
  BY <1>6, WatchingStands DEF Admit, AbandonCreate, WorkflowStep, Store, Register, EndCoordinator,
     SaveApproval, EndPolicy, EndDecision
<1>7. ASSUME NEW q \in Slots, Lose(q) \/ Arrive(q) PROVE Watching'
  BY <1>2, <1>5, <1>7, SlotStep DEF Lose, Arrive
<1>8. ASSUME NEW q \in Slots, Poll(q) PROVE Watching'
  <2>1. shown.id \in Sessions /\ Stored(shown.id)
    BY <1>8 DEF Poll, Inv, Types, Views, Watching, RequestsGetOn
  <2>2. Stored(shown.id)'
    BY <1>8, <2>1, StoredStands DEF Poll
  <2>3. PICK s \in Sessions : s = shown.id
    BY <2>1
  <2>4. Stored(s)'
    BY <1>8, <2>2, <2>3 DEF Poll, Stored, serverVars
  <2>. QED
    BY <1>2, <1>4, <1>8, <2>3, <2>4, SlotStep DEF Poll
<1>9. ASSUME NEW s \in Sessions, Open(s) PROVE Watching'
  <2>1. Stored(s)'
    BY <1>9, StoredStands DEF Open
  <2>. QED
    BY <1>2, <1>3, <1>4, <1>9, <2>1, SlotStep DEF Open
<1>10. ASSUME NEW s \in Sessions, Create(s) PROVE Watching'
  <2>1. stage'[s] # "none"
    BY <1>10 DEF Create, Inv, Types, Server
  <2>. QED
    BY <1>2, <1>3, <1>4, <1>10, <2>1, SlotStep DEF Create
<1>11. ASSUME NEW choice \in {"approved", "denied"}, Decide(choice) PROVE Watching'
  <2>1. PICK s \in Sessions : s = shown.id
    <3>1. shown.id \in Sessions
      BY <1>11 DEF Decide, Inv, Types, Views, Empty, View
    <3>. QED
      BY <3>1
  <2>2. stage'[s] # "none"
    BY <1>11, <2>1 DEF Decide, Inv, Types, Server
  <2>. QED
    BY <1>2, <1>3, <1>4, <1>11, <2>1, <2>2, SlotStep DEF Decide
<1>12. ASSUME NEW q \in Slots, ReadSession(q) \/ ReadApproval(q) PROVE Watching'
  <2>1. request[q].id \in Sessions /\ Stored(request[q].id) /\ request[q] \in Request
    BY <1>12 DEF ReadSession, ReadApproval, Inv, Types, Watching, RequestsGetOn
  <2>2. PICK s \in Sessions : s = request[q].id /\ Stored(s)
    BY <2>1
  <2>3. Stored(s)'
    BY <2>2, StoredStands
  <2>4. CASE ReadSession(q)
    <3> DEFINE new == [request[q] EXCEPT !.at = "half", !.read = status[request[q].id]]
    <3>1. request' = [request EXCEPT ![q] = new] /\ shown' = shown
      BY <2>4 DEF ReadSession, Inv, Types
    <3>2. new.at = "half" /\ new.id = s /\ new.view = request[q].view
      BY <2>1, <2>2 DEF Request
    <3>3. request[q].view.id # NoSession =>
            request[q].view.id \in Sessions /\ Stored(request[q].view.id)
      BY DEF Inv, Types, Request, Views, Watching
    <3>4. PICK v : v = request[q].view /\ (v.id # NoSession => Stored(v.id)')
      BY <2>4, <3>3, StoredStands DEF ReadSession, Stored, serverVars
    <3>. HIDE DEF new
    <3>5. ASSUME NEW n, n = new PROVE Watching'
      <4>1. Proper(n)'
        BY <2>3, <3>2, <3>4, <3>5 DEF Proper, Stored
      <4>. QED
        BY <1>2, <3>1, <3>2, <3>5, <4>1, SlotStep
    <3>. QED
      BY <3>5
  <2>5. CASE ReadApproval(q)
    <3> DEFINE view == Project(request[q].id, request[q].read, approval[request[q].id])
               new == [request[q] EXCEPT !.at = "answered", !.view = view]
    <3>1. request' = [request EXCEPT ![q] = new] /\ shown' = shown
      BY <2>5 DEF ReadApproval, Inv, Types
    <3>2. view.id = s
      BY <2>2 DEF Project, View
    <3>. HIDE DEF view
    <3>3. new.at = "answered" /\ new.id = s /\ new.view.id = s
      BY <2>1, <2>2, <3>2 DEF Request
    <3>. HIDE DEF new
    <3>4. ASSUME NEW n, n = new PROVE Watching'
      <4>1. Proper(n)'
        BY <2>3, <3>3, <3>4 DEF Proper, Stored
      <4>. QED
        BY <1>2, <3>1, <3>3, <3>4, <4>1, SlotStep
    <3>. QED
      BY <3>4
  <2>. QED
    BY <1>12, <2>4, <2>5
<1>13. CASE Proceed
  <2>1. /\ request[User].at = "waiting" /\ request[User] \in Request
        /\ request[User].id \in Sessions /\ shown' = shown
    BY <1>3, <1>13 DEF Proceed, Inv, Types
  <2>2. CASE request' = [request EXCEPT ![User] = Idle]
    BY <1>2, <1>3, <1>5, <2>1, <2>2, SlotStep
  <2>3. CASE /\ stage[request[User].id] \in {"coordinating", "judging", "settled"}
             /\ request' = [request EXCEPT ![User].at = "sent"]
    <3> DEFINE new == [request[User] EXCEPT !.at = "sent"]
    <3>1. request' = [request EXCEPT ![User] = new]
      BY <1>3, <2>3 DEF Inv, Types
    <3>2. new.at = "sent" /\ new.id = request[User].id /\ new.view = request[User].view
      BY <2>1 DEF Request
    <3>3. UNCHANGED stage
      BY <1>13 DEF Proceed, serverVars
    <3>4. Stored(request[User].id)
      BY <2>3 DEF Stored
    <3>5. request[User].view.id # NoSession => Stored(request[User].view.id)
      BY <1>3 DEF Watching
    <3>. HIDE DEF new
    <3>6. ASSUME NEW n, n = new PROVE Watching'
      <4>1. Proper(n)'
        BY <3>2, <3>3, <3>4, <3>5, <3>6 DEF Proper, Stored
      <4>. QED
        BY <1>2, <1>3, <2>1, <3>1, <3>2, <3>6, <4>1, SlotStep
    <3>. QED
      BY <3>6
  <2>. QED
    BY <1>13, <2>2, <2>3 DEF Proceed
<1>14. CASE UNCHANGED vars
  BY <1>14, WatchingStands DEF vars
<1>. QED
  BY <1>6, <1>7, <1>8, <1>9, <1>10, <1>11, <1>12, <1>13, <1>14 DEF Next, UserStep, RequestStep

(* Whatever requests were lost, answers came late or server died: what the  *)
(* dashboard shows is stored, so that its poll is answered, no request that *)
(* was sent is about what is not there, and the user only ever waits for a  *)
(* creation or a decision that was begun.                                   *)
THEOREM DashboardGetsOn == Spec => []RequestsGetOn
<1>1. Init => Watching
  BY DEF Init, Watching, RequestsGetOn, Idle, Empty, View
<1>2. Inv /\ Inv' /\ [Next]_vars /\ Watching => Watching'
  BY WatchingStep
<1>3. Watching => RequestsGetOn
  BY DEF Watching
<1>. QED
  BY <1>1, <1>2, <1>3, Invariance, PTL DEF Spec
=============================================================================
