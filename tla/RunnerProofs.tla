----------------------------- MODULE RunnerProofs -----------------------------
(***************************************************************************)
(* Proofs about the two parts between the server and the program that is   *)
(* an Agent: GeminiConversations, for any number of requests and restarts  *)
(* and every set of ids and of functions, and ContainerRunner, for any     *)
(* number of runs and of failing removals.                                 *)
(***************************************************************************)
EXTENDS GeminiConversations, ContainerRunner, WellFoundedInduction, TLAPS

USE BoundsAssumption

(* The inductive invariant.                                                 *)

Types ==
    /\ conversations \in [Requests -> Seq(Messages) \cup {None}]
    /\ pc \in [Requests -> {"idle", "fetching", "answered", "refused", "lost"}]
    /\ previous \in [Requests -> Requests \cup {None}]
    /\ sent \in [Requests -> Seq(Messages)]
    /\ answer \in [Requests -> SUBSET ((CallIds \cup Requests) \X Functions)]
    /\ born \in [Requests -> 0..restarts]
    /\ restarts \in 0..MaxRestarts

(* Transcripts are of answered requests; the process has those it made.     *)
Remembered ==
    \A r \in Requests :
        /\ conversations[r] # None => pc[r] = "answered" /\ conversations[r] = Told(r)
        /\ pc[r] = "answered" /\ born[r] = restarts => conversations[r] # None

(* Only what was answered is followed, and nothing before its turn.         *)
Followed ==
    \A r \in Requests : previous[r] # None => pc[previous[r]] = "answered" /\ pc[r] # "idle"

Inv == Types /\ Remembered /\ Followed /\ ContextIsWhole
-----------------------------------------------------------------------------
(* The last of a set of positions is one of them.                           *)
LEMMA LargestIndex ==
  ASSUME NEW n \in Nat, NEW S \in SUBSET (1..n), S # {}
  PROVE  Max(S) \in S
<1> DEFINE R == OpToRel(<, Nat)
           T == {n - i : i \in S}
<1>1. T \subseteq Nat /\ T # {}
  <2>1. \A i \in S : i \in Nat /\ i <= n
    OBVIOUS
  <2>2. \A i \in S : n - i \in Nat
    BY <2>1
  <2>. QED
    BY <2>2
<1>2. PICK x \in T : \A y \in T : ~(<<y, x>> \in R)
  BY <1>1, NatLessThanWellFounded, WFMin
<1>3. \A y \in T : <<y, x>> \in R <=> y < x
  BY <1>1 DEF OpToRel
<1> HIDE DEF R
<1>4. \A y \in T : ~(y < x)
  BY <1>2, <1>3
<1>5. PICK m \in S : x = n - m
  OBVIOUS
<1>6. \A i \in S : m >= i
  <2> SUFFICES ASSUME NEW i \in S PROVE m >= i
    OBVIOUS
  <2>1. i \in Int /\ m \in Int
    OBVIOUS
  <2>2. ~(n - i < x)
    BY <1>4
  <2>. QED
    BY <2>1, <2>2, <1>5
<1>. QED
  BY <1>6 DEF Max

(* The invariant gives the types TLC checks.                                *)
LEMMA TypesGiven == Types /\ Remembered => TypeOK
<1> SUFFICES ASSUME Types, Remembered PROVE TypeOK
  OBVIOUS
<1>1. \A r \in Requests : Range(sent[r]) \subseteq Messages
  <2> TAKE r \in Requests
  <2>1. sent[r] \in Seq(Messages)
    BY DEF Types
  <2>. QED
    BY <2>1 DEF Range
<1>. QED
  BY <1>1 DEF Types, Remembered, TypeOK, Told

(* What is prior to a request, whichever it names, is a transcript.         *)
LEMMA PriorType ==
  ASSUME Types, NEW p \in Requests \cup {None} PROVE Prior(p) \in Seq(Messages)
  BY DEF Types, Prior

(* Where a transcript has calls of an id.                                   *)
CallsBy(told, id) == {i \in DOMAIN told : \E c \in told[i].calls : c[1] = id}

(* Every id that some message's calls have is given a name, by the last of  *)
(* those messages.                                                          *)
LEMMA NamesAreOfLastCalls ==
  ASSUME NEW told \in Seq(Messages), NEW id, CallsBy(told, id) # {}
  PROVE  /\ id \in DOMAIN FunctionNames(told)
         /\ <<id, FunctionNames(told)[id]>> \in told[Max(CallsBy(told, id))].calls
<1> DEFINE calls == CallsBy(told, id)
           c0 == CHOOSE c \in told[Max(calls)].calls : c[1] = id
<1>1. Len(told) \in Nat /\ DOMAIN told = 1..Len(told)
  OBVIOUS
<1>2. Max(calls) \in calls
  <2>1. calls \in SUBSET (1..Len(told)) /\ calls # {}
    BY <1>1 DEF CallsBy
  <2>. HIDE DEF calls
  <2>. QED
    BY <1>1, <2>1, LargestIndex
<1>3. \E c \in told[Max(calls)].calls : c[1] = id
  BY <1>2 DEF CallsBy
<1>4. c0 \in told[Max(calls)].calls /\ c0[1] = id
  BY <1>3
<1>5. Max(calls) \in DOMAIN told /\ told[Max(calls)] \in Messages
  <2>1. Max(calls) \in DOMAIN told
    BY <1>2 DEF CallsBy
  <2>. HIDE DEF calls
  <2>. QED
    BY <2>1
<1>6. c0 = <<id, c0[2]>>
  <2>1. told[Max(calls)].calls \subseteq (CallIds \cup Requests) \X Functions
    BY <1>5 DEF Messages
  <2>. HIDE DEF c0, calls
  <2>. QED
    BY <2>1, <1>4
<1>7. /\ id \in DOMAIN FunctionNames(told)
      /\ FunctionNames(told)[id] = c0[2]
  <2>1. id \in UNION {{c[1] : c \in told[i].calls} : i \in DOMAIN told}
    BY <1>4, <1>5
  <2>. QED
    BY <2>1 DEF FunctionNames, CallsBy
<1>. QED
  BY <1>4, <1>6, <1>7

(* The names a transcript gives are names of functions.                     *)
LEMMA NamesAreFunctions ==
  ASSUME NEW told \in Seq(Messages), NEW id \in DOMAIN FunctionNames(told)
  PROVE  FunctionNames(told)[id] \in Functions
<1> DEFINE calls == CallsBy(told, id)
<1>1. calls # {}
  <2>1. id \in UNION {{c[1] : c \in told[i].calls} : i \in DOMAIN told}
    BY DEF FunctionNames
  <2>. QED
    BY <2>1 DEF CallsBy
<1>2. <<id, FunctionNames(told)[id]>> \in told[Max(calls)].calls
  BY <1>1, NamesAreOfLastCalls
<1>3. Max(calls) \in DOMAIN told
  <2>1. Len(told) \in Nat /\ DOMAIN told = 1..Len(told)
    OBVIOUS
  <2>2. calls \in SUBSET (1..Len(told)) /\ calls # {}
    BY <1>1, <2>1 DEF CallsBy
  <2>3. Max(calls) \in calls
    <3>. HIDE DEF calls
    <3>. QED
      BY <2>1, <2>2, LargestIndex
  <2>. QED
    BY <2>3 DEF CallsBy
<1>. HIDE DEF calls
<1>4. told[Max(calls)] \in Messages
  BY <1>3
<1>5. told[Max(calls)].calls \subseteq (CallIds \cup Requests) \X Functions
  BY <1>4 DEF Messages
<1>. QED
  BY <1>2, <1>5

(* Whatever comes in is a message to the service.                           *)
LEMMA InputType ==
  ASSUME NEW told \in Seq(Messages), NEW item \in CallIds \cup Requests \cup {None}
  PROVE  /\ Input(item, FunctionNames(told)) \in Messages
         /\ Input(item, FunctionNames(told)).id = item
         /\ item # None /\ item \in DOMAIN FunctionNames(told) =>
              Input(item, FunctionNames(told)).name = FunctionNames(told)[item]
<1>1. item \in DOMAIN FunctionNames(told) => FunctionNames(told)[item] \in Functions
  BY NamesAreFunctions
<1> DEFINE names == FunctionNames(told)
<1>. HIDE DEF names
<1>. QED
  BY <1>1 DEF Input, Said, Result, Messages, names

(* An answer is a message, so the transcript it ends is one.                *)
LEMMA TranscriptType ==
  ASSUME NEW told \in Seq(Messages),
         NEW calls \in SUBSET ((CallIds \cup Requests) \X Functions)
  PROVE  Append(told, Assistant(calls)) \in Seq(Messages)
<1>1. Assistant(calls) \in Messages
  BY DEF Assistant, Said, Messages
<1>. QED
  BY <1>1

LEMMA InitEstablishes == Init => Inv
<1> SUFFICES ASSUME Init PROVE Inv
  OBVIOUS
<1>1. Types
  BY DEF Init, Types
<1>2. Remembered /\ Followed
  BY DEF Init, Remembered, Followed
<1>3. ContextIsWhole
  BY DEF Init, ContextIsWhole
<1>. QED
  BY <1>1, <1>2, <1>3 DEF Inv

(* Refusals, by the adapter or by the service.                              *)
LEMMA RefusePreserves == ASSUME Inv, NEW r \in Requests, Refuse(r) \/ Fail(r) PROVE Inv'
<1>. USE DEF Inv
<1>1. /\ pc[r] \in {"idle", "fetching"} /\ pc' = [pc EXCEPT ![r] = "refused"]
      /\ UNCHANGED <<conversations, previous, sent, answer, born, restarts>>
  BY DEF Refuse, Fail
<1>2. Types'
  BY <1>1 DEF Types
<1>3. Remembered'
  BY <1>1 DEF Types, Remembered, Told
<1>4. Followed'
  BY <1>1 DEF Types, Followed
<1>5. ContextIsWhole'
  BY <1>1 DEF ContextIsWhole, Told
<1>. QED
  BY <1>2, <1>3, <1>4, <1>5

(* A new request: if it follows a response of this process, that response's *)
(* transcript is there, since it was answered.                              *)
LEMMA BeginPreserves ==
  ASSUME Inv, NEW r \in Requests, NEW p \in Requests \cup {None},
         NEW item \in CallIds \cup Requests \cup {None}, Begin(r, p, item)
  PROVE  Inv'
<1>. USE DEF Inv
<1> DEFINE input == Input(item, FunctionNames(Prior(p)))
           system == Said("system")
<1>1. Prior(p) \in Seq(Messages)
  BY PriorType
<1>2. input \in Messages /\ system \in Messages
  <2>1. system \in Messages
    BY DEF Said, Messages
  <2>. QED
    BY <1>1, <2>1, InputType
<1>3. /\ pc[r] = "idle" /\ pc' = [pc EXCEPT ![r] = "fetching"]
      /\ p # None => pc[p] = "answered"
      /\ previous' = [previous EXCEPT ![r] = p]
      /\ sent' = [sent EXCEPT ![r] = Prior(p) \o <<system, input>>]
      /\ born' = [born EXCEPT ![r] = restarts]
      /\ UNCHANGED <<conversations, answer, restarts>>
  BY DEF Begin
<1>. HIDE DEF input, system
<1>4. Prior(p) \o <<system, input>> \in Seq(Messages)
  BY <1>1, <1>2
<1>5. Types'
  <2>1. restarts \in 0..restarts
    BY DEF Types
  <2>. QED
    BY <1>3, <1>4, <2>1 DEF Types
<1>6. Remembered'
  BY <1>3 DEF Types, Remembered, Told
<1>7. Followed'
  BY <1>3, NoneAssumption DEF Types, Followed
<1>8. ContextIsWhole'
  <2>1. ASSUME NEW q \in Requests, q # r, previous[q] # None
        PROVE  born'[q] = born'[previous[q]] => Continues(sent'[q], Told(previous[q])')
    <3>1. previous'[q] = previous[q] /\ sent'[q] = sent[q] /\ born'[q] = born[q]
      BY <1>3, <2>1 DEF Types
    <3>2. PICK s \in Requests : s = previous[q]
      BY <2>1 DEF Types
    <3>3. s # r
      BY <1>3, <2>1, <3>2 DEF Followed
    <3>4. sent'[s] = sent[s] /\ born'[s] = born[s] /\ answer'[s] = answer[s]
      BY <1>3, <3>3 DEF Types
    <3>5. Told(s)' = Told(s)
      BY <3>4 DEF Told
    <3>6. Told(previous[q])' = Told(s)
      BY <3>1, <3>2, <3>5 DEF Told
    <3>7. born[q] = born[s] => Continues(sent[q], Told(s))
      BY <2>1, <3>2 DEF ContextIsWhole
    <3>. QED
      BY <3>1, <3>2, <3>4, <3>6, <3>7
  <2>2. ASSUME p # None, born'[r] = born'[p] PROVE Continues(sent'[r], Told(p)')
    <3> DEFINE told == Told(p)
               calls == CallsBy(told, item)
    <3>1. p \in Requests /\ p # r /\ pc[p] = "answered" /\ born[p] = restarts
      BY <1>3, <2>2 DEF Types
    <3>2. Prior(p) = told
      BY <3>1, <2>2 DEF Remembered, Prior
    <3>3. told' = told
      BY <1>3, <3>1 DEF Types, Told
    <3>. HIDE DEF told
    <3>4. sent'[r] = told \o <<system, input>>
      BY <1>3, <3>2 DEF Types
    <3>5. told \in Seq(Messages)
      BY <1>1, <3>2
    <3>6. Last(sent'[r]) = input
      BY <3>4, <3>5 DEF Last
    <3>7. IsPrefix(told, sent'[r])
      BY <3>4, <3>5 DEF IsPrefix
    <3>8. input.id = item
      BY <3>5, <3>2, InputType DEF input
    <3>9. ASSUME calls # {} PROVE <<item, input.name>> \in told[Max(calls)].calls
      <4>1. /\ item \in DOMAIN FunctionNames(told)
            /\ <<item, FunctionNames(told)[item]>> \in told[Max(calls)].calls
        BY <3>5, <3>9, NamesAreOfLastCalls
      <4>2. item # None
        <5>1. PICK i \in DOMAIN told : \E c \in told[i].calls : c[1] = item
          BY <3>9 DEF CallsBy
        <5>2. told[i] \in Messages
          BY <3>5
        <5>3. told[i].calls \subseteq (CallIds \cup Requests) \X Functions
          BY <5>2 DEF Messages
        <5>. QED
          BY <5>1, <5>3, NoneAssumption
      <4>3. input.name = FunctionNames(told)[item]
        BY <4>1, <4>2, <3>2, <3>5, InputType DEF input
      <4>. QED
        BY <4>1, <4>3
    <3>10. Continues(sent'[r], told)
      BY <3>6, <3>7, <3>8, <3>9 DEF Continues, CallsBy
    <3>. QED
      BY <3>3, <3>10 DEF told
  <2>3. previous'[r] = p /\ \A q \in Requests : q # r => previous'[q] = previous[q]
    BY <1>3 DEF Types
  <2>. SUFFICES ASSUME NEW q \in Requests, previous'[q] # None, born'[q] = born'[previous'[q]]
                PROVE  Continues(sent'[q], Append(sent'[previous'[q]], Assistant(answer'[previous'[q]])))
    BY DEF ContextIsWhole, Told
  <2>4. CASE q = r
    BY <2>2, <2>3, <2>4 DEF Told
  <2>5. CASE q # r
    BY <2>1, <2>3, <2>5 DEF Told
  <2>. QED
    BY <2>4, <2>5
<1>. QED
  BY <1>5, <1>6, <1>7, <1>8

(* An answer: its transcript is kept, and nobody has followed it yet.       *)
LEMMA RespondPreserves ==
  ASSUME Inv, NEW r \in Requests,
         NEW calls \in SUBSET ((CallIds \cup Requests) \X Functions), Respond(r, calls)
  PROVE  Inv'
<1>. USE DEF Inv
<1>1. /\ pc[r] = "fetching" /\ pc' = [pc EXCEPT ![r] = "answered"]
      /\ answer' = [answer EXCEPT ![r] = calls]
      /\ conversations' = [conversations EXCEPT ![r] = Append(sent[r], Assistant(calls))]
      /\ UNCHANGED <<previous, sent, born, restarts>>
  BY DEF Respond, Transcript
<1>2. Append(sent[r], Assistant(calls)) \in Seq(Messages)
  BY TranscriptType DEF Types
<1>3. Types'
  BY <1>1, <1>2 DEF Types
<1>4. Remembered'
  <2>1. Append(sent[r], Assistant(calls)) # None
    BY <1>2, NoneAssumption
  <2>. QED
    BY <1>1, <2>1 DEF Types, Remembered, Told
<1>5. Followed'
  BY <1>1 DEF Types, Followed
<1>6. ContextIsWhole'
  <2>1. ASSUME NEW q \in Requests, previous[q] # None PROVE Told(previous[q])' = Told(previous[q])
    <3>1. previous[q] \in Requests /\ previous[q] # r
      BY <1>1, <2>1 DEF Types, Followed
    <3>. QED
      BY <1>1, <3>1 DEF Types, Told
  <2>. QED
    BY <1>1, <2>1 DEF ContextIsWhole
<1>. QED
  BY <1>3, <1>4, <1>5, <1>6

(* A restart takes the transcripts, and with them every claim on the next   *)
(* process: no request of it has yet been born.                             *)
LEMMA RestartPreserves == ASSUME Inv, Restart PROVE Inv'
<1>. USE DEF Inv, Restart
<1>1. Types'
  <2>1. born' \in [Requests -> 0..restarts']
    <3>1. \A r \in Requests : born[r] \in 0..restarts
      BY DEF Types
    <3>2. restarts \in Int /\ restarts' = restarts + 1
      BY DEF Types
    <3>. QED
      BY <3>1, <3>2 DEF Types
  <2>2. restarts' \in 0..MaxRestarts
    BY DEF Types
  <2>. QED
    BY <2>1, <2>2 DEF Types
<1>2. Remembered'
  <2>1. \A r \in Requests : born[r] # restarts'
    BY DEF Types
  <2>. QED
    BY <2>1 DEF Remembered
<1>3. Followed'
  BY NoneAssumption DEF Types, Followed
<1>4. ContextIsWhole'
  BY DEF ContextIsWhole, Told
<1>. QED
  BY <1>1, <1>2, <1>3, <1>4

LEMMA NextPreserves == Inv /\ [Next]_vars => Inv'
<1> SUFFICES ASSUME Inv, [Next]_vars PROVE Inv'
  OBVIOUS
<1>1. CASE UNCHANGED vars
  BY <1>1 DEF vars, Inv, Types, Remembered, Followed, ContextIsWhole, Told
<1>2. ASSUME NEW r \in Requests, Refuse(r) \/ Fail(r) PROVE Inv'
  BY <1>2, RefusePreserves
<1>3. ASSUME NEW r \in Requests, NEW p \in Requests \cup {None},
             NEW item \in CallIds \cup {p, None}, Begin(r, p, item)
      PROVE  Inv'
  BY <1>3, BeginPreserves
<1>4. ASSUME NEW r \in Requests, Respond(r, {}) PROVE Inv'
  BY <1>4, RespondPreserves
<1>5. ASSUME NEW r \in Requests, NEW id \in CallIds \cup {r}, NEW name \in Functions,
             Respond(r, {<<id, name>>})
      PROVE  Inv'
  <2>1. {<<id, name>>} \in SUBSET ((CallIds \cup Requests) \X Functions)
    OBVIOUS
  <2>. QED
    BY <1>5, <2>1, RespondPreserves
<1>6. CASE Restart
  BY <1>6, RestartPreserves
<1>. QED
  BY <1>1, <1>2, <1>3, <1>4, <1>5, <1>6 DEF Next

(* The invariant is inductive.                                              *)
LEMMA Invariance == Spec => []Inv
  BY InitEstablishes, NextPreserves, PTL DEF Spec

(* Of every response that is remembered, what is remembered is what was     *)
(* sent for it and the answer, whichever requests branch off it             *)
(* (conversations in gemini-responses-adapter.ts).                          *)
THEOREM GeminiTypeCorrect == Spec => []TypeOK
<1>1. Inv => TypeOK
  BY TypesGiven DEF Inv
<1>. QED
  BY <1>1, Invariance, PTL

(* As long as the process lives, a request that follows a response is sent  *)
(* with everything that led to it, and the result of a call with the name   *)
(* of the function the service last called by that id.                      *)
THEOREM ContextsAreWhole == Spec => []ContextIsWhole
<1>1. Inv => ContextIsWhole
  BY DEF Inv
<1>. QED
  BY <1>1, Invariance, PTL
-----------------------------------------------------------------------------
(* The container runner.                                                    *)

Interrupting == {"starting", "attached"}

(* Only the run in active has a command line, and while that is attached    *)
(* the container of the Agent's name is its own.                            *)
OneContainer ==
    \A r \in Runs :
        /\ cli[r] \in Interrupting => active = r
        /\ cli[r] = "attached" => container = r

(* A removal is asked for by an interruption, and by nothing else.          *)
Removals ==
    \A r \in Runs : /\ termination[r] = "none" <=> flags[r] = {}
                    /\ r \in waiting => "cancelled" \in flags[r]

(* An outcome is that of a command line that has closed: completed with an  *)
(* answer and nothing that interrupted it, cancelled when it was, but for   *)
(* one that was never spawned.                                              *)
OutcomesAreTrue ==
    \A r \in Runs :
        /\ active = r => outcome[r] = "none" /\ cli[r] # "none"
        /\ cli[r] # "none" /\ active # r => outcome[r] # "none"
        /\ outcome[r] # "none" => cli[r] \in Ends
        /\ outcome[r] # "none" => outcome[r] = Outcome(r)

ContainerInv == RunsTypeOK /\ OneContainer /\ Removals /\ OutcomesAreTrue

(* NoRun is no run.                                                         *)
LEMMA RunsAreNumbers ==
  NoRun \notin Runs /\ \A r \in Runs : r \in Nat
BY NoRunAssumption DEF Runs

LEMMA ContainerInit == RunsInit => ContainerInv
<1>. SUFFICES ASSUME RunsInit PROVE ContainerInv
  OBVIOUS
<1>1. RunsTypeOK
  BY RunsAssumption DEF RunsInit, RunsTypeOK
<1>. QED
  BY <1>1, RunsAreNumbers DEF ContainerInv, OneContainer, Removals, OutcomesAreTrue, RunsInit,
     Interrupting

LEMMA ContainerRuns ==
  ASSUME ContainerInv, NEW r \in Runs, Run(r)
  PROVE  ContainerInv'
<1>. USE RunsAreNumbers DEF ContainerInv, Run
<1>1. cli[r] = "none" /\ cli' = [cli EXCEPT ![r] = "starting"] /\ active = NoRun /\ active' = r
  BY DEF OutcomesAreTrue
<1>2. RunsTypeOK'
  BY <1>1 DEF RunsTypeOK
<1>3. OneContainer' /\ Removals'
  BY <1>1 DEF RunsTypeOK, OneContainer, Removals, Interrupting
<1>4. OutcomesAreTrue'
  BY <1>1 DEF RunsTypeOK, OutcomesAreTrue, Outcome
<1>. QED
  BY <1>2, <1>3, <1>4

(* What the engine and the command line do: command lines go on or close,   *)
(* of the one whose container is gone at least, and removals end.           *)
ClosesSoundly ==
    /\ UNCHANGED <<active, flags, outcome, waiting>>
    /\ cli' \in [Runs -> {"none", "starting", "attached"} \cup Ends]
    /\ \A r \in Runs :
         /\ cli[r] \notin Interrupting => cli'[r] = cli[r]
         /\ cli[r] \in Interrupting => cli'[r] \in {cli[r], "attached"} \cup Ends
         /\ cli'[r] = "attached" => container' = r
    /\ container' \in Runs \cup {NoRun}
    /\ termination' \in [Runs -> {"none", "removing", "removed", "failed"}]
    /\ \A r \in Runs : termination'[r] = "none" <=> termination[r] = "none"
    /\ faults' \in 0..MaxFaults

LEMMA ClosingPreserves == ContainerInv /\ ClosesSoundly => ContainerInv'
<1>. SUFFICES ASSUME ContainerInv, ClosesSoundly PROVE ContainerInv'
  OBVIOUS
<1>. USE RunsAreNumbers DEF ContainerInv
<1>1. RunsTypeOK'
  BY DEF RunsTypeOK, ClosesSoundly
<1>2. OneContainer'
  BY DEF OneContainer, ClosesSoundly, Interrupting, Ends
<1>3. Removals'
  BY DEF Removals, ClosesSoundly
<1>4. OutcomesAreTrue'
  <2>. SUFFICES ASSUME NEW r \in Runs
                PROVE  /\ active = r => outcome[r] = "none" /\ cli'[r] # "none"
                       /\ cli'[r] # "none" /\ active # r => outcome[r] # "none"
                       /\ outcome[r] # "none" => cli'[r] \in Ends
                       /\ outcome[r] # "none" => outcome[r] = Outcome(r)'
    BY DEF OutcomesAreTrue, ClosesSoundly
  <2>1. cli[r] \in Interrupting => active = r
    BY DEF OneContainer
  <2>2. active # r => cli'[r] = cli[r]
    BY <2>1 DEF ClosesSoundly
  <2>3. active = r => cli'[r] # "none"
    BY DEF ClosesSoundly, OutcomesAreTrue, Interrupting, Ends
  <2>4. flags' = flags
    BY DEF ClosesSoundly
  <2>. QED
    BY <2>2, <2>3, <2>4 DEF OutcomesAreTrue, Outcome
<1>. QED
  BY <1>1, <1>2, <1>3, <1>4

LEMMA EngineCloses ==
  ASSUME ContainerInv, NEW r \in Runs,
         \/ Attach(r) \/ RemoveByName(r) \/ RemoveFails(r)
         \/ Kill(r) \/ ContainerEnds
  PROVE  ClosesSoundly
<1>. USE RunsAreNumbers DEF ContainerInv, RunsTypeOK, Interrupting
<1>0. \A q \in Runs : cli[q] = "attached" => container = q
  BY DEF OneContainer
<1>1. CASE Attach(r)
  BY <1>0, <1>1 DEF Attach, ClosesSoundly, Ends
<1>2. ASSUME NEW end \in Ends, cli' = Closed(container, end)
      PROVE  /\ cli' \in [Runs -> {"none", "starting", "attached"} \cup Ends]
             /\ \A q \in Runs : /\ cli[q] \notin Interrupting => cli'[q] = cli[q]
                                /\ cli'[q] \in {cli[q], "attached"} \cup Ends
                                /\ cli'[q] # "attached"
  BY <1>0, <1>2 DEF Closed, Ends
<1>3. CASE RemoveByName(r)
  <2>1. CASE container = NoRun
    BY <1>0, <1>3, <2>1 DEF RemoveByName, ClosesSoundly
  <2>2. CASE container # NoRun
    BY <1>2, <1>3, <2>2 DEF RemoveByName, ClosesSoundly, Ends
  <2>. QED
    BY <2>1, <2>2
<1>4. CASE RemoveFails(r)
  <2>1. faults' \in 0..MaxFaults
    BY <1>4, RunsAssumption DEF RemoveFails
  <2>. QED
    BY <1>0, <1>4, <2>1 DEF RemoveFails, ClosesSoundly
<1>5. CASE Kill(r)
  BY <1>0, <1>5 DEF Kill, ClosesSoundly, Ends
<1>6. CASE ContainerEnds
  BY <1>2, <1>6 DEF ContainerEnds, ClosesSoundly
<1>. QED
  BY <1>1, <1>3, <1>4, <1>5, <1>6

LEMMA ServerPreserves ==
  ASSUME ContainerInv, NEW r \in Runs,
         \/ \E cause \in Causes : Interrupt(r, cause)
         \/ Settle(r) \/ CancelReturns(r)
  PROVE  ContainerInv'
<1>. USE RunsAreNumbers DEF ContainerInv
<1>1. ASSUME NEW cause \in Causes, Interrupt(r, cause) PROVE ContainerInv'
  <2>. USE <1>1 DEF Interrupt
  <2>1. RunsTypeOK'
    <3>1. outcome[r] = "none"
      BY DEF OutcomesAreTrue
    <3>. QED
      BY <3>1 DEF RunsTypeOK, Removal
  <2>2. OneContainer'
    BY DEF OneContainer
  <2>3. Removals'
    <3>1. /\ flags'[r] = flags[r] \cup {cause} /\ termination'[r] # "none"
          /\ \A q \in Runs : q # r => /\ flags'[q] = flags[q]
                                      /\ termination'[q] = termination[q]
      BY DEF RunsTypeOK, Removal
    <3>2. waiting' = waiting \/ (waiting' = waiting \cup {r} /\ cause = "cancelled")
      OBVIOUS
    <3>. QED
      BY <3>1, <3>2 DEF Removals
  <2>4. OutcomesAreTrue'
    BY DEF OutcomesAreTrue, Outcome, RunsTypeOK
  <2>. QED
    BY <2>1, <2>2, <2>3, <2>4
<1>2. CASE Settle(r)
  <2>. USE <1>2 DEF Settle
  <2>1. RunsTypeOK'
    BY DEF RunsTypeOK, Outcome
  <2>2. OneContainer' /\ Removals'
    BY DEF OneContainer, Removals, Interrupting, Ends
  <2>3. OutcomesAreTrue'
    BY DEF OutcomesAreTrue, Outcome, RunsTypeOK
  <2>. QED
    BY <2>1, <2>2, <2>3
<1>3. CASE CancelReturns(r)
  <2>. USE <1>3 DEF CancelReturns
  <2>1. RunsTypeOK'
    BY DEF RunsTypeOK
  <2>2. OneContainer' /\ Removals' /\ OutcomesAreTrue'
    BY DEF OneContainer, Removals, OutcomesAreTrue, Outcome
  <2>. QED
    BY <2>1, <2>2
<1>. QED
  BY <1>1, <1>2, <1>3

LEMMA ContainerNext == ContainerInv /\ [RunsNext]_runsVars => ContainerInv'
<1>. SUFFICES ASSUME ContainerInv, [RunsNext]_runsVars
              PROVE  ContainerInv'
  OBVIOUS
<1>1. CASE ContainerEnds
  <2>1. container \in Runs
    BY <1>1 DEF ContainerEnds, ContainerInv, RunsTypeOK
  <2>. QED
    BY <1>1, <2>1, EngineCloses, ClosingPreserves
<1>2. ASSUME NEW r \in Runs, Run(r) PROVE ContainerInv'
  BY <1>2, ContainerRuns
<1>3. ASSUME NEW r \in Runs, Step(r) \/ RemoveFails(r)
      PROVE  ContainerInv'
  BY <1>3, EngineCloses, ClosingPreserves, ServerPreserves DEF Step
<1>4. ASSUME NEW r \in Runs, NEW cause \in Causes,
             Interrupt(r, cause)
      PROVE  ContainerInv'
  BY <1>4, ServerPreserves
<1>5. CASE UNCHANGED runsVars
  BY <1>5 DEF runsVars, ContainerInv, RunsTypeOK, OneContainer, Removals,
     OutcomesAreTrue, Outcome
<1>. QED
  BY <1>1, <1>2, <1>3, <1>4, <1>5 DEF RunsNext

(* The invariant of the container runner is inductive.                      *)
LEMMA ContainerInvariance == RunsSpec => []ContainerInv
  BY ContainerInit, ContainerNext, PTL DEF RunsSpec

(* A run that was cancelled, timed out or interrupted for its output is     *)
(* never called completed, whatever its command line came to.               *)
THEOREM ContainerTypeCorrect == RunsSpec => []RunsTypeOK
<1>1. ContainerInv => RunsTypeOK
  BY DEF ContainerInv
<1>. QED
  BY <1>1, ContainerInvariance, PTL

(* One container of the Agent at a time has a command line attached to it,  *)
(* that of the run in ContainerCodexRunner.active, however removals by name *)
(* arrive late or fail.                                                     *)
THEOREM ContainersAreExclusive == RunsSpec => []OneContainer
<1>1. ContainerInv => OneContainer
  BY DEF ContainerInv
<1>. QED
  BY <1>1, ContainerInvariance, PTL

(* When run ends, what it reports is what happened: cancelled for a cancel  *)
(* (also one that came with the time limit), completed for an answer that   *)
(* nothing interrupted.  It stays so, although removals go on.              *)
THEOREM ReportsAreTrue == RunsSpec => []OutcomesAreTrue
<1>1. ContainerInv => OutcomesAreTrue
  BY DEF ContainerInv
<1>. QED
  BY <1>1, ContainerInvariance, PTL

(* A container that is there has its command line, unless the removal of it *)
(* failed and the command line was killed.                                  *)
ContainersAreAttended ==
    \A r \in Runs : container = r =>
        cli[r] = "attached" \/ (cli[r] \in Ends /\ termination[r] = "failed")

(* What a run that has begun can come to: a container that outlives its     *)
(* removal, or the end; until then some step of it, or its time limit, is   *)
(* to come.                                                                 *)
HasEnded(r) == outcome[r] # "none" /\ container # r /\ r \notin waiting

GoesOn(r) ==
    \/ cli[r] = "starting"                                             \* Attach
    \/ active = r /\ cli[r] = "attached" /\ "timedOut" \notin flags[r]  \* Interrupt
    \/ termination[r] = "removing"                                     \* RemoveByName
    \/ termination[r] = "failed" /\ cli[r] \in Interrupting            \* Kill
    \/ active = r /\ cli[r] \in Ends                                   \* Settle
    \/ /\ r \in waiting /\ outcome[r] # "none"                         \* CancelReturns
       /\ termination[r] # "removing"

RunsGoOn ==
    \A r \in Runs :
        cli[r] # "none" => Survives(r) \/ HasEnded(r) \/ GoesOn(r)

LEMMA AttendedStep ==
  ContainerInv /\ ContainersAreAttended /\ [RunsNext]_runsVars
    => ContainersAreAttended'
<1>. SUFFICES ASSUME ContainerInv, ContainersAreAttended,
                     [RunsNext]_runsVars
              PROVE  ContainersAreAttended'
  OBVIOUS
<1>. USE RunsAreNumbers DEF ContainerInv, RunsTypeOK, ContainersAreAttended
<1>1. ASSUME NEW r \in Runs, Run(r) PROVE ContainersAreAttended'
  <2>1. cli[r] = "none"
    BY <1>1 DEF Run, OutcomesAreTrue
  <2>. QED
    BY <1>1, <2>1 DEF Run, Ends
<1>2. ASSUME NEW r \in Runs, Attach(r) PROVE ContainersAreAttended'
  BY <1>2 DEF Attach, Ends
<1>3. CASE ContainerEnds
  BY <1>3 DEF ContainerEnds
<1>4. ASSUME NEW r \in Runs, RemoveByName(r) PROVE ContainersAreAttended'
  BY <1>4 DEF RemoveByName
<1>5. ASSUME NEW r \in Runs, RemoveFails(r) PROVE ContainersAreAttended'
  BY <1>5 DEF RemoveFails
<1>6. ASSUME NEW r \in Runs, Kill(r) PROVE ContainersAreAttended'
  BY <1>6 DEF Kill, Ends
<1>7. ASSUME NEW r \in Runs, NEW cause \in Causes,
             Interrupt(r, cause)
      PROVE  ContainersAreAttended'
  BY <1>7 DEF Interrupt, Removal
<1>8. ASSUME NEW r \in Runs, Settle(r) \/ CancelReturns(r)
      PROVE  ContainersAreAttended'
  BY <1>8 DEF Settle, CancelReturns
<1>9. CASE UNCHANGED runsVars
  BY <1>9 DEF runsVars
<1>. QED
  BY <1>1, <1>2, <1>3, <1>4, <1>5, <1>6, <1>7, <1>8, <1>9 DEF RunsNext, Step

(* A run never waits for a program that need not end: at every moment it is *)
(* over, or one of the steps that RunsEnd relies on is to come, or its      *)
(* container is the one that a removal missed.                              *)
THEOREM RunsAlwaysGoOn == RunsSpec => []RunsGoOn
<1>1. RunsInit => ContainersAreAttended
  BY RunsAreNumbers DEF RunsInit, ContainersAreAttended
<1>2. ASSUME ContainerInv, ContainersAreAttended PROVE RunsGoOn
  <2>. SUFFICES ASSUME NEW r \in Runs, cli[r] # "none",
                       ~Survives(r), ~HasEnded(r)
                PROVE  GoesOn(r)
    BY DEF RunsGoOn
  <2>1. cli[r] \in {"starting", "attached"} \cup Ends
    BY <1>2 DEF ContainerInv, RunsTypeOK
  <2>2. CASE cli[r] = "starting"
    BY <2>2 DEF GoesOn
  <2>3. CASE cli[r] = "attached"
    <3>1. active = r /\ container = r
      BY <1>2, <2>3 DEF ContainerInv, OneContainer, Interrupting
    <3>2. CASE flags[r] = {}
      BY <2>3, <3>1, <3>2 DEF GoesOn
    <3>3. CASE flags[r] # {}
      <4>1. termination[r] \in {"removing", "removed", "failed"}
        BY <1>2, <3>3 DEF ContainerInv, Removals, RunsTypeOK
      <4>. QED
        BY <3>1, <4>1 DEF Survives, GoesOn
    <3>. QED
      BY <3>2, <3>3
  <2>4. CASE cli[r] \in Ends
    <3>1. active # r => outcome[r] # "none"
      BY <1>2, <2>1, <2>4 DEF ContainerInv, OutcomesAreTrue
    <3>2. container # r
      BY <1>2, <2>4 DEF ContainersAreAttended, Survives, Ends
    <3>. QED
      BY <2>4, <3>1, <3>2 DEF GoesOn, HasEnded
  <2>. QED
    BY <2>1, <2>2, <2>3, <2>4
<1>. QED
  BY <1>1, <1>2, ContainerInvariance, AttendedStep, PTL DEF RunsSpec
=============================================================================
