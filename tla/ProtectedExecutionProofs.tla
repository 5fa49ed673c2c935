----------------------- MODULE ProtectedExecutionProofs -----------------------
(***************************************************************************)
(* Proofs about ProtectedExecution, for every set of calls, actions,       *)
(* payloads and requests, any number of attempts, crashes and failing      *)
(* writes, and both e-mail providers.                                      *)
(***************************************************************************)
EXTENDS ProtectedExecution, TLAPS

USE RequestsAssumption, ProviderAssumption, AttemptsAssumption, BoundsAssumption

(* A request of a call names a key. *)
LEMMA KeyType == ASSUME TypeOK, NEW c \in Calls PROVE KeyOf(c) \in Keys
  BY DEF TypeOK, KeyOf, Key, Keys, RequestType

(* The parts of a flight, and the flight a racing call waits for. *)
LEMMA FlightType == ASSUME NEW f \in Flights PROVE f[1] \in Calls /\ f[2] \in 1..MaxAttempts
  BY DEF Flights

(* The type invariant: every variable keeps its type, and in particular no  *)
(* call ever makes more than MaxAttempts attempts (RecoveryService.run).    *)
LEMMA TypeInit == Init => TypeOK
  BY DEF Init, TypeOK, Pcs, Outcomes, Stages, LedgerStatus

LEMMA TypeStep == TypeOK /\ CallsCleared /\ [Next]_vars => TypeOK'
<1> SUFFICES ASSUME TypeOK, CallsCleared, [Next]_vars PROVE TypeOK'
  OBVIOUS
<1> USE DEF TypeOK, faultVars, approvalVars, callVars
<1>1. ASSUME NEW a \in Actions, RequestApproval(a) PROVE TypeOK'
  BY <1>1 DEF RequestApproval
<1>2. ASSUME NEW a \in Actions, NEW s \in {"approved", "denied", "invalidated"}, Decide(a, s)
      PROVE TypeOK'
  BY <1>2 DEF Decide
<1>3. ASSUME NEW c \in Calls, Begin(c) PROVE TypeOK'
  BY <1>3 DEF Begin, Pcs, Outcomes
<1>4. ASSUME NEW c \in Calls, Claim(c) PROVE TypeOK'
  BY <1>4, KeyType DEF Claim, Pcs, LedgerStatus
<1>5. ASSUME NEW c \in Calls, ReadExisting(c) PROVE TypeOK'
  BY <1>5, KeyType DEF ReadExisting, Pcs, Outcomes, LedgerStatus, Terminal
<1>6. ASSUME NEW c \in Calls, StartAttempt(c) PROVE TypeOK'
  <2>1. tries[c] + 1 \in 1..MaxAttempts
    BY <1>6 DEF StartAttempt
  <2>. QED
    BY <1>6, <2>1 DEF StartAttempt, Pcs, Stages, Flights
<1>7. ASSUME NEW c \in Calls, Settled(c) PROVE TypeOK'
  BY <1>7 DEF Settled, Backoff, Pcs, Outcomes
<1>8. ASSUME NEW c \in Calls, Timeout(c) PROVE TypeOK'
  BY <1>8 DEF Timeout, Backoff, Pcs, Outcomes
<1>9. ASSUME NEW c \in Calls, Update(c) PROVE TypeOK'
  BY <1>9 DEF Update, CallsCleared, Pcs, LedgerStatus, Terminal
<1>10. ASSUME NEW c \in Calls, LedgerWriteFails(c) PROVE TypeOK'
  BY <1>10 DEF LedgerWriteFails, DiskFault, Pcs
<1>11. ASSUME NEW f \in Flights, Deliver(f) PROVE TypeOK'
  BY <1>11, FlightType, KeyType DEF Deliver, Accept, Stages
<1>12. ASSUME NEW f \in Flights, LoseAnswer(f) PROVE TypeOK'
  BY <1>12, FlightType, KeyType DEF LoseAnswer, Accept, Stages
<1>13. ASSUME NEW f \in Flights, ServiceRefuses(f) PROVE TypeOK'
  BY <1>13 DEF ServiceRefuses, Stages
<1>14. ASSUME NEW f \in Flights, SaveReceipt(f) PROVE TypeOK'
  BY <1>14, FlightType, KeyType DEF SaveReceipt, Stages
<1>15. ASSUME NEW f \in Flights, ReceiptWriteFails(f) PROVE TypeOK'
  BY <1>15 DEF ReceiptWriteFails, DiskFault, Stages
<1>16. CASE Crash
  <2>0. up' \in BOOLEAN
    BY <1>16, Zenon DEF Crash
  <2>1. crashes' \in 0..MaxCrashes
    BY <1>16 DEF Crash
  <2>2. pc' \in [Calls -> Pcs]
    BY <1>16 DEF Crash, Pcs
  <2>3. \A x \in Stages : AfterCrash(x) \in Stages
    BY DEF AfterCrash, Stages
  <2>4. stage' \in [Flights -> Stages]
    BY <1>16, <2>3 DEF Crash
  <2>. QED
    BY <1>16, <2>0, <2>1, <2>2, <2>4 DEF Crash
<1>17. CASE Restart
  BY <1>17 DEF Restart, Reclaimed, LedgerStatus
<1>18. CASE UNCHANGED vars
  BY <1>18 DEF vars
<1>. QED
  BY <1>1, <1>2, <1>3, <1>4, <1>5, <1>6, <1>7, <1>8, <1>9, <1>10, <1>11, <1>12,
     <1>13, <1>14, <1>15, <1>16, <1>17, <1>18 DEF Next, CallStep
-----------------------------------------------------------------------------
(* What no step ever takes back: the arguments of a call, the payload an    *)
(* approval stands for, a granted approval, a claim, a receipt.             *)
Kept == /\ req' = req
        /\ approvalHash' = approvalHash
        /\ \A a \in Actions : approval[a] = "approved" => approval'[a] = "approved"
        /\ \A k \in Keys : ledger[k] # "absent" => ledger'[k] # "absent"
        /\ receipts \subseteq receipts'

LEMMA NothingTakenBack == TypeOK /\ CallsCleared /\ [Next]_vars => Kept
<1> SUFFICES ASSUME TypeOK, CallsCleared, [Next]_vars PROVE Kept
  OBVIOUS
<1> USE DEF TypeOK, Kept, faultVars, approvalVars, callVars
<1>1. ASSUME NEW a \in Actions, RequestApproval(a)
      PROVE  Kept
  BY <1>1 DEF RequestApproval
<1>2. ASSUME NEW a \in Actions, NEW s \in {"approved", "denied", "invalidated"}, Decide(a, s)
      PROVE  Kept
  BY <1>2 DEF Decide
<1>3. ASSUME NEW c \in Calls, Begin(c)
      PROVE  Kept
  BY <1>3 DEF Begin
<1>4. ASSUME NEW c \in Calls, Claim(c)
      PROVE  Kept
  BY <1>4, KeyType DEF Claim
<1>5. ASSUME NEW c \in Calls, ReadExisting(c)
      PROVE  Kept
  BY <1>5 DEF ReadExisting
<1>6. ASSUME NEW c \in Calls, StartAttempt(c)
      PROVE  Kept
  BY <1>6 DEF StartAttempt
<1>7. ASSUME NEW c \in Calls, Settled(c)
      PROVE  Kept
  BY <1>7 DEF Settled, Backoff
<1>8. ASSUME NEW c \in Calls, Timeout(c)
      PROVE  Kept
  BY <1>8 DEF Timeout, Backoff
<1>9. ASSUME NEW c \in Calls, Update(c)
      PROVE  Kept
  BY <1>9, KeyType DEF Update, CallsCleared, Terminal
<1>10. ASSUME NEW c \in Calls, LedgerWriteFails(c)
      PROVE  Kept
  BY <1>10 DEF LedgerWriteFails
<1>11. ASSUME NEW f \in Flights, Deliver(f)
      PROVE  Kept
  BY <1>11 DEF Deliver, Accept
<1>12. ASSUME NEW f \in Flights, LoseAnswer(f)
      PROVE  Kept
  BY <1>12 DEF LoseAnswer, Accept
<1>13. ASSUME NEW f \in Flights, ServiceRefuses(f)
      PROVE  Kept
  BY <1>13 DEF ServiceRefuses
<1>14. ASSUME NEW f \in Flights, SaveReceipt(f)
      PROVE  Kept
  BY <1>14 DEF SaveReceipt
<1>15. ASSUME NEW f \in Flights, ReceiptWriteFails(f)
      PROVE  Kept
  BY <1>15 DEF ReceiptWriteFails, DiskFault
<1>16. CASE Crash
  BY <1>16 DEF Crash
<1>17. CASE Restart
  BY <1>17 DEF Restart, Reclaimed
<1>18. CASE UNCHANGED vars
  BY <1>18 DEF vars
<1>. QED
  BY <1>1, <1>2, <1>3, <1>4, <1>5, <1>6, <1>7, <1>8, <1>9,
     <1>10, <1>11, <1>12, <1>13, <1>14, <1>15, <1>16, <1>17, <1>18 DEF Next, CallStep

LEMMA SatisfiedStable ==
  ASSUME TypeOK, Kept, NEW c \in Calls, Satisfied(req[c])
  PROVE  Satisfied(req[c])'
  BY DEF Kept, Satisfied, TypeOK, RequestType

(* What a cleared call may do: it is not refused, so an e-mail it carries   *)
(* has its approval.                                                        *)
LEMMA CallsClearedStep == TypeOK /\ CallsCleared /\ [Next]_vars => CallsCleared'
<1> SUFFICES ASSUME TypeOK, CallsCleared, [Next]_vars PROVE CallsCleared'
  OBVIOUS
<1> USE DEF TypeOK, CallsCleared, Live, Terminal, faultVars, approvalVars, callVars
<1>0. Kept
  BY NothingTakenBack
<1>1. ASSUME NEW a \in Actions, RequestApproval(a)
      PROVE  CallsCleared'
  BY <1>1, <1>0, SatisfiedStable DEF RequestApproval
<1>2. ASSUME NEW a \in Actions, NEW s \in {"approved", "denied", "invalidated"}, Decide(a, s)
      PROVE  CallsCleared'
  BY <1>2, <1>0, SatisfiedStable DEF Decide
<1>3. ASSUME NEW c \in Calls, Begin(c)
      PROVE  CallsCleared'
  BY <1>3, <1>0, SatisfiedStable DEF Begin, Refused, Throws, Satisfied, RequestType, Decisions
<1>4. ASSUME NEW c \in Calls, Claim(c)
      PROVE  CallsCleared'
  BY <1>4, <1>0, SatisfiedStable DEF Claim
<1>5. ASSUME NEW c \in Calls, ReadExisting(c)
      PROVE  CallsCleared'
  BY <1>5, <1>0, SatisfiedStable DEF ReadExisting
<1>6. ASSUME NEW c \in Calls, StartAttempt(c)
      PROVE  CallsCleared'
  BY <1>6, <1>0, SatisfiedStable DEF StartAttempt
<1>7. ASSUME NEW c \in Calls, Settled(c)
      PROVE  CallsCleared'
  BY <1>7, <1>0, SatisfiedStable DEF Settled, Backoff
<1>8. ASSUME NEW c \in Calls, Timeout(c)
      PROVE  CallsCleared'
  BY <1>8, <1>0, SatisfiedStable DEF Timeout, Backoff
<1>9. ASSUME NEW c \in Calls, Update(c)
      PROVE  CallsCleared'
  BY <1>9, <1>0, SatisfiedStable DEF Update
<1>10. ASSUME NEW c \in Calls, LedgerWriteFails(c)
      PROVE  CallsCleared'
  BY <1>10, <1>0, SatisfiedStable DEF LedgerWriteFails
<1>11. ASSUME NEW f \in Flights, Deliver(f)
      PROVE  CallsCleared'
  BY <1>11, <1>0, SatisfiedStable DEF Deliver, Accept
<1>12. ASSUME NEW f \in Flights, LoseAnswer(f)
      PROVE  CallsCleared'
  BY <1>12, <1>0, SatisfiedStable DEF LoseAnswer, Accept
<1>13. ASSUME NEW f \in Flights, ServiceRefuses(f)
      PROVE  CallsCleared'
  BY <1>13, <1>0, SatisfiedStable DEF ServiceRefuses
<1>14. ASSUME NEW f \in Flights, SaveReceipt(f)
      PROVE  CallsCleared'
  BY <1>14, <1>0, SatisfiedStable DEF SaveReceipt
<1>15. ASSUME NEW f \in Flights, ReceiptWriteFails(f)
      PROVE  CallsCleared'
  BY <1>15, <1>0, SatisfiedStable DEF ReceiptWriteFails, DiskFault
<1>16. CASE Crash
  BY <1>16, <1>0, SatisfiedStable DEF Crash
<1>17. CASE Restart
  BY <1>17, <1>0, SatisfiedStable DEF Restart
<1>18. CASE UNCHANGED vars
  BY <1>18, <1>0, SatisfiedStable DEF vars
<1>. QED
  BY <1>1, <1>2, <1>3, <1>4, <1>5, <1>6, <1>7, <1>8, <1>9,
     <1>10, <1>11, <1>12, <1>13, <1>14, <1>15, <1>16, <1>17, <1>18 DEF Next, CallStep

(* The same, as the calls see it: their key, clearance, claim and receipt. *)
Steady(c) == /\ KeyOf(c) \in Keys
             /\ KeyOf(c)' = KeyOf(c)
             /\ Satisfied(req[c]) => Satisfied(req[c])'
             /\ ledger[KeyOf(c)] # "absent" => ledger'[KeyOf(c)] # "absent"
             /\ KeyOf(c) \in receipts => KeyOf(c) \in receipts'

LEMMA CallsSteady == TypeOK /\ CallsCleared /\ [Next]_vars => \A c \in Calls : Steady(c)
<1> SUFFICES ASSUME TypeOK, CallsCleared, [Next]_vars, NEW c \in Calls PROVE Steady(c)
  OBVIOUS
<1>1. Kept
  BY NothingTakenBack
<1>2. KeyOf(c) \in Keys
  BY KeyType
<1>3. KeyOf(c)' = KeyOf(c)
  BY <1>1 DEF Kept, KeyOf
<1>4. Satisfied(req[c]) => Satisfied(req[c])'
  BY <1>1, SatisfiedStable
<1>. QED
  BY <1>1, <1>2, <1>3, <1>4 DEF Steady, Kept

(* An attempt starts from a claimed key and a cleared, valid request. *)
LEMMA FlightsClearedStep == TypeOK /\ CallsCleared /\ FlightsCleared /\ SingleWinner /\ [Next]_vars => FlightsCleared'
<1> SUFFICES ASSUME TypeOK, CallsCleared, FlightsCleared, SingleWinner, [Next]_vars PROVE FlightsCleared'
  OBVIOUS
<1> USE DEF TypeOK, FlightsCleared, Steady, faultVars, approvalVars, callVars
<1>0. \A c \in Calls : Steady(c)
  BY CallsSteady
<1>1. ASSUME NEW a \in Actions, RequestApproval(a)
      PROVE  FlightsCleared'
  BY <1>1, <1>0, FlightType DEF RequestApproval
<1>2. ASSUME NEW a \in Actions, NEW s \in {"approved", "denied", "invalidated"}, Decide(a, s)
      PROVE  FlightsCleared'
  BY <1>2, <1>0, FlightType DEF Decide
<1>3. ASSUME NEW c \in Calls, Begin(c)
      PROVE  FlightsCleared'
  BY <1>3, <1>0, FlightType DEF Begin
<1>4. ASSUME NEW c \in Calls, Claim(c)
      PROVE  FlightsCleared'
  BY <1>4, <1>0, FlightType DEF Claim
<1>5. ASSUME NEW c \in Calls, ReadExisting(c)
      PROVE  FlightsCleared'
  BY <1>5, <1>0, FlightType DEF ReadExisting
<1>6. ASSUME NEW c \in Calls, StartAttempt(c)
      PROVE  FlightsCleared'
  BY <1>6, <1>0, FlightType DEF StartAttempt, SingleWinner, Executing, Valid, CallsCleared, Live
<1>7. ASSUME NEW c \in Calls, Settled(c)
      PROVE  FlightsCleared'
  BY <1>7, <1>0, FlightType DEF Settled, Backoff
<1>8. ASSUME NEW c \in Calls, Timeout(c)
      PROVE  FlightsCleared'
  BY <1>8, <1>0, FlightType DEF Timeout, Backoff
<1>9. ASSUME NEW c \in Calls, Update(c)
      PROVE  FlightsCleared'
  BY <1>9, <1>0, FlightType DEF Update
<1>10. ASSUME NEW c \in Calls, LedgerWriteFails(c)
      PROVE  FlightsCleared'
  BY <1>10, <1>0, FlightType DEF LedgerWriteFails
<1>11. ASSUME NEW f \in Flights, Deliver(f)
      PROVE  FlightsCleared'
  BY <1>11, <1>0, FlightType DEF Deliver, Accept
<1>12. ASSUME NEW f \in Flights, LoseAnswer(f)
      PROVE  FlightsCleared'
  BY <1>12, <1>0, FlightType DEF LoseAnswer, Accept
<1>13. ASSUME NEW f \in Flights, ServiceRefuses(f)
      PROVE  FlightsCleared'
  BY <1>13, <1>0, FlightType DEF ServiceRefuses
<1>14. ASSUME NEW f \in Flights, SaveReceipt(f)
      PROVE  FlightsCleared'
  BY <1>14, <1>0, FlightType DEF SaveReceipt
<1>15. ASSUME NEW f \in Flights, ReceiptWriteFails(f)
      PROVE  FlightsCleared'
  BY <1>15, <1>0, FlightType DEF ReceiptWriteFails, DiskFault
<1>16. CASE Crash
  BY <1>16, <1>0, FlightType DEF Crash, AfterCrash
<1>17. CASE Restart
  BY <1>17, <1>0, FlightType DEF Restart
<1>18. CASE UNCHANGED vars
  BY <1>18, <1>0, FlightType DEF vars
<1>. QED
  BY <1>1, <1>2, <1>3, <1>4, <1>5, <1>6, <1>7, <1>8, <1>9,
     <1>10, <1>11, <1>12, <1>13, <1>14, <1>15, <1>16, <1>17, <1>18 DEF Next, CallStep

(* The compare-and-set of the claim lets one call in, and only that call    *)
(* gives the verdict.                                                       *)
LEMMA SingleWinnerStep == TypeOK /\ CallsCleared /\ SingleWinner /\ [Next]_vars => SingleWinner'
<1> SUFFICES ASSUME TypeOK, CallsCleared, SingleWinner, [Next]_vars PROVE SingleWinner'
  OBVIOUS
<1> USE DEF TypeOK, SingleWinner, Executing, Steady, faultVars, approvalVars, callVars
<1>0. \A c \in Calls : Steady(c)
  BY CallsSteady
<1>1. ASSUME NEW a \in Actions, RequestApproval(a)
      PROVE  SingleWinner'
  BY <1>1, <1>0 DEF RequestApproval
<1>2. ASSUME NEW a \in Actions, NEW s \in {"approved", "denied", "invalidated"}, Decide(a, s)
      PROVE  SingleWinner'
  BY <1>2, <1>0 DEF Decide
<1>3. ASSUME NEW c \in Calls, Begin(c)
      PROVE  SingleWinner'
  BY <1>3, <1>0 DEF Begin
<1>4. ASSUME NEW c \in Calls, Claim(c)
      PROVE  SingleWinner'
  BY <1>4, <1>0 DEF Claim, Claimable
<1>5. ASSUME NEW c \in Calls, ReadExisting(c)
      PROVE  SingleWinner'
  BY <1>5, <1>0 DEF ReadExisting
<1>6. ASSUME NEW c \in Calls, StartAttempt(c)
      PROVE  SingleWinner'
  BY <1>6, <1>0 DEF StartAttempt
<1>7. ASSUME NEW c \in Calls, Settled(c)
      PROVE  SingleWinner'
  BY <1>7, <1>0 DEF Settled, Backoff
<1>8. ASSUME NEW c \in Calls, Timeout(c)
      PROVE  SingleWinner'
  BY <1>8, <1>0 DEF Timeout, Backoff
<1>9. ASSUME NEW c \in Calls, Update(c)
      PROVE  SingleWinner'
  BY <1>9, <1>0 DEF Update
<1>10. ASSUME NEW c \in Calls, LedgerWriteFails(c)
      PROVE  SingleWinner'
  BY <1>10, <1>0 DEF LedgerWriteFails
<1>11. ASSUME NEW f \in Flights, Deliver(f)
      PROVE  SingleWinner'
  BY <1>11, <1>0 DEF Deliver, Accept
<1>12. ASSUME NEW f \in Flights, LoseAnswer(f)
      PROVE  SingleWinner'
  BY <1>12, <1>0 DEF LoseAnswer, Accept
<1>13. ASSUME NEW f \in Flights, ServiceRefuses(f)
      PROVE  SingleWinner'
  BY <1>13, <1>0 DEF ServiceRefuses
<1>14. ASSUME NEW f \in Flights, SaveReceipt(f)
      PROVE  SingleWinner'
  BY <1>14, <1>0 DEF SaveReceipt
<1>15. ASSUME NEW f \in Flights, ReceiptWriteFails(f)
      PROVE  SingleWinner'
  BY <1>15, <1>0 DEF ReceiptWriteFails, DiskFault
<1>16. CASE Crash
  BY <1>16, <1>0 DEF Crash, Live
<1>17. CASE Restart
  BY <1>17, <1>0 DEF Restart, CallsCleared, Live
<1>18. CASE UNCHANGED vars
  BY <1>18, <1>0 DEF vars
<1>. QED
  BY <1>1, <1>2, <1>3, <1>4, <1>5, <1>6, <1>7, <1>8, <1>9,
     <1>10, <1>11, <1>12, <1>13, <1>14, <1>15, <1>16, <1>17, <1>18 DEF Next, CallStep
-----------------------------------------------------------------------------
(* The e-mail service recognises a request only by the key it was sent      *)
(* under: the mock compares actions, and one action has one approved        *)
(* payload.                                                                 *)
LEMMA RecognisedByKey ==
  ASSUME TypeOK, FlightsCleared, NoForgottenSend, SentOnce,
         NEW f \in Flights, stage[f] \in {"calling", "wire"},
         Recognises(KeyOf(f[1]))
  PROVE  KeyOf(f[1]) \in remembered
<1>1. CASE Provider = "mock"
  <2>1. PICK m \in remembered : m[1] = KeyOf(f[1])[1]
    BY <1>1 DEF Recognises
  <2>2. m \in Keys /\ sent[m] = 1
    BY <2>1 DEF NoForgottenSend, TypeOK
  <2>3. approvalHash[m[1]] = m[2]
    BY <2>2 DEF SentOnce
  <2>4. Satisfied(req[f[1]])
    BY DEF FlightsCleared
  <2>5. approvalHash[KeyOf(f[1])[1]] = KeyOf(f[1])[2]
    BY <2>4 DEF Satisfied, KeyOf, Key
  <2>6. KeyOf(f[1]) \in Keys
    BY FlightType, KeyType
  <2>7. KeyOf(f[1]) = m
    BY <2>1, <2>2, <2>3, <2>5, <2>6 DEF Keys
  <2>. QED
    BY <2>1, <2>7
<1>2. CASE Provider # "mock"
  BY <1>2 DEF Recognises
<1>. QED
  BY <1>1, <1>2

(* The key of a cleared request is the approved payload of its action. *)
LEMMA ClearedKey ==
  ASSUME TypeOK, NEW c \in Calls, Satisfied(req[c])
  PROVE  /\ approval[KeyOf(c)[1]] = "approved"
         /\ approvalHash[KeyOf(c)[1]] = KeyOf(c)[2]
  BY DEF Satisfied, KeyOf, Key

(* An accepted request leaves its key sent exactly once, and remembered. *)
LEMMA AcceptedOnce ==
  ASSUME TypeOK, FlightsCleared, NoForgottenSend, SentOnce,
         NEW f \in Flights, stage[f] \in {"calling", "wire"},
         Accept(KeyOf(f[1]))
  PROVE  /\ sent'[KeyOf(f[1])] = 1
         /\ KeyOf(f[1]) \in remembered'
         /\ remembered' \subseteq remembered \cup {KeyOf(f[1])}
         /\ remembered \subseteq remembered'
         /\ \A k \in Keys : k # KeyOf(f[1]) => sent'[k] = sent[k]
<1>1. KeyOf(f[1]) \in Keys
  BY FlightType, KeyType
<1>2. CASE Recognises(KeyOf(f[1]))
  <2>1. KeyOf(f[1]) \in remembered
    BY <1>2, RecognisedByKey
  <2>. QED
    BY <1>2, <2>1 DEF Accept, NoForgottenSend
<1>3. CASE ~Recognises(KeyOf(f[1]))
  <2>1. KeyOf(f[1]) \notin remembered
    BY <1>3 DEF Recognises
  <2>2. sent[KeyOf(f[1])] = 0
    BY <2>1 DEF NoForgottenSend
  <2>. QED
    BY <1>1, <1>3, <2>2 DEF Accept, TypeOK
<1>. QED
  BY <1>2, <1>3

(* An attempt may run late, twice, or after a crash: whoever can still send *)
(* a key that was sent is recognised by the service.                        *)
LEMMA NoForgottenSendStep == TypeOK /\ CallsCleared /\ FlightsCleared /\ SingleWinner /\ NoForgottenSend /\ SentOnce /\ [Next]_vars => NoForgottenSend'
<1> SUFFICES ASSUME TypeOK, CallsCleared, FlightsCleared, SingleWinner, NoForgottenSend, SentOnce, [Next]_vars PROVE NoForgottenSend'
  OBVIOUS
<1> USE DEF TypeOK, NoForgottenSend, Executing, Steady, faultVars, approvalVars, callVars
<1>0. \A c \in Calls : Steady(c)
  BY CallsSteady
<1>1. ASSUME NEW a \in Actions, RequestApproval(a)
      PROVE  NoForgottenSend'
  BY <1>1, <1>0, FlightType DEF RequestApproval
<1>2. ASSUME NEW a \in Actions, NEW s \in {"approved", "denied", "invalidated"}, Decide(a, s)
      PROVE  NoForgottenSend'
  BY <1>2, <1>0, FlightType DEF Decide
<1>3. ASSUME NEW c \in Calls, Begin(c)
      PROVE  NoForgottenSend'
  BY <1>3, <1>0, FlightType DEF Begin
<1>4. ASSUME NEW c \in Calls, Claim(c)
      PROVE  NoForgottenSend'
  <2>1. Claimable(KeyOf(c)) => sent[KeyOf(c)] = 0
    BY <1>0 DEF Claimable, SentOnce
  <2>. QED
    BY <1>4, <1>0, <2>1, FlightType DEF Claim
<1>5. ASSUME NEW c \in Calls, ReadExisting(c)
      PROVE  NoForgottenSend'
  BY <1>5, <1>0, FlightType DEF ReadExisting
<1>6. ASSUME NEW c \in Calls, StartAttempt(c)
      PROVE  NoForgottenSend'
  BY <1>6, <1>0, FlightType DEF StartAttempt
<1>7. ASSUME NEW c \in Calls, Settled(c)
      PROVE  NoForgottenSend'
  BY <1>7, <1>0, FlightType DEF Settled, Backoff
<1>8. ASSUME NEW c \in Calls, Timeout(c)
      PROVE  NoForgottenSend'
  BY <1>8, <1>0, FlightType DEF Timeout, Backoff
<1>9. ASSUME NEW c \in Calls, Update(c)
      PROVE  NoForgottenSend'
  BY <1>9, <1>0, FlightType DEF Update
<1>10. ASSUME NEW c \in Calls, LedgerWriteFails(c)
      PROVE  NoForgottenSend'
  BY <1>10, <1>0, FlightType DEF LedgerWriteFails
<1>11. ASSUME NEW f \in Flights, Deliver(f)
      PROVE  NoForgottenSend'
  BY <1>11, <1>0, FlightType, AcceptedOnce DEF Deliver, Accept
<1>12. ASSUME NEW f \in Flights, LoseAnswer(f)
      PROVE  NoForgottenSend'
  BY <1>12, <1>0, FlightType, AcceptedOnce DEF LoseAnswer, Accept
<1>13. ASSUME NEW f \in Flights, ServiceRefuses(f)
      PROVE  NoForgottenSend'
  BY <1>13, <1>0, FlightType DEF ServiceRefuses
<1>14. ASSUME NEW f \in Flights, SaveReceipt(f)
      PROVE  NoForgottenSend'
  BY <1>14, <1>0, FlightType DEF SaveReceipt
<1>15. ASSUME NEW f \in Flights, ReceiptWriteFails(f)
      PROVE  NoForgottenSend'
  BY <1>15, <1>0, FlightType DEF ReceiptWriteFails, DiskFault
<1>16. CASE Crash
  BY <1>16, <1>0, FlightType DEF Crash, AfterCrash, FlightsCleared, Live
<1>17. CASE Restart
  BY <1>17, <1>0, FlightType DEF Restart, CallsCleared, Live
<1>18. CASE UNCHANGED vars
  BY <1>18, <1>0, FlightType DEF vars
<1>. QED
  BY <1>1, <1>2, <1>3, <1>4, <1>5, <1>6, <1>7, <1>8, <1>9,
     <1>10, <1>11, <1>12, <1>13, <1>14, <1>15, <1>16, <1>17, <1>18 DEF Next, CallStep

(* No key is sent twice, and none without a claim and its approval. *)
LEMMA SentOnceStep == TypeOK /\ CallsCleared /\ FlightsCleared /\ SingleWinner /\ NoForgottenSend /\ SentOnce /\ [Next]_vars => SentOnce'
<1> SUFFICES ASSUME TypeOK, CallsCleared, FlightsCleared, SingleWinner, NoForgottenSend, SentOnce, [Next]_vars PROVE SentOnce'
  OBVIOUS
<1> USE DEF TypeOK, SentOnce, faultVars, approvalVars, callVars
<1>0. \A c \in Calls : Steady(c)
  BY CallsSteady
<1>1. ASSUME NEW a \in Actions, RequestApproval(a)
      PROVE  SentOnce'
  BY <1>1, <1>0, NothingTakenBack, FlightType DEF RequestApproval, Kept, Keys
<1>2. ASSUME NEW a \in Actions, NEW s \in {"approved", "denied", "invalidated"}, Decide(a, s)
      PROVE  SentOnce'
  BY <1>2, <1>0, NothingTakenBack, FlightType DEF Decide, Kept, Keys
<1>3. ASSUME NEW c \in Calls, Begin(c)
      PROVE  SentOnce'
  BY <1>3, <1>0, NothingTakenBack, FlightType DEF Begin
<1>4. ASSUME NEW c \in Calls, Claim(c)
      PROVE  SentOnce'
  BY <1>4, <1>0, NothingTakenBack, FlightType DEF Claim, Kept, Keys
<1>5. ASSUME NEW c \in Calls, ReadExisting(c)
      PROVE  SentOnce'
  BY <1>5, <1>0, NothingTakenBack, FlightType DEF ReadExisting
<1>6. ASSUME NEW c \in Calls, StartAttempt(c)
      PROVE  SentOnce'
  BY <1>6, <1>0, NothingTakenBack, FlightType DEF StartAttempt
<1>7. ASSUME NEW c \in Calls, Settled(c)
      PROVE  SentOnce'
  BY <1>7, <1>0, NothingTakenBack, FlightType DEF Settled, Backoff
<1>8. ASSUME NEW c \in Calls, Timeout(c)
      PROVE  SentOnce'
  BY <1>8, <1>0, NothingTakenBack, FlightType DEF Timeout, Backoff
<1>9. ASSUME NEW c \in Calls, Update(c)
      PROVE  SentOnce'
  BY <1>9, <1>0, NothingTakenBack, FlightType DEF Update, Kept, Keys
<1>10. ASSUME NEW c \in Calls, LedgerWriteFails(c)
      PROVE  SentOnce'
  BY <1>10, <1>0, NothingTakenBack, FlightType DEF LedgerWriteFails
<1>11. ASSUME NEW f \in Flights, Deliver(f)
      PROVE  SentOnce'
  BY <1>11, <1>0, NothingTakenBack, FlightType, AcceptedOnce, ClearedKey DEF Deliver, Accept, Steady, FlightsCleared
<1>12. ASSUME NEW f \in Flights, LoseAnswer(f)
      PROVE  SentOnce'
  BY <1>12, <1>0, NothingTakenBack, FlightType, AcceptedOnce, ClearedKey DEF LoseAnswer, Accept, Steady, FlightsCleared
<1>13. ASSUME NEW f \in Flights, ServiceRefuses(f)
      PROVE  SentOnce'
  BY <1>13, <1>0, NothingTakenBack, FlightType DEF ServiceRefuses
<1>14. ASSUME NEW f \in Flights, SaveReceipt(f)
      PROVE  SentOnce'
  BY <1>14, <1>0, NothingTakenBack, FlightType DEF SaveReceipt
<1>15. ASSUME NEW f \in Flights, ReceiptWriteFails(f)
      PROVE  SentOnce'
  BY <1>15, <1>0, NothingTakenBack, FlightType DEF ReceiptWriteFails, DiskFault
<1>16. CASE Crash
  BY <1>16, <1>0, NothingTakenBack, FlightType DEF Crash
<1>17. CASE Restart
  BY <1>17, <1>0, NothingTakenBack, FlightType DEF Restart, Kept, Keys
<1>18. CASE UNCHANGED vars
  BY <1>18, <1>0, NothingTakenBack, FlightType DEF vars
<1>. QED
  BY <1>1, <1>2, <1>3, <1>4, <1>5, <1>6, <1>7, <1>8, <1>9,
     <1>10, <1>11, <1>12, <1>13, <1>14, <1>15, <1>16, <1>17, <1>18 DEF Next, CallStep

(* Acknowledgement, receipt, outcome and verdict follow one another. *)
LEMMA EvidenceStep == TypeOK /\ CallsCleared /\ FlightsCleared /\ SingleWinner /\ NoForgottenSend /\ SentOnce /\ EvidenceOfSuccess /\ [Next]_vars => EvidenceOfSuccess'
<1> SUFFICES ASSUME TypeOK, CallsCleared, FlightsCleared, SingleWinner, NoForgottenSend, SentOnce, EvidenceOfSuccess, [Next]_vars PROVE EvidenceOfSuccess'
  OBVIOUS
<1> USE DEF TypeOK, EvidenceOfSuccess, SuccessIsReal, Steady, faultVars, approvalVars, callVars
<1>0. \A c \in Calls : Steady(c)
  BY CallsSteady
<1>1. ASSUME NEW a \in Actions, RequestApproval(a)
      PROVE  EvidenceOfSuccess'
  BY <1>1, <1>0, FlightType DEF RequestApproval
<1>2. ASSUME NEW a \in Actions, NEW s \in {"approved", "denied", "invalidated"}, Decide(a, s)
      PROVE  EvidenceOfSuccess'
  BY <1>2, <1>0, FlightType DEF Decide
<1>3. ASSUME NEW c \in Calls, Begin(c)
      PROVE  EvidenceOfSuccess'
  BY <1>3, <1>0, FlightType DEF Begin
<1>4. ASSUME NEW c \in Calls, Claim(c)
      PROVE  EvidenceOfSuccess'
  BY <1>4, <1>0, FlightType DEF Claim
<1>5. ASSUME NEW c \in Calls, ReadExisting(c)
      PROVE  EvidenceOfSuccess'
  BY <1>5, <1>0, FlightType DEF ReadExisting, Terminal
<1>6. ASSUME NEW c \in Calls, StartAttempt(c)
      PROVE  EvidenceOfSuccess'
  BY <1>6, <1>0, FlightType DEF StartAttempt
<1>7. ASSUME NEW c \in Calls, Settled(c)
      PROVE  EvidenceOfSuccess'
  <2>1. Flight(c) \in Flights /\ Flight(c)[1] = c
    BY <1>7 DEF Settled, CallsCleared, Flight, Flights
  <2>2. stage[Flight(c)] = "ok" => KeyOf(c) \in receipts
    BY <2>1
  <2>. QED
    BY <1>7, <1>0, <2>2, FlightType DEF Settled, Backoff
<1>8. ASSUME NEW c \in Calls, Timeout(c)
      PROVE  EvidenceOfSuccess'
  BY <1>8, <1>0, FlightType DEF Timeout, Backoff
<1>9. ASSUME NEW c \in Calls, Update(c)
      PROVE  EvidenceOfSuccess'
  BY <1>9, <1>0, FlightType DEF Update, CallsCleared, Terminal
<1>10. ASSUME NEW c \in Calls, LedgerWriteFails(c)
      PROVE  EvidenceOfSuccess'
  BY <1>10, <1>0, FlightType DEF LedgerWriteFails
<1>11. ASSUME NEW f \in Flights, Deliver(f)
      PROVE  EvidenceOfSuccess'
  BY <1>11, <1>0, FlightType, AcceptedOnce DEF Deliver, Accept
<1>12. ASSUME NEW f \in Flights, LoseAnswer(f)
      PROVE  EvidenceOfSuccess'
  BY <1>12, <1>0, FlightType, AcceptedOnce DEF LoseAnswer, Accept
<1>13. ASSUME NEW f \in Flights, ServiceRefuses(f)
      PROVE  EvidenceOfSuccess'
  BY <1>13, <1>0, FlightType DEF ServiceRefuses
<1>14. ASSUME NEW f \in Flights, SaveReceipt(f)
      PROVE  EvidenceOfSuccess'
  BY <1>14, <1>0, FlightType DEF SaveReceipt
<1>15. ASSUME NEW f \in Flights, ReceiptWriteFails(f)
      PROVE  EvidenceOfSuccess'
  BY <1>15, <1>0, FlightType DEF ReceiptWriteFails, DiskFault
<1>16. CASE Crash
  BY <1>16, <1>0, FlightType DEF Crash, AfterCrash
<1>17. CASE Restart
  <2>1. UNCHANGED <<req, outcome, receipts, sent, stage>>
    BY <1>17 DEF Restart
  <2>2. \A key \in Keys : ledger'[key] = "succeeded" => ledger[key] = "succeeded"
    BY <1>17 DEF Restart, Reclaimed
  <2>3. \A c \in Calls : KeyOf(c)' = KeyOf(c)
    BY <1>0
  <2>4. SuccessIsReal'
    BY <2>1, <2>2, <2>3
  <2>. QED
    BY <2>1, <2>3, <2>4, FlightType
<1>18. CASE UNCHANGED vars
  BY <1>18, <1>0, FlightType DEF vars
<1>. QED
  BY <1>1, <1>2, <1>3, <1>4, <1>5, <1>6, <1>7, <1>8, <1>9,
     <1>10, <1>11, <1>12, <1>13, <1>14, <1>15, <1>16, <1>17, <1>18 DEF Next, CallStep
-----------------------------------------------------------------------------
LEMMA IndInit == Init => IndInv
<1> SUFFICES ASSUME Init PROVE IndInv
  OBVIOUS
<1> USE DEF Init
<1>1. TypeOK
  BY TypeInit
<1>2. CallsCleared
  BY DEF CallsCleared, Live, Terminal
<1>3. FlightsCleared /\ SingleWinner
  BY DEF FlightsCleared, SingleWinner, Executing
<1>4. NoForgottenSend
  BY DEF NoForgottenSend, Executing
<1>5. SentOnce
  BY DEF SentOnce
<1>6. \A c \in Calls : KeyOf(c) \in Keys
  BY <1>1, KeyType
<1>7. EvidenceOfSuccess
  BY <1>6 DEF EvidenceOfSuccess, SuccessIsReal
<1>. QED
  BY <1>1, <1>2, <1>3, <1>4, <1>5, <1>7 DEF IndInv

LEMMA IndStep == IndInv /\ [Next]_vars => IndInv'
<1> SUFFICES ASSUME IndInv, [Next]_vars PROVE IndInv'
  OBVIOUS
<1> USE DEF IndInv
<1>1. TypeOK' /\ CallsCleared'
  BY TypeStep, CallsClearedStep
<1>2. FlightsCleared' /\ SingleWinner'
  BY FlightsClearedStep, SingleWinnerStep
<1>3. NoForgottenSend' /\ SentOnce'
  BY NoForgottenSendStep, SentOnceStep
<1>4. EvidenceOfSuccess'
  BY EvidenceStep
<1>. QED
  BY <1>1, <1>2, <1>3, <1>4

LEMMA Inductive == Spec => []IndInv
  BY IndInit, IndStep, PTL DEF Spec

(* Every variable keeps its type; in particular no call of                  *)
(* RecoveryService.run makes more than MaxAttempts attempts.                *)
THEOREM TypeCorrect == Spec => []TypeOK
<1>1. IndInv => TypeOK
  BY DEF IndInv
<1>. QED
  BY <1>1, Inductive, PTL

(* The e-mail of an action is sent at most once, whatever the number of     *)
(* calls, retries, crashes and abandoned attempts.                          *)
THEOREM EmailSentAtMostOnce == Spec => []AtMostOneEmail
<1>1. IndInv => AtMostOneEmail
  <2> SUFFICES ASSUME IndInv, NEW k \in Keys, NEW m \in Keys,
                      k[1] = m[1], sent[k] > 0, sent[m] > 0
               PROVE  k = m /\ sent[k] = 1
    BY DEF AtMostOneEmail
  <2>1. sent[k] = 1 /\ sent[m] = 1
    BY DEF IndInv, SentOnce
  <2>2. k[2] = m[2]
    BY <2>1 DEF IndInv, SentOnce
  <2>. QED
    BY <2>1, <2>2 DEF Keys
<1>. QED
  BY <1>1, Inductive, PTL

(* No content leaves the system without the standing approval of exactly    *)
(* that content.                                                            *)
THEOREM ApprovalBoundary == Spec => []OnlyApprovedContentSent
<1>1. IndInv => OnlyApprovedContentSent
  BY DEF IndInv, TypeOK, SentOnce, OnlyApprovedContentSent
<1>. QED
  BY <1>1, Inductive, PTL

(* A success reported by the ledger or by a call is a sent e-mail with a    *)
(* receipt.                                                                 *)
THEOREM ReportedSuccessIsReal == Spec => []SuccessIsReal
<1>1. IndInv => SuccessIsReal
  BY DEF IndInv, EvidenceOfSuccess
<1>. QED
  BY <1>1, Inductive, PTL

(* From its claim to its verdict a key has one executing call. *)
THEOREM OneExecutorPerKey == Spec => []SingleWinner
<1>1. IndInv => SingleWinner
  BY DEF IndInv
<1>. QED
  BY <1>1, Inductive, PTL
-----------------------------------------------------------------------------
(* Only a claim, an update and a restart write the ledger, each of them     *)
(* only where there is no terminal record.                                  *)
LEMMA TerminalStep ==
  IndInv /\ [Next]_vars => \A k \in Keys : ledger[k] \in Terminal => ledger'[k] = ledger[k]
<1> DEFINE Final == \A k \in Keys : ledger[k] \in Terminal => ledger'[k] = ledger[k]
<1> SUFFICES ASSUME IndInv, [Next]_vars PROVE Final
  OBVIOUS
<1> USE DEF Terminal, faultVars, approvalVars, callVars
<1>0. TypeOK /\ SingleWinner /\ \A c \in Calls : KeyOf(c) \in Keys
  BY KeyType DEF IndInv
<1>1. ASSUME NEW a \in Actions, RequestApproval(a)
      PROVE  Final
  BY <1>1 DEF RequestApproval
<1>2. ASSUME NEW a \in Actions, NEW s \in {"approved", "denied", "invalidated"}, Decide(a, s)
      PROVE  Final
  BY <1>2 DEF Decide
<1>3. ASSUME NEW c \in Calls, Begin(c)
      PROVE  Final
  BY <1>3 DEF Begin
<1>4. ASSUME NEW c \in Calls, Claim(c)
      PROVE  Final
  BY <1>4, <1>0 DEF Claim, Claimable, TypeOK
<1>5. ASSUME NEW c \in Calls, ReadExisting(c)
      PROVE  Final
  BY <1>5 DEF ReadExisting
<1>6. ASSUME NEW c \in Calls, StartAttempt(c)
      PROVE  Final
  BY <1>6 DEF StartAttempt
<1>7. ASSUME NEW c \in Calls, Settled(c)
      PROVE  Final
  BY <1>7 DEF Settled, Backoff
<1>8. ASSUME NEW c \in Calls, Timeout(c)
      PROVE  Final
  BY <1>8 DEF Timeout, Backoff
<1>9. ASSUME NEW c \in Calls, Update(c)
      PROVE  Final
  BY <1>9, <1>0 DEF Update, SingleWinner, Executing, TypeOK
<1>10. ASSUME NEW c \in Calls, LedgerWriteFails(c)
      PROVE  Final
  BY <1>10 DEF LedgerWriteFails
<1>11. ASSUME NEW f \in Flights, Deliver(f)
      PROVE  Final
  BY <1>11 DEF Deliver, Accept
<1>12. ASSUME NEW f \in Flights, LoseAnswer(f)
      PROVE  Final
  BY <1>12 DEF LoseAnswer, Accept
<1>13. ASSUME NEW f \in Flights, ServiceRefuses(f)
      PROVE  Final
  BY <1>13 DEF ServiceRefuses
<1>14. ASSUME NEW f \in Flights, SaveReceipt(f)
      PROVE  Final
  BY <1>14 DEF SaveReceipt
<1>15. ASSUME NEW f \in Flights, ReceiptWriteFails(f)
      PROVE  Final
  BY <1>15 DEF ReceiptWriteFails, DiskFault
<1>16. CASE Crash
  BY <1>16 DEF Crash
<1>17. CASE Restart
  BY <1>17, <1>0 DEF Restart, Reclaimed, TypeOK
<1>18. CASE UNCHANGED vars
  BY <1>18 DEF vars
<1>. QED
  BY <1>1, <1>2, <1>3, <1>4, <1>5, <1>6, <1>7, <1>8, <1>9,
     <1>10, <1>11, <1>12, <1>13, <1>14, <1>15, <1>16, <1>17, <1>18 DEF Next, CallStep

(* A terminal record is never reopened or flipped. *)
THEOREM TerminalRecordsFinal == Spec => TerminalIsFinal
  BY Inductive, TerminalStep, PTL DEF Spec, TerminalIsFinal

(* Only the e-mail service sends, and only for a request whose key is       *)
(* claimed.                                                                 *)
LEMMA SendStep ==
  IndInv /\ [Next]_vars => \A k \in Keys : sent'[k] # sent[k] => ledger[k] # "absent"
<1> DEFINE Claimed == \A k \in Keys : sent'[k] # sent[k] => ledger[k] # "absent"
<1> SUFFICES ASSUME IndInv, [Next]_vars PROVE Claimed
  OBVIOUS
<1> USE DEF faultVars, approvalVars, callVars
<1>0. TypeOK /\ FlightsCleared /\ NoForgottenSend /\ SentOnce
  BY DEF IndInv
<1>1. ASSUME NEW a \in Actions, RequestApproval(a)
      PROVE  Claimed
  BY <1>1 DEF RequestApproval
<1>2. ASSUME NEW a \in Actions, NEW s \in {"approved", "denied", "invalidated"}, Decide(a, s)
      PROVE  Claimed
  BY <1>2 DEF Decide
<1>3. ASSUME NEW c \in Calls, Begin(c)
      PROVE  Claimed
  BY <1>3 DEF Begin
<1>4. ASSUME NEW c \in Calls, Claim(c)
      PROVE  Claimed
  BY <1>4 DEF Claim
<1>5. ASSUME NEW c \in Calls, ReadExisting(c)
      PROVE  Claimed
  BY <1>5 DEF ReadExisting
<1>6. ASSUME NEW c \in Calls, StartAttempt(c)
      PROVE  Claimed
  BY <1>6 DEF StartAttempt
<1>7. ASSUME NEW c \in Calls, Settled(c)
      PROVE  Claimed
  BY <1>7 DEF Settled, Backoff
<1>8. ASSUME NEW c \in Calls, Timeout(c)
      PROVE  Claimed
  BY <1>8 DEF Timeout, Backoff
<1>9. ASSUME NEW c \in Calls, Update(c)
      PROVE  Claimed
  BY <1>9 DEF Update
<1>10. ASSUME NEW c \in Calls, LedgerWriteFails(c)
      PROVE  Claimed
  BY <1>10 DEF LedgerWriteFails
<1>11. ASSUME NEW f \in Flights, Deliver(f)
      PROVE  Claimed
  BY <1>11, <1>0, AcceptedOnce DEF Deliver, Accept, FlightsCleared
<1>12. ASSUME NEW f \in Flights, LoseAnswer(f)
      PROVE  Claimed
  BY <1>12, <1>0, AcceptedOnce DEF LoseAnswer, Accept, FlightsCleared
<1>13. ASSUME NEW f \in Flights, ServiceRefuses(f)
      PROVE  Claimed
  BY <1>13 DEF ServiceRefuses
<1>14. ASSUME NEW f \in Flights, SaveReceipt(f)
      PROVE  Claimed
  BY <1>14 DEF SaveReceipt
<1>15. ASSUME NEW f \in Flights, ReceiptWriteFails(f)
      PROVE  Claimed
  BY <1>15 DEF ReceiptWriteFails, DiskFault
<1>16. CASE Crash
  BY <1>16 DEF Crash
<1>17. CASE Restart
  BY <1>17 DEF Restart
<1>18. CASE UNCHANGED vars
  BY <1>18 DEF vars
<1>. QED
  BY <1>1, <1>2, <1>3, <1>4, <1>5, <1>6, <1>7, <1>8, <1>9,
     <1>10, <1>11, <1>12, <1>13, <1>14, <1>15, <1>16, <1>17, <1>18 DEF Next, CallStep

(* No e-mail is sent without a persisted claim. *)
THEOREM NoSendWithoutClaim == Spec => SendNeedsClaim
  BY Inductive, SendStep, PTL DEF Spec, SendNeedsClaim
-----------------------------------------------------------------------------
(* Every step of the path is a step of AtMostOnceEffect or leaves verdicts  *)
(* and effects alone.                                                       *)
Sent == {k \in Keys : sent[k] > 0}
MapsTo == Effect!EffectNext \/ UNCHANGED <<ledger, Sent, receipts>>

LEMMA AcceptMapsTo ==
  ASSUME IndInv, NEW f \in Flights, stage[f] \in {"calling", "wire"},
         Accept(KeyOf(f[1])), ledger' = ledger, receipts' = receipts
  PROVE  MapsTo
<1>1. TypeOK /\ FlightsCleared /\ NoForgottenSend /\ SentOnce
  BY DEF IndInv
<1>2. KeyOf(f[1]) \in Keys /\ ledger[KeyOf(f[1])] # "absent"
  BY <1>1, FlightType, KeyType DEF FlightsCleared
<1>3. /\ sent'[KeyOf(f[1])] = 1
      /\ \A k \in Keys : k # KeyOf(f[1]) => sent'[k] = sent[k]
  BY <1>1, AcceptedOnce
<1>4. Sent' = Sent \cup {KeyOf(f[1])}
  BY <1>2, <1>3 DEF Sent
<1>5. CASE KeyOf(f[1]) \in Sent
  BY <1>4, <1>5 DEF MapsTo
<1>6. CASE KeyOf(f[1]) \notin Sent
  <2>1. \E k \in Keys : Effect!TakeEffect(k)
    BY <1>2, <1>4, <1>6 DEF Effect!TakeEffect, Sent
  <2>. QED
    BY <2>1 DEF MapsTo, Effect!EffectNext
<1>. QED
  BY <1>5, <1>6

LEMMA StepMapsTo == IndInv /\ [Next]_vars => MapsTo
<1> SUFFICES ASSUME IndInv, [Next]_vars PROVE MapsTo
  OBVIOUS
<1> USE DEF faultVars, approvalVars, callVars, MapsTo
<1>0. /\ TypeOK /\ CallsCleared /\ SingleWinner /\ EvidenceOfSuccess
      /\ \A c \in Calls : KeyOf(c) \in Keys
  BY KeyType DEF IndInv
<1>1. ASSUME NEW a \in Actions, RequestApproval(a)
      PROVE  MapsTo
  BY <1>1 DEF RequestApproval, Sent
<1>2. ASSUME NEW a \in Actions, NEW s \in {"approved", "denied", "invalidated"}, Decide(a, s)
      PROVE  MapsTo
  BY <1>2 DEF Decide, Sent
<1>3. ASSUME NEW c \in Calls, Begin(c)
      PROVE  MapsTo
  BY <1>3 DEF Begin, Sent
<1>4. ASSUME NEW c \in Calls, Claim(c)
      PROVE  MapsTo
  <2>1. CASE Claimable(KeyOf(c)) /\ ledger' = [ledger EXCEPT ![KeyOf(c)] = "executing"]
    BY <1>4, <1>0, <2>1 DEF Claim, Claimable, Effect!EffectNext, Effect!Open, Sent
  <2>2. CASE UNCHANGED ledger
    BY <1>4, <2>2 DEF Claim, Sent
  <2>. QED
    BY <1>4, <2>1, <2>2 DEF Claim
<1>5. ASSUME NEW c \in Calls, ReadExisting(c)
      PROVE  MapsTo
  BY <1>5 DEF ReadExisting, Sent
<1>6. ASSUME NEW c \in Calls, StartAttempt(c)
      PROVE  MapsTo
  BY <1>6 DEF StartAttempt, Sent
<1>7. ASSUME NEW c \in Calls, Settled(c)
      PROVE  MapsTo
  BY <1>7 DEF Settled, Backoff, Sent
<1>8. ASSUME NEW c \in Calls, Timeout(c)
      PROVE  MapsTo
  BY <1>8 DEF Timeout, Backoff, Sent
<1>9. ASSUME NEW c \in Calls, Update(c)
      PROVE  MapsTo
  <2>1. /\ ledger[KeyOf(c)] = "executing"
        /\ KeyOf(c) \in Keys
        /\ outcome[c] \in Terminal
        /\ ledger' = [ledger EXCEPT ![KeyOf(c)] = outcome[c]]
        /\ sent' = sent
        /\ receipts' = receipts
    BY <1>9, <1>0 DEF Update, CallsCleared, SingleWinner, Executing
  <2>2. CASE outcome[c] = "succeeded"
    <3>1. KeyOf(c) \in receipts
      BY <1>0, <2>1, <2>2 DEF EvidenceOfSuccess, SuccessIsReal
    <3>2. Effect!Succeed(KeyOf(c))
      BY <2>1, <2>2, <3>1 DEF Effect!Succeed, Sent
    <3>. QED
      BY <2>1, <3>2 DEF Effect!EffectNext
  <2>3. CASE outcome[c] = "failed"
    <3>1. Effect!Fail({KeyOf(c)})
      BY <1>0, <2>1, <2>3 DEF Effect!Fail, TypeOK, Sent
    <3>. QED
      BY <2>1, <3>1 DEF Effect!EffectNext
  <2>. QED
    BY <2>1, <2>2, <2>3 DEF Terminal
<1>10. ASSUME NEW c \in Calls, LedgerWriteFails(c)
      PROVE  MapsTo
  BY <1>10 DEF LedgerWriteFails, Sent
<1>11. ASSUME NEW f \in Flights, Deliver(f)
      PROVE  MapsTo
  <2>1. /\ stage[f] \in {"calling", "wire"}
        /\ Accept(KeyOf(f[1]))
        /\ ledger' = ledger
        /\ receipts' = receipts
    BY <1>11 DEF Deliver
  <2>. QED
    BY <1>0, <2>1, AcceptMapsTo
<1>12. ASSUME NEW f \in Flights, LoseAnswer(f)
      PROVE  MapsTo
  <2>1. /\ stage[f] \in {"calling", "wire"}
        /\ Accept(KeyOf(f[1]))
        /\ ledger' = ledger
        /\ receipts' = receipts
    BY <1>12 DEF LoseAnswer
  <2>. QED
    BY <1>0, <2>1, AcceptMapsTo
<1>13. ASSUME NEW f \in Flights, ServiceRefuses(f)
      PROVE  MapsTo
  BY <1>13 DEF ServiceRefuses, Sent
<1>14. ASSUME NEW f \in Flights, SaveReceipt(f)
      PROVE  MapsTo
  <2>1. KeyOf(f[1]) \in Sent
    BY <1>0, <1>14, FlightType DEF SaveReceipt, EvidenceOfSuccess, Sent
  <2>2. Effect!Acknowledge(KeyOf(f[1]))
    BY <1>14, <2>1 DEF SaveReceipt, Effect!Acknowledge, Sent
  <2>. QED
    BY <1>0, <2>2, FlightType DEF Effect!EffectNext
<1>15. ASSUME NEW f \in Flights, ReceiptWriteFails(f)
      PROVE  MapsTo
  BY <1>15 DEF ReceiptWriteFails, DiskFault, Sent
<1>16. CASE Crash
  BY <1>16 DEF Crash, Sent
<1>17. CASE Restart
  <2> DEFINE K == {k \in Keys : ledger[k] = "executing"}
  <2>1. Effect!Fail(K)
    BY <1>17, <1>0 DEF Restart, Reclaimed, Effect!Fail, TypeOK, Sent
  <2>. QED
    BY <2>1 DEF Effect!EffectNext
<1>18. CASE UNCHANGED vars
  BY <1>18 DEF vars, Sent
<1>. QED
  BY <1>1, <1>2, <1>3, <1>4, <1>5, <1>6, <1>7, <1>8, <1>9,
     <1>10, <1>11, <1>12, <1>13, <1>14, <1>15, <1>16, <1>17, <1>18 DEF Next, CallStep

(* The protected path implements the abstract promise: one claim, at most   *)
(* one effect and one final verdict per key, success only after the effect. *)
THEOREM Refinement == Spec => ImplementsEffect
<1>1. Init => Effect!EffectInit
  BY DEF Init, Effect!EffectInit
<1>2. IndInv /\ [Next]_vars => [Effect!EffectNext]_<<ledger, Sent, receipts>>
  BY StepMapsTo DEF MapsTo
<1>. QED
  BY <1>1, <1>2, Inductive, PTL DEF Spec, ImplementsEffect, Effect!EffectSpec,
     Effect!effectVars, Sent
-----------------------------------------------------------------------------
(* What CallsSettle rests on: no call that was started is ever without a    *)
(* step to take, and no record is left "executing" by a process that still  *)
(* runs, unless writing its verdict failed.                                 *)

(* The retry loop never waits for an attempt that can neither settle nor    *)
(* time out, and never is at an attempt too many.                           *)
Moving(c) ==
    /\ pc[c] \in {"idle", "claim"} => tries[c] = 0
    /\ pc[c] = "attempt" => tries[c] < MaxAttempts
    /\ pc[c] = "racing" => stage[Flight(c)] \in {"calling", "acked", "ok", "transient", "rejected"}

LoopMoves == \A c \in Calls : Moving(c)

(* Every record in execution has a call of this process at work on it.      *)
Owned(k) == \E c \in Calls : Executing(c) /\ KeyOf(c) = k

ClaimsHaveOwners ==
    up /\ diskFaults = 0 => \A k \in Keys : ledger[k] = "executing" => Owned(k)

LEMMA LoopMovesStep ==
  TypeOK /\ CallsCleared /\ LoopMoves /\ [Next]_vars => LoopMoves'
<1> SUFFICES ASSUME TypeOK, CallsCleared, LoopMoves, [Next]_vars PROVE LoopMoves'
  OBVIOUS
<1> USE DEF TypeOK, CallsCleared, Live, LoopMoves, Moving, Flight, faultVars, approvalVars, callVars
<1>1. ASSUME NEW a \in Actions, RequestApproval(a)
      PROVE  LoopMoves'
  BY <1>1, FlightType DEF RequestApproval
<1>2. ASSUME NEW a \in Actions, NEW s \in {"approved", "denied", "invalidated"}, Decide(a, s)
      PROVE  LoopMoves'
  BY <1>2, FlightType DEF Decide
<1>3. ASSUME NEW c \in Calls, Begin(c)
      PROVE  LoopMoves'
  BY <1>3, FlightType DEF Begin
<1>4. ASSUME NEW c \in Calls, Claim(c)
      PROVE  LoopMoves'
  BY <1>4, FlightType DEF Claim
<1>5. ASSUME NEW c \in Calls, ReadExisting(c)
      PROVE  LoopMoves'
  BY <1>5, FlightType DEF ReadExisting
<1>6. ASSUME NEW c \in Calls, StartAttempt(c)
      PROVE  LoopMoves'
  BY <1>6, FlightType DEF StartAttempt, Flights
<1>7. ASSUME NEW c \in Calls, Settled(c)
      PROVE  LoopMoves'
  BY <1>7, FlightType DEF Settled, Backoff
<1>8. ASSUME NEW c \in Calls, Timeout(c)
      PROVE  LoopMoves'
  BY <1>8, FlightType DEF Timeout, Backoff
<1>9. ASSUME NEW c \in Calls, Update(c)
      PROVE  LoopMoves'
  BY <1>9, FlightType DEF Update
<1>10. ASSUME NEW c \in Calls, LedgerWriteFails(c)
      PROVE  LoopMoves'
  BY <1>10, FlightType DEF LedgerWriteFails, DiskFault
<1>11. ASSUME NEW f \in Flights, Deliver(f)
      PROVE  LoopMoves'
  BY <1>11, FlightType DEF Deliver, Accept
<1>12. ASSUME NEW f \in Flights, LoseAnswer(f)
      PROVE  LoopMoves'
  BY <1>12, FlightType DEF LoseAnswer, Accept
<1>13. ASSUME NEW f \in Flights, ServiceRefuses(f)
      PROVE  LoopMoves'
  <2>1. /\ UNCHANGED <<pc, tries>> /\ stage'[f] \in {"rejected", "transient"}
        /\ \A g \in Flights : g # f => stage'[g] = stage[g]
    BY <1>13 DEF ServiceRefuses
  <2>2. \A c \in Calls : pc[c] = "racing" => Flight(c) \in Flights
    BY DEF Flights
  <2>3. ASSUME NEW c \in Calls PROVE Moving(c)'
    <3>1. CASE Flight(c) = f
      BY <2>1, <3>1
    <3>2. CASE Flight(c) # f
      BY <2>1, <2>2, <3>2
    <3>. QED
      BY <3>1, <3>2
  <2>. QED
    BY <2>3 DEF LoopMoves
<1>14. ASSUME NEW f \in Flights, SaveReceipt(f)
      PROVE  LoopMoves'
  BY <1>14, FlightType DEF SaveReceipt
<1>15. ASSUME NEW f \in Flights, ReceiptWriteFails(f)
      PROVE  LoopMoves'
  BY <1>15, FlightType DEF ReceiptWriteFails, DiskFault
<1>16. CASE Crash
  BY <1>16, FlightType DEF Crash
<1>17. CASE Restart
  BY <1>17, FlightType DEF Restart
<1>18. CASE UNCHANGED vars
  BY <1>18, FlightType DEF vars
<1>. QED
  BY <1>1, <1>2, <1>3, <1>4, <1>5, <1>6, <1>7, <1>8, <1>9,
     <1>10, <1>11, <1>12, <1>13, <1>14, <1>15, <1>16, <1>17, <1>18 DEF Next, CallStep

LEMMA OwnersStep ==
  TypeOK /\ CallsCleared /\ SingleWinner /\ ClaimsHaveOwners /\ [Next]_vars => ClaimsHaveOwners'
<1> SUFFICES ASSUME TypeOK, CallsCleared, SingleWinner, ClaimsHaveOwners, [Next]_vars
             PROVE  ClaimsHaveOwners'
  OBVIOUS
<1> USE DEF TypeOK, ClaimsHaveOwners, Owned, Executing, faultVars, approvalVars, callVars
<1>0. \A c \in Calls : KeyOf(c)' = KeyOf(c) /\ KeyOf(c) \in Keys
  BY CallsSteady DEF Steady
<1>1. ASSUME NEW a \in Actions, RequestApproval(a)
      PROVE  ClaimsHaveOwners'
  BY <1>1, <1>0 DEF RequestApproval
<1>2. ASSUME NEW a \in Actions, NEW s \in {"approved", "denied", "invalidated"}, Decide(a, s)
      PROVE  ClaimsHaveOwners'
  BY <1>2, <1>0 DEF Decide
<1>3. ASSUME NEW c \in Calls, Begin(c)
      PROVE  ClaimsHaveOwners'
  BY <1>3, <1>0 DEF Begin
<1>4. ASSUME NEW c \in Calls, Claim(c)
      PROVE  ClaimsHaveOwners'
  BY <1>4, <1>0 DEF Claim, Claimable
<1>5. ASSUME NEW c \in Calls, ReadExisting(c)
      PROVE  ClaimsHaveOwners'
  BY <1>5, <1>0 DEF ReadExisting
<1>6. ASSUME NEW c \in Calls, StartAttempt(c)
      PROVE  ClaimsHaveOwners'
  BY <1>6, <1>0 DEF StartAttempt
<1>7. ASSUME NEW c \in Calls, Settled(c)
      PROVE  ClaimsHaveOwners'
  BY <1>7, <1>0 DEF Settled, Backoff
<1>8. ASSUME NEW c \in Calls, Timeout(c)
      PROVE  ClaimsHaveOwners'
  BY <1>8, <1>0 DEF Timeout, Backoff
<1>9. ASSUME NEW c \in Calls, Update(c)
      PROVE  ClaimsHaveOwners'
  BY <1>9, <1>0 DEF Update, SingleWinner, CallsCleared, Terminal
<1>10. ASSUME NEW c \in Calls, LedgerWriteFails(c)
      PROVE  ClaimsHaveOwners'
  BY <1>10, <1>0 DEF LedgerWriteFails, DiskFault
<1>11. ASSUME NEW f \in Flights, Deliver(f)
      PROVE  ClaimsHaveOwners'
  BY <1>11, <1>0 DEF Deliver, Accept
<1>12. ASSUME NEW f \in Flights, LoseAnswer(f)
      PROVE  ClaimsHaveOwners'
  BY <1>12, <1>0 DEF LoseAnswer, Accept
<1>13. ASSUME NEW f \in Flights, ServiceRefuses(f)
      PROVE  ClaimsHaveOwners'
  BY <1>13, <1>0 DEF ServiceRefuses
<1>14. ASSUME NEW f \in Flights, SaveReceipt(f)
      PROVE  ClaimsHaveOwners'
  BY <1>14, <1>0 DEF SaveReceipt
<1>15. ASSUME NEW f \in Flights, ReceiptWriteFails(f)
      PROVE  ClaimsHaveOwners'
  BY <1>15, <1>0 DEF ReceiptWriteFails, DiskFault
<1>16. CASE Crash
  BY <1>16, <1>0 DEF Crash
<1>17. CASE Restart
  BY <1>17, <1>0 DEF Restart, Reclaimed
<1>18. CASE UNCHANGED vars
  BY <1>18, <1>0 DEF vars
<1>. QED
  BY <1>1, <1>2, <1>3, <1>4, <1>5, <1>6, <1>7, <1>8, <1>9,
     <1>10, <1>11, <1>12, <1>13, <1>14, <1>15, <1>16, <1>17, <1>18 DEF Next, CallStep

LEMMA OwnersInvariance == Spec => [](LoopMoves /\ ClaimsHaveOwners)
<1>1. Init => LoopMoves /\ ClaimsHaveOwners
  BY KeyType DEF Init, LoopMoves, Keys, Moving, ClaimsHaveOwners
<1>2. IndInv /\ LoopMoves /\ ClaimsHaveOwners /\ [Next]_vars
        => LoopMoves' /\ ClaimsHaveOwners'
  BY LoopMovesStep, OwnersStep DEF IndInv
<1>. QED
  BY <1>1, <1>2, Inductive, PTL DEF Spec

(* A running process without a failed write has, for every record in        *)
(* execution, a call at work on it.                                         *)
THEOREM ExecutingIsOwned == Spec => []ClaimsHaveOwners
  BY OwnersInvariance, PTL

(* A call in the retry loop can always go on: it has an attempt left to     *)
(* make, or its attempt can settle or time out.                             *)
THEOREM NoCallIsStuck == Spec => []LoopMoves
  BY OwnersInvariance, PTL
=============================================================================
