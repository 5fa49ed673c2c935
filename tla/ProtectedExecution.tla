-------------------------- MODULE ProtectedExecution --------------------------
(***************************************************************************)
(* The protected execution path: ExecutionService.run, the retry loop of   *)
(* RecoveryService, the e-mail executors and the durable idempotency       *)
(* ledger, with any number of concurrent calls, attempts abandoned on a    *)
(* timeout that keep running, failing disk writes, and process crashes.    *)
(*                                                                         *)
(* A step is what the event loop runs between two awaits that can really   *)
(* suspend (a file write, a network call, a timer).  Trace emission is     *)
(* best effort, changes nothing the path reads, and is left out.           *)
(***************************************************************************)
EXTENDS Integers, FiniteSets

CONSTANTS
    Calls,         \* invocations of ExecutionService.run
    Actions,       \* proposed actions: a session id and an action id
    Hashes,        \* payloads, named by their hash
    Requests,      \* the (action, decision) arguments the callers pass
    Provider,      \* "mock" or "resend": which executor is configured
    MaxAttempts,   \* attempts of one execution (3 in the program)
    MaxCrashes,    \* bound on process crashes
    MaxDiskFaults  \* bound on failing file writes

NoKey == <<"none", "none">>    \* an empty idempotencyKey

Keys == Actions \X Hashes
Decisions == {"AUTO_EXECUTE", "REQUIRE_APPROVAL", "RECOMMEND_ONLY", "DENY"}

(* The arguments of a call.  content is the hash of what the payload really *)
(* holds, hash the payloadHash field, which a caller may have got wrong.    *)
RequestType == [action : Actions, type : {"SEND_EMAIL", "OTHER"},
                content : Hashes, hash : Hashes,
                idemKey : Keys \cup {NoKey}, decision : Decisions]

ASSUME RequestsAssumption == Requests \subseteq RequestType
ASSUME ProviderAssumption == Provider \in {"mock", "resend"}
ASSUME AttemptsAssumption == MaxAttempts \in Nat \ {0}
ASSUME BoundsAssumption == MaxCrashes \in Nat /\ MaxDiskFaults \in Nat

Flights == Calls \X (1..MaxAttempts)   \* one executor.execute per attempt

Pcs == {"idle", "claim", "readExisting", "attempt", "racing", "update",
        "returned", "threw", "lost"}
Outcomes == {"none", "refused", "inProgress", "succeeded", "failed"}
Stages == {"none", "calling", "acked", "ok", "transient", "rejected", "wire"}
LedgerStatus == {"absent", "executing", "succeeded", "failed"}
Terminal == {"succeeded", "failed"}

VARIABLES
    up,            \* is the server process running?
    crashes,       \* crashes so far
    diskFaults,    \* failed writes so far
    approval,      \* status of approval-<action> in the relay store
    approvalHash,  \* payloadHash of that approval record
    ledger,        \* the execution record of every idempotency key
    receipts,      \* keys with a saved RelayActionReceipt
    remembered,    \* keys whose delivery the e-mail service can recognise
    sent,          \* e-mails the service really sent, per action and content
    pc, req, tries, outcome,   \* every call: where it is, its arguments,
                               \* its current attempt and what it returns
    stage          \* how far every attempt's executor.execute has come

approvalVars == <<approval, approvalHash>>
faultVars == <<crashes, diskFaults>>
callVars == <<pc, req, tries, outcome>>
vars == <<up, crashes, diskFaults, approval, approvalHash, ledger, receipts,
          remembered, sent, pc, req, tries, outcome, stage>>

Key(r) == <<r.action, r.hash>>
KeyOf(c) == Key(req[c])

(* The service dedupes on sessionId|actionId (mock), or on the             *)
(* Idempotency-Key header it was sent (Resend).                            *)
Recognises(k) == IF Provider = "mock" THEN \E m \in remembered : m[1] = k[1]
                                      ELSE k \in remembered

Init == /\ up = TRUE
        /\ crashes = 0
        /\ diskFaults = 0
        /\ approval = [a \in Actions |-> "none"]
        /\ approvalHash \in [Actions -> Hashes]
        /\ ledger = [k \in Keys |-> "absent"]
        /\ receipts = {}
        /\ remembered = {}
        /\ sent = [k \in Keys |-> 0]
        /\ pc = [c \in Calls |-> "idle"]
        /\ req \in [Calls -> Requests]
        /\ tries = [c \in Calls |-> 0]
        /\ outcome = [c \in Calls |-> "none"]
        /\ stage = [f \in Flights |-> "none"]
-----------------------------------------------------------------------------
(* The approval record, written by applyPolicy and by decideApproval.      *)

RequestApproval(a) ==
    /\ up /\ approval[a] = "none"
    /\ approval' = [approval EXCEPT ![a] = "pending"]
    /\ UNCHANGED <<up, faultVars, approvalHash, ledger, receipts, remembered,
                   sent, callVars, stage>>

Decide(a, status) ==
    /\ up /\ approval[a] = "pending"
    /\ approval' = [approval EXCEPT ![a] = status]
    /\ UNCHANGED <<up, faultVars, approvalHash, ledger, receipts, remembered,
                   sent, callVars, stage>>
-----------------------------------------------------------------------------
(* ExecutionService.run up to the claim.                                    *)

(* Mutant: an approval counts unless it was turned down. *)
SatisfiedUnlessDenied(r) == /\ approval[r.action] \notin {"denied", "invalidated"}
                            /\ approvalHash[r.action] = r.content
                            /\ r.hash = r.content

(* RelayApprovalVerifier.isSatisfied. *)
Satisfied(r) == /\ approval[r.action] = "approved"
                /\ approvalHash[r.action] = r.content
                /\ r.hash = r.content

(* The refusals of run, each of which returns a terminal outcome at once. *)
Refused(r) == \/ r.type = "SEND_EMAIL" /\ r.decision = "AUTO_EXECUTE"
              \/ r.idemKey # NoKey /\ r.idemKey # Key(r)
              \/ r.decision = "REQUIRE_APPROVAL" /\ ~Satisfied(r)

Throws(r) == r.decision \in {"DENY", "RECOMMEND_ONLY"}

Begin(c) ==
    /\ up /\ pc[c] = "idle"
    /\ \/ /\ Throws(req[c])
          /\ pc' = [pc EXCEPT ![c] = "threw"]
          /\ UNCHANGED outcome
       \/ /\ ~Throws(req[c]) /\ Refused(req[c])
          /\ pc' = [pc EXCEPT ![c] = "returned"]
          /\ outcome' = [outcome EXCEPT ![c] = "refused"]
       \/ /\ ~Throws(req[c]) /\ ~Refused(req[c])
          /\ pc' = [pc EXCEPT ![c] = "claim"]
          /\ UNCHANGED outcome
    /\ UNCHANGED <<up, faultVars, approvalVars, ledger, receipts, remembered,
                   sent, req, tries, stage>>

(* Mutant: a claim that does not look first. *)
ClaimableAlways(k) == TRUE

(* JsonExecutionStore.claim: one queued mutation, a compare-and-set. *)
Claimable(k) == ledger[k] = "absent"

Claim(c) ==
    /\ up /\ pc[c] = "claim"
    /\ \/ /\ Claimable(KeyOf(c))
          /\ ledger' = [ledger EXCEPT ![KeyOf(c)] = "executing"]
          /\ pc' = [pc EXCEPT ![c] = "attempt"]
       \/ /\ ~Claimable(KeyOf(c))
          /\ pc' = [pc EXCEPT ![c] = "readExisting"]
          /\ UNCHANGED ledger
    /\ UNCHANGED <<up, faultVars, approvalVars, receipts, remembered, sent,
                   req, tries, outcome, stage>>

(* The loser of the claim reports what the record says now. *)
ReadExisting(c) ==
    /\ up /\ pc[c] = "readExisting"
    /\ pc' = [pc EXCEPT ![c] = "returned"]
    /\ outcome' = [outcome EXCEPT ![c] =
                     IF ledger[KeyOf(c)] \in Terminal THEN ledger[KeyOf(c)]
                                                      ELSE "inProgress"]
    /\ UNCHANGED <<up, faultVars, approvalVars, ledger, receipts, remembered,
                   sent, req, tries, stage>>
-----------------------------------------------------------------------------
(* RecoveryService.run and the executor's attempts.                         *)

(* BaseEmailExecutor.validate. *)
Valid(r) == /\ r.type = "SEND_EMAIL"
            /\ r.hash = r.content
            /\ r.idemKey # NoKey

(* The next attempt: validate, then read the receipt, before any await. *)
StartAttempt(c) ==
    /\ up /\ pc[c] = "attempt"
    /\ tries[c] < MaxAttempts
    /\ pc' = [pc EXCEPT ![c] = "racing"]
    /\ tries' = [tries EXCEPT ![c] = tries[c] + 1]
    /\ stage' = [stage EXCEPT ![<<c, tries[c] + 1>>] =
                   IF ~Valid(req[c]) THEN "rejected"
                   ELSE IF KeyOf(c) \in receipts THEN "ok" ELSE "calling"]
    /\ UNCHANGED <<up, faultVars, approvalVars, ledger, receipts, remembered,
                   sent, req, outcome>>

(* The e-mail service takes a request: a repeated one is answered from      *)
(* memory, a new one is sent.                                               *)
Accept(k) ==
    IF Recognises(k)
    THEN UNCHANGED <<remembered, sent>>
    ELSE /\ remembered' = remembered \cup {k}
         /\ sent' = [sent EXCEPT ![k] = sent[k] + 1]

(* Mutant: the executor reports success without waiting for saveReceipt. *)
DeliverUnawaited(f) ==
    /\ stage[f] \in {"calling", "wire"}
    /\ Accept(KeyOf(f[1]))
    /\ stage' = [stage EXCEPT ![f] = IF stage[f] = "wire" THEN "none" ELSE "ok"]
    /\ UNCHANGED <<up, faultVars, approvalVars, ledger, receipts, callVars>>

(* The service accepts and its answer arrives; or (Resend) the answer is    *)
(* lost on the way and fetch rejects with a plain Error.  A request that    *)
(* outlived the process that made it has nobody left to answer.             *)
Deliver(f) ==
    /\ stage[f] \in {"calling", "wire"}
    /\ Accept(KeyOf(f[1]))
    /\ stage' = [stage EXCEPT ![f] = IF stage[f] = "wire" THEN "none" ELSE "acked"]
    /\ UNCHANGED <<up, faultVars, approvalVars, ledger, receipts, callVars>>

LoseAnswer(f) ==
    /\ Provider = "resend" /\ stage[f] = "calling"
    /\ Accept(KeyOf(f[1]))
    /\ stage' = [stage EXCEPT ![f] = "rejected"]
    /\ UNCHANGED <<up, faultVars, approvalVars, ledger, receipts, callVars>>

(* The service refuses.  The mock executor throws TransientExecutionError,  *)
(* or ProtectedServiceAuthError for a bad token; the Resend executor throws *)
(* a plain Error whatever the cause.  The mock answers a request it         *)
(* remembers before it looks at its queued failures.                        *)
ServiceRefuses(f) ==
    /\ stage[f] = "calling"
    /\ \/ /\ stage' = [stage EXCEPT ![f] = "rejected"]
       \/ /\ Provider = "mock" /\ ~Recognises(KeyOf(f[1]))
          /\ stage' = [stage EXCEPT ![f] = "transient"]
    /\ UNCHANGED <<up, faultVars, approvalVars, ledger, receipts, remembered,
                   sent, callVars>>

SaveReceipt(f) ==
    /\ stage[f] = "acked"
    /\ receipts' = receipts \cup {KeyOf(f[1])}
    /\ stage' = [stage EXCEPT ![f] = "ok"]
    /\ UNCHANGED <<up, faultVars, approvalVars, ledger, remembered, sent, callVars>>

(* A transient failure: another attempt, or "retries exhausted". *)
Backoff(c) ==
    \/ /\ tries[c] < MaxAttempts
       /\ pc' = [pc EXCEPT ![c] = "attempt"]
       /\ UNCHANGED outcome
    \/ /\ tries[c] >= MaxAttempts
       /\ pc' = [pc EXCEPT ![c] = "update"]
       /\ outcome' = [outcome EXCEPT ![c] = "failed"]

Flight(c) == <<c, tries[c]>>

(* Promise.race: the attempt has settled. *)
Settled(c) ==
    /\ up /\ pc[c] = "racing"
    /\ \/ /\ stage[Flight(c)] \in {"ok", "rejected"}
          /\ pc' = [pc EXCEPT ![c] = "update"]
          /\ outcome' = [outcome EXCEPT ![c] =
                           IF stage[Flight(c)] = "ok" THEN "succeeded" ELSE "failed"]
       \/ /\ stage[Flight(c)] = "transient"
          /\ Backoff(c)
    /\ UNCHANGED <<up, faultVars, approvalVars, ledger, receipts, remembered,
                   sent, req, tries, stage>>

(* Promise.race: the timer fires first.  The attempt is abandoned, and its  *)
(* flight goes on.                                                          *)
Timeout(c) ==
    /\ up /\ pc[c] = "racing"
    /\ stage[Flight(c)] \in {"calling", "acked"}
    /\ Backoff(c)
    /\ UNCHANGED <<up, faultVars, approvalVars, ledger, receipts, remembered,
                   sent, req, tries, stage>>

(* Mutant: a failed record is dropped so that the action can be retried. *)
UpdateDropsFailure(c) ==
    /\ up /\ pc[c] = "update"
    /\ ledger' = [ledger EXCEPT ![KeyOf(c)] =
                    IF outcome[c] = "failed" THEN "absent" ELSE outcome[c]]
    /\ pc' = [pc EXCEPT ![c] = "returned"]
    /\ UNCHANGED <<up, faultVars, approvalVars, receipts, remembered, sent,
                   req, tries, outcome, stage>>

(* JsonExecutionStore.update, and the return of run. *)
Update(c) ==
    /\ up /\ pc[c] = "update"
    /\ ledger' = [ledger EXCEPT ![KeyOf(c)] = outcome[c]]
    /\ pc' = [pc EXCEPT ![c] = "returned"]
    /\ UNCHANGED <<up, faultVars, approvalVars, receipts, remembered, sent,
                   req, tries, outcome, stage>>
-----------------------------------------------------------------------------
(* Failing writes: JsonExecutionStore.mutate rejects and keeps the old data *)
(* (a claim or an update throws out of run), RelayJsonStore.mutate rejects  *)
(* (saveReceipt fails the attempt with a plain Error).                      *)

DiskFault == /\ up
             /\ diskFaults < MaxDiskFaults
             /\ diskFaults' = diskFaults + 1

LedgerWriteFails(c) ==
    /\ DiskFault
    /\ pc[c] \in {"claim", "update"}
    /\ pc' = [pc EXCEPT ![c] = "threw"]
    /\ UNCHANGED <<up, crashes, approvalVars, ledger, receipts, remembered,
                   sent, req, tries, outcome, stage>>

ReceiptWriteFails(f) ==
    /\ DiskFault
    /\ stage[f] = "acked"
    /\ stage' = [stage EXCEPT ![f] = "rejected"]
    /\ UNCHANGED <<up, crashes, approvalVars, ledger, receipts, remembered,
                   sent, callVars>>

(* The process dies: calls and attempts are gone, and so is the memory of   *)
(* the in-process mock service.  A request already sent to Resend is not.   *)
Live == {"claim", "readExisting", "attempt", "racing", "update"}

AfterCrash(s) == IF Provider = "resend" /\ s \in {"calling", "wire"} THEN "wire" ELSE "none"

Crash ==
    /\ up /\ crashes < MaxCrashes
    /\ up' = FALSE
    /\ crashes' = crashes + 1
    /\ pc' = [c \in Calls |-> IF pc[c] \in Live THEN "lost" ELSE pc[c]]
    /\ stage' = [f \in Flights |-> AfterCrash(stage[f])]
    /\ remembered' = IF Provider = "mock" THEN {} ELSE remembered
    /\ UNCHANGED <<diskFaults, approvalVars, ledger, receipts, sent, req,
                   tries, outcome>>

(* Mutants: interrupted records are put back to pending, dropped, or left.  *)
ReclaimedAsPending(s) == IF s = "executing" THEN "pending" ELSE s
ReclaimedByDropping(s) == IF s = "executing" THEN "absent" ELSE s
ReclaimedNever(s) == s

(* The ledger is loaded and every interrupted record is reclaimed. *)
Reclaimed(s) == IF s = "executing" THEN "failed" ELSE s

Restart ==
    /\ ~up
    /\ up' = TRUE
    /\ ledger' = [k \in Keys |-> Reclaimed(ledger[k])]
    /\ UNCHANGED <<faultVars, approvalVars, receipts, remembered, sent,
                   callVars, stage>>
-----------------------------------------------------------------------------
CallStep(c) == Claim(c) \/ ReadExisting(c) \/ StartAttempt(c) \/ Settled(c)
                 \/ Timeout(c) \/ Update(c)

Next == \/ \E a \in Actions : RequestApproval(a)
        \/ \E a \in Actions : \E s \in {"approved", "denied", "invalidated"} : Decide(a, s)
        \/ \E c \in Calls : Begin(c) \/ CallStep(c) \/ LedgerWriteFails(c)
        \/ \E f \in Flights : \/ Deliver(f) \/ LoseAnswer(f) \/ ServiceRefuses(f)
                              \/ SaveReceipt(f) \/ ReceiptWriteFails(f)
        \/ Crash
        \/ Restart

Spec == Init /\ [][Next]_vars

(* Every started call is scheduled, its timers fire, its queued writes are  *)
(* performed, and a dead process is restarted.  Nothing is assumed of the   *)
(* e-mail service, which may never answer, or of the people who approve.    *)
Fairness == /\ \A c \in Calls : WF_vars(CallStep(c))
            /\ WF_vars(Restart)

FairSpec == Spec /\ Fairness
-----------------------------------------------------------------------------
(* Types, and the bound on attempts. *)
TypeOK ==
    /\ up \in BOOLEAN
    /\ crashes \in 0..MaxCrashes
    /\ diskFaults \in 0..MaxDiskFaults
    /\ approval \in [Actions -> {"none", "pending", "approved", "denied", "invalidated"}]
    /\ approvalHash \in [Actions -> Hashes]
    /\ ledger \in [Keys -> LedgerStatus]
    /\ receipts \subseteq Keys
    /\ remembered \subseteq Keys
    /\ sent \in [Keys -> Nat]
    /\ pc \in [Calls -> Pcs]
    /\ req \in [Calls -> Requests]
    /\ tries \in [Calls -> 0..MaxAttempts]
    /\ outcome \in [Calls -> Outcomes]
    /\ stage \in [Flights -> Stages]

(* Whatever the interleaving of duplicate calls, retries, attempts that     *)
(* outlive their timeout, crashes and late network requests, the e-mail of  *)
(* an action leaves the system at most once, over all its payloads.         *)
(* ExecutionService.run, JsonExecutionStore.claim and the dedupe of the     *)
(* e-mail service carry this together.                                      *)
AtMostOneEmail ==
    \A k, m \in Keys : k[1] = m[1] /\ sent[k] > 0 /\ sent[m] > 0
                         => k = m /\ sent[k] = 1

(* What was sent is what a human approved: the content of every e-mail has  *)
(* the hash the approval record carries, and the approval stands.           *)
(* RelayApprovalVerifier and BaseEmailExecutor.validate carry this.         *)
OnlyApprovedContentSent ==
    \A k \in Keys : sent[k] > 0 => /\ approval[k[1]] = "approved"
                                   /\ approvalHash[k[1]] = k[2]

(* Success is never reported for an e-mail that was not sent: neither by    *)
(* the ledger nor by the outcome a call returns, its own or the stored one. *)
(* A receipt always stands for a sent e-mail.                               *)
SuccessIsReal ==
    /\ \A k \in Keys : ledger[k] = "succeeded" => k \in receipts
    /\ \A c \in Calls : outcome[c] = "succeeded" => KeyOf(c) \in receipts
    /\ \A k \in receipts : sent[k] = 1

(* At most one call is between its claim and its verdict for a key, and the *)
(* record says "executing" while it is.  This is the "single winner" of     *)
(* ExecutionStore.claim over the whole retry loop.                          *)
Executing(c) == pc[c] \in {"attempt", "racing", "update"}

SingleWinner ==
    \A c \in Calls : Executing(c) =>
        /\ ledger[KeyOf(c)] = "executing"
        /\ \A d \in Calls : Executing(d) /\ KeyOf(d) = KeyOf(c) => d = c

(* A terminal record is final: no late claim, update, retry or restart      *)
(* reopens or flips it.                                                     *)
TerminalIsFinal ==
    [][\A k \in Keys : ledger[k] \in Terminal => ledger'[k] = ledger[k]]_vars

(* An e-mail leaves only while its key holds a ledger record: no send       *)
(* without a persisted claim.                                               *)
SendNeedsClaim ==
    [][\A k \in Keys : sent'[k] # sent[k] => ledger[k] # "absent"]_vars

(* Every claimed key reaches a terminal record and every call that was      *)
(* started returns, throws or dies with the process, through retries, a     *)
(* service that never answers, crashes and restarts.  A failing write       *)
(* excuses the record, until the next restart, and not the call.            *)
CallsSettle ==
    /\ \A k \in Keys : ledger[k] = "executing" ~> (ledger[k] \in Terminal \/ diskFaults > 0)
    /\ \A c \in Calls : pc[c] \in Live ~> pc[c] \in {"returned", "threw", "lost"}

(* The path implements the abstract promise. *)
Effect == INSTANCE AtMostOnceEffect
            WITH verdict <- ledger, effects <- {k \in Keys : sent[k] > 0}
ImplementsEffect == Effect!EffectSpec
-----------------------------------------------------------------------------
(* The inductive invariant behind the safety properties, in parts.          *)

(* A call past Begin made a request that was cleared for its approval; a    *)
(* racing call waits for an attempt it made; a call about to write its      *)
(* verdict has one.                                                         *)
CallsCleared ==
    \A c \in Calls :
        /\ pc[c] \in Live => up
        /\ pc[c] \in Live /\ req[c].type = "SEND_EMAIL" => Satisfied(req[c])
        /\ pc[c] = "racing" => tries[c] \in 1..MaxAttempts
        /\ pc[c] = "update" => outcome[c] \in Terminal

(* An attempt on its way belongs to a claimed key and a cleared, valid      *)
(* request.  Without a process only requests on the wire to Resend remain.  *)
FlightsCleared ==
    \A f \in Flights : stage[f] # "none" =>
        /\ ledger[KeyOf(f[1])] # "absent"
        /\ (stage[f] \in {"calling", "acked", "wire"} => Satisfied(req[f[1]]))
        /\ (stage[f] = "wire" => Provider = "resend")
        /\ (~up => stage[f] = "wire")

(* The heart of at-most-once: nobody who can still send holds a key that    *)
(* was sent and that the service has forgotten.                             *)
NoForgottenSend ==
    /\ \A k \in remembered : sent[k] = 1
    /\ \A c \in Calls : Executing(c) => sent[KeyOf(c)] = 0 \/ KeyOf(c) \in remembered
    /\ \A f \in Flights : stage[f] \in {"calling", "wire"} =>
           sent[KeyOf(f[1])] = 0 \/ KeyOf(f[1]) \in remembered

SentOnce ==
    \A k \in Keys :
        /\ sent[k] \in {0, 1}
        /\ sent[k] = 1 => /\ ledger[k] # "absent"
                          /\ approval[k[1]] = "approved"
                          /\ approvalHash[k[1]] = k[2]

(* Evidence of success is passed on only after the fact it stands for. *)
EvidenceOfSuccess ==
    /\ SuccessIsReal
    /\ \A f \in Flights :
        /\ stage[f] = "acked" => sent[KeyOf(f[1])] = 1
        /\ stage[f] = "ok" => KeyOf(f[1]) \in receipts

IndInv == /\ TypeOK
          /\ CallsCleared
          /\ FlightsCleared
          /\ SingleWinner
          /\ NoForgottenSend
          /\ SentOnce
          /\ EvidenceOfSuccess
=============================================================================
