--------------------------- MODULE AtMostOnceEffect ---------------------------
(***************************************************************************)
(* What the protected execution path promises to the workflow, said        *)
(* without calls, attempts, timeouts or crashes.  Every idempotency key    *)
(* has a ledger verdict, an external effect (the e-mail it sends) and, in  *)
(* time, a receipt for the effect.                                         *)
(*                                                                         *)
(*   - an effect needs a claim, and happens at most once per key;          *)
(*   - a receipt stands for an effect;                                     *)
(*   - a verdict is final, and "succeeded" is only given to a key with a   *)
(*     receipt;                                                            *)
(*   - "failed" promises nothing: the effect may have happened before the  *)
(*     verdict, and an abandoned attempt may still make it happen later.   *)
(*                                                                         *)
(* The last point is the honest reading of RecoveryService.attempt, which  *)
(* abandons a timed-out attempt and cannot abort it.                       *)
(***************************************************************************)
CONSTANT Keys

VARIABLES
    verdict,   \* the ledger row of every key
    effects,   \* the keys whose e-mail has left the system
    receipts   \* the keys with a stored receipt

effectVars == <<verdict, effects, receipts>>

Verdicts == {"absent", "executing", "succeeded", "failed"}

EffectTypeOK == /\ verdict \in [Keys -> Verdicts]
                /\ effects \subseteq Keys
                /\ receipts \subseteq Keys

EffectInit == /\ verdict = [k \in Keys |-> "absent"]
              /\ effects = {}
              /\ receipts = {}

(* A key that nobody holds is claimed. *)
Open(k) == /\ verdict[k] = "absent"
           /\ verdict' = [verdict EXCEPT ![k] = "executing"]
           /\ UNCHANGED <<effects, receipts>>

(* The effect of a claimed key happens, before or after its verdict. *)
TakeEffect(k) == /\ verdict[k] # "absent"
                 /\ k \notin effects
                 /\ effects' = effects \cup {k}
                 /\ UNCHANGED <<verdict, receipts>>

(* The receipt of an effect is stored, before or after the verdict. *)
Acknowledge(k) == /\ k \in effects
                  /\ receipts' = receipts \cup {k}
                  /\ UNCHANGED <<verdict, effects>>

Succeed(k) == /\ verdict[k] = "executing"
              /\ k \in receipts
              /\ verdict' = [verdict EXCEPT ![k] = "succeeded"]
              /\ UNCHANGED <<effects, receipts>>

(* A set of executing keys fails in one step: one key when its attempts are *)
(* used up, all of them when a restart reclaims what a crash interrupted.   *)
Fail(K) == /\ \A k \in K : verdict[k] = "executing"
           /\ verdict' = [k \in Keys |-> IF k \in K THEN "failed" ELSE verdict[k]]
           /\ UNCHANGED <<effects, receipts>>

EffectNext == \/ \E k \in Keys : Open(k) \/ TakeEffect(k) \/ Acknowledge(k) \/ Succeed(k)
              \/ \E K \in SUBSET Keys : Fail(K)

EffectSpec == EffectInit /\ [][EffectNext]_effectVars
===============================================================================
