------------------------- MODULE MCProtectedExecution -------------------------
(* Small instances of ProtectedExecution for TLC. *)
EXTENDS ProtectedExecution, TLC

CONSTANTS a1, h1, h2

(* What decideApproval passes for an approved payload h. *)
Approved(a, h) == [action |-> a, type |-> "SEND_EMAIL", content |-> h, hash |-> h,
                   idemKey |-> <<a, h>>, decision |-> "REQUIRE_APPROVAL"]

(* Concurrent duplicates of one approval: raceConcurrentExecutions, a second *)
(* click, a replay after a restart.                                          *)
DuplicateRequests == {Approved(a1, h1)}

(* Every way a caller may get its arguments wrong, around a good request:    *)
(* another payload of the same action, a payload changed after it was hashed *)
(* (with and without the hash kept), the empty key of the bypass scenario, a *)
(* foreign key, decisions that must not reach the boundary, a type without   *)
(* an executor.                                                              *)
CallerMistakes ==
    {Approved(a1, h1),
     Approved(a1, h2),
     [Approved(a1, h1) EXCEPT !.content = h2],
     [Approved(a1, h1) EXCEPT !.idemKey = NoKey],
     [Approved(a1, h1) EXCEPT !.idemKey = <<a1, h2>>],
     [Approved(a1, h1) EXCEPT !.decision = "AUTO_EXECUTE"],
     [Approved(a1, h1) EXCEPT !.decision = "DENY"],
     [Approved(a1, h1) EXCEPT !.type = "OTHER", !.decision = "AUTO_EXECUTE"]}

CallSymmetry == Permutations(Calls)
===============================================================================
