--------------------------- MODULE AutomationPolicy ---------------------------
(***************************************************************************)
(* The deterministic policy of AgentRelay: the server-side registry of     *)
(* action types and decideAutomation.  An action names its type only: what *)
(* it risks is the registry's to say, never the agent's.                   *)
(***************************************************************************)

Permissions == {"read", "internal_write", "external_write", "destructive"}
Decisions == {"AUTO_EXECUTE", "REQUIRE_APPROVAL", "RECOMMEND_ONLY", "DENY"}

Risk(impact, scope, permission, prohibited) ==
    [impact |-> impact, targetScope |-> scope, requiredPermission |-> permission,
     prohibited |-> prohibited]

(* ACTION_REGISTRY. *)
Registry ==
    [CREATE_INTERNAL_DRAFT |-> Risk("low", "internal", "internal_write", FALSE),
     SEND_EMAIL            |-> Risk("low", "external", "external_write", FALSE),
     UPDATE_PRICING        |-> Risk("high", "external", "external_write", FALSE),
     DELETE_PROTECTED_DATA |-> Risk("critical", "protected", "destructive", TRUE)]

ActionTypes == DOMAIN Registry

(* What an action may do on the evidence of its session, given as the set   *)
(* of the statuses in it.  (Mutant: rejected evidence is overlooked.)       *)
SupportedAnyway(statuses) == "accepted" \in statuses
Supported(statuses) == "accepted" \in statuses /\ "rejected" \notin statuses

(* decideAutomation for an action of the given type, proposed by an agent   *)
(* of the registry with these permissions.                                  *)
Decide(type, statuses, permissions) ==
    IF type \notin ActionTypes THEN "DENY"
    ELSE LET risk == Registry[type] IN
         IF risk.prohibited THEN "DENY"
         ELSE IF risk.impact \in {"high", "critical"} THEN "RECOMMEND_ONLY"
         ELSE IF risk.requiredPermission \notin permissions THEN "DENY"
         ELSE IF ~Supported(statuses) THEN "RECOMMEND_ONLY"
         ELSE IF risk.targetScope \in {"external", "protected"} THEN "REQUIRE_APPROVAL"
         ELSE "AUTO_EXECUTE"
=============================================================================
