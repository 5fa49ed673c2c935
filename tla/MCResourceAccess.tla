--------------------------- MODULE MCResourceAccess ---------------------------
(* The demo's agents for TLC, with the manifests they are provisioned with, *)
(* and for outreach internal_write besides, so that a draft may take effect. *)
EXTENDS ResourceAccess

Demo == {"research", "strategy", "outreach"}
DemoGraph == [t \in Demo |-> CASE t = "research" -> {}
                               [] t = "strategy" -> {"research"}
                               [] t = "outreach" -> {"strategy"}]

Scope(covers, permits) == [covers |-> covers, permits |-> permits]
DemoAgent ==
    [t \in Demo |->
        CASE t = "research" -> [tools |-> {"resource.read"}, permissions |-> {"read"},
                                scopes |-> <<Scope({"market"}, {"read"})>>]
          [] t = "strategy" -> [tools |-> {}, permissions |-> {"read"}, scopes |-> <<>>]
          [] t = "outreach" -> [tools |-> {"resource.read"},
                                permissions |-> {"read", "internal_write", "external_write"},
                                scopes |-> <<Scope({"customer"}, {"read"})>>]]

(* One item, two with one that was perhaps not read, one that mixes both.   *)
DemoAnswers == {{{"market"}}, {{"market"}, {"customer"}}, {{"market", "customer"}}, {{}}}

DemoProposals == [t \in Demo |->
    CASE t = "research" -> {"none"}
      [] t = "strategy" -> {"UPDATE_PRICING"}
      [] t = "outreach" -> {"SEND_EMAIL", "CREATE_INTERNAL_DRAFT", "UNKNOWN"}]
=============================================================================
