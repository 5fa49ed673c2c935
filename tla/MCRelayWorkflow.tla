--------------------------- MODULE MCRelayWorkflow ---------------------------
(* Small sessions of RelayWorkflow for TLC. *)
EXTENDS RelayWorkflow

CONSTANTS mail1, mail2, price, purge

(* Two protected actions, whose decisions overlap; the e-mail first and     *)
(* followed by a prohibited action; and what the demo's strategy and        *)
(* outreach agents propose: a price change and then the e-mail.             *)
AllProposals == {<<mail1, mail2>>, <<mail1, purge>>, <<price, mail1>>}
PriceThenMail == {<<price, mail1>>}

DemoType == [a \in Actions |-> CASE a = price -> "UPDATE_PRICING"
                                 [] a = purge -> "DELETE_PROTECTED_DATA"
                                 [] OTHER -> "SEND_EMAIL"]
DemoProducer == [a \in Actions |-> IF a = price THEN {"read"} ELSE {"read", "external_write"}]
=============================================================================
