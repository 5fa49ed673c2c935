\* Three tasks in a row read, answer, fail and are tried again.
SPECIFICATION Spec
CONSTANTS
    Tasks <- Demo
    DependsOn <- DemoGraph
    Agent <- DemoAgent
    Resources = {"market", "customer", "finance"}
    Answers <- DemoAnswers
    Proposals <- DemoProposals
    Scenarios = {"normal", "timeout", "resource_scope_breach", "evidence_acceptance", "denial"}
    MaxAttempts = 2
    MaxPending = 2
    MaxExpired = 1
\* The workflow ends.
CHECK_DEADLOCK FALSE
INVARIANTS
    TypeOK
    VerdictsAreFair
    EffectsRestOnEvidence
