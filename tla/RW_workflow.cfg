\* Two requests decide the protected actions of every kind of session.
SPECIFICATION FairSpec
CONSTANTS
    mail1 = mail1
    mail2 = mail2
    price = price
    purge = purge
    Actions = {mail1, mail2, price, purge}
    Proposals <- AllProposals
    Type <- DemoType
    Producer <- DemoProducer
    Support = {"accepted"}
    Deciders = {d1, d2}
    Scenarios = {"normal", "duplicate_approval", "bypass_protection"}
    MaxCrashes = 1
    MaxFaults = 2
    MaxChanges = 1
\* Requests are one-shot: the system stops when all have ended.
CHECK_DEADLOCK FALSE
INVARIANTS
    TypeOK
    EffectsApproved
    KeyIsFree
    CompletedHasReceipt
    WaitsForSomebody
PROPERTIES
    DecisionIsFinal
    FinishedStaysFinished
    ApprovedResolves
