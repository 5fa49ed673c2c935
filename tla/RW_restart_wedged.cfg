\* A crash in a decision on an action that is not the first of the session.
SPECIFICATION Spec
CONSTANTS
    mail1 = mail1
    mail2 = mail2
    price = price
    purge = purge
    Actions = {mail1, price}
    Proposals <- PriceThenMail
    Type <- DemoType
    Producer <- DemoProducer
    Support = {"accepted"}
    Deciders = {d1}
    Scenarios = {"normal"}
    MaxCrashes = 1
    MaxFaults = 0
    MaxChanges = 0
\* Requests are one-shot: the system stops when all have ended.
CHECK_DEADLOCK FALSE
INVARIANTS
    NeverWedged
