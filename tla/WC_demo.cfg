\* The demo workflow and others: refusals, retries, tasks nobody can take,
\* failing writes.
SPECIFICATION FairSpec
CONSTANTS
    research = research
    finance = finance
    strategy = strategy
    outreach = outreach
    Tasks = {research, finance, strategy, outreach}
    Workflows <- SomeWorkflows
    Registries <- SomeRegistries
    MaxAttempts <- TwoAttempts
    Slots = {1}
    MaxTicks = 12
    MaxFaults = 2
\* The workflow ends.
CHECK_DEADLOCK FALSE
INVARIANTS
    TypeOK
    DependenciesFirst
    SessionVerdict
    GrantsAreRunScoped
    ActionsOfLastAttempt
PROPERTIES
    LoopReachesVerdict
