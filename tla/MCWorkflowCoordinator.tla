------------------------ MODULE MCWorkflowCoordinator ------------------------
(* The sales-recovery workflow of domain/demo-workflow.ts, and broken    *)
(* workflows, for TLC.                                                      *)
EXTENDS WorkflowCoordinator, Sequences

CONSTANTS research, finance, strategy, outreach

Workflow(strategyOn, outreachOn, repeated) ==
    [dependsOn |-> [t \in Tasks |-> CASE t = strategy -> strategyOn
                                      [] t = outreach -> outreachOn
                                      [] OTHER -> {}],
     capability |-> [t \in Tasks |-> t],
     permissions |-> [t \in Tasks |-> {t}],
     repeated |-> repeated]

Roots == {research, finance}
Demo == Workflow(Roots, {strategy}, {})

(* The broken ones: a cycle behind the roots, a task on itself, a           *)
(* dependency and a capability nobody knows, an id declared twice.          *)
SomeWorkflows ==
    {Demo, Workflow(Roots \cup {outreach}, {strategy}, {}), Workflow(Roots, {outreach}, {}),
     Workflow({"nothing"}, {strategy}, {}), Workflow(Roots, {strategy}, {finance}),
     [Demo EXCEPT !.capability[finance] = "nothing"]}

Agent(t, runnable, permissions) ==
    [capabilities |-> {t}, runnable |-> runnable, permissions |-> permissions]

Able(t) == Agent(t, TRUE, {t})

(* The four agents; the one for a root or for the last task without its     *)
(* permissions; two for one task, where the first cannot run or lacks the   *)
(* permission.                                                              *)
SomeRegistries ==
    {<<Able(research), Able(finance), Able(strategy), outreachAgent>> :
        outreachAgent \in {Able(outreach), Agent(outreach, TRUE, {})}}
    \cup {<<Able(research), Agent(finance, runnable, {}), Able(strategy), Able(outreach)>>
             \o more : runnable \in BOOLEAN, more \in {<<>>, <<Able(finance)>>}}

TwoAttempts == [t \in Tasks |-> 2]
=============================================================================
