# A verification development for AgentRelay

AgentRelay is a single Node process that runs AI agents through a controlled
workflow: a coordinator executes the tasks of a session, a policy decides which
proposed actions need a human, and an execution path performs an approved
action (an e-mail) at most once. State lives in JSON files that are replaced
atomically on every write. There is no database and no lock manager: everything
that goes wrong, goes wrong between two awaits, in a failing write, or in a
crash. These modules model that.

Paths below are relative to `src/apps/server/src/` unless they say otherwise.

## 1. Inventory

| Component | State | Operations | What makes it correct |
|---|---|---|---|
| Execution path: `application/execution-service.ts`, `recovery-service.ts` | none of its own; attempts in flight | `run`, attempts with a timeout and bounded retries | an e-mail leaves at most once, only with an approval for its contents; success is never invented; every call ends |
| Idempotency ledger: `adapters/json-execution-store.ts` | one record per `session\|action\|hash`: executing, succeeded, failed | `claim` (compare-and-set), `update`, `get`, `reclaimInterrupted` on load | one winner per key; a terminal record is final; nothing stays executing for ever |
| E-mail executors: `application/email-executor.ts`, `adapters/mock-*.ts` | receipts (relay store); the mock's memory of what it sent | `execute`: validate, receipt short cut, deliver, `saveReceipt` | a receipt stands for a sent e-mail |
| Approval verifier: `application/relay-approval-verifier.ts` | reads approvals | `isSatisfied` | binds approval to contents |
| Relay workflow: `application/relay-workflow-service.ts` | session status, approvals, `active`, `decisions`, `sessionScenarios` | `createSession`, `runCoordinator`, `applyPolicy`, `decideApproval`, `getSession`, `initialize` | a decision is exclusive and final; no session is wedged; a restart tells the truth; no view hides an approval |
| Coordinator: `application/coordinator.ts`, `scheduler.ts`, `task-lifecycle.ts`, `dag-validator.ts`, `capability-router.ts`, `recording-agent-executor.ts` | tasks, attempts, evidence, actions, grants | `createSession`, `start`, `tick`, `executeTask` | broken workflows are refused; dependencies first, bounded attempts, the session gets its verdict |
| Policy: `automation-decision-service.ts`, `risk-classifier.ts` | a constant registry | `decideAutomation` | fail closed |
| Evidence: `evidence-acceptance.ts`, `context-builder.ts`, `codex-agent-adapter.ts` | evidence in the relay store | `assessEvidence`, `buildContext`, `executeTask` of the adapter | accepted exactly when it rests on authorised reads |
| Resource gateway: `resource-gateway-service.ts`, `access-grant-service.ts`, `tool-policy-service.ts` | grants, authorised source references | `issueGrant`, `revokeGrant`, `evaluate`, `readResource` | no reference without a read within scope |
| Agent lifecycle: `agent-service.ts` | agents, runs, messages; `activeExecutions`, `cancellationRequests` | create, send, stop, start, delete, `executeRun`, `initialize` | one process per agent; stop stops; nothing stays busy |
| Runners: `codex-runner.ts`, `container-codex-runner.ts` | child process, timers; a container of the Agent's name | `run`, `cancel`, timeout, output limit | one child per agent; a cancel ends it; no interrupted run is called completed |
| Gemini adapter: `gemini-responses-adapter.ts` | transcripts of conversations, in memory | a response, with or without a previous one | every follow-up carries what led to it |
| Stores: `store.ts`, `relay-store.ts` | a JSON aggregate and a write queue | `mutate`, `snapshot` | serial, atomic, durable |
| Dashboard: `apps/web/src/AgentRelayDashboard.tsx` | the session it shows, a poll timer | poll, open, create, decide | it keeps polling as long as there is something to learn |
| Playground: `apps/web/src/App.tsx`, `api.ts` | the selected Agent, its messages and run, polling loops | select, send, create, start, stop, delete, poll | it shows the selected Agent, and in the end what the server has |
| HTTP routes, configuration, demo scripts, deployment and more | - | - | outside the models, see section 15 |

How they interact: the HTTP layer calls the workflow service and the agent
service. The workflow service starts a coordinator per session and does not
await it; the coordinator calls agents through the recording executor, the Codex
adapter and a runner, and records actions in the relay store. An agent reads
through the gateway with a grant of its attempt; what it read decides which of
its evidence is accepted, and that decides with the registry what its actions may
do. `applyPolicy` turns actions into pending approvals. A later request,
`decideApproval`, saves the decision and runs the execution path, which claims
the key in the ledger, sends, stores a receipt in the relay store and updates the
ledger. On a restart the ledger is loaded first, then the workflow service
reconciles sessions. The clients poll all of it over requests whose answers come
in any order.

What is hard: timed-out attempts that cannot be aborted; duplicate executions;
two stores (ledger and relay store) that are written one after the other and can
be separated by a crash or a failing write; requests that overlap with each
other and with the background workflow; reads judged before and delivered after
a grant has ended; a memory (`decisions`, `sessionScenarios`, conversations, the
mock service) that a restart empties; containers that outlive the process that
asked for them; clients whose answers overtake each other.

## 2. The plan

| | Module | Subject | State |
|---|---|---|---|
| A | `AtMostOnceEffect` | abstract promise of the execution path | done |
| A | `ProtectedExecution` | the execution path; refines A's promise | done, proved |
| B | `AutomationPolicy` | `decideAutomation` over its registry; used by B and E | done |
| B | `RelayWorkflow` | approvals, policy, restart; uses A's promise through `INSTANCE` | done, proved |
| C | `WorkflowCoordinator` | validation, ticks, retries, evidence and grants under failing writes | done, proved |
| D | `AgentLifecycle` | `AgentService` over the write queue and the Codex runner: stop, delete and restart races | done, proved |
| E | `ResourceAccess` | grants, the gateway, evidence and the policy, for the agents of one workflow | done, proved |
| F | `RelayDesk` | the dashboard over the views of the workflow service | done, proved |
| G | `WebClient` | the playground over the agent service | done, proved |
| H | `GeminiConversations` | the memory of the Gemini adapter | done, proved |
| I | `ContainerRunner` | the removal of a container against its creation | done, proved |
| J | `AtomicJsonStore` | the write queue and the file implement a serial store | open |

"Proved" is said of the safety properties; the proofs about a module `M` are in
`MProofs`, those about H and I in `RunnerProofs`. Every safety property that a
run checks is proved, and with them the safety that most of the liveness
properties rest on (section 14). Still worth writing, and proving, is that
`AtomicJsonStore` implements a serial store.

## 3. Module A: the execution path

`ProtectedExecution` has any number of calls of `ExecutionService.run`, each with
its arguments (`req`), its place (`pc`), attempt number (`tries`) and `outcome`;
one *flight* per attempt, which is the run of `executor.execute` that
`Promise.race` may abandon (`stage`); the ledger, the receipts, what the e-mail
service remembers and what it sent.

A step is what the event loop runs between two awaits that can really suspend.

| Action | Code |
|---|---|
| `Begin` | `run` up to the claim: throws, refusals, `isSatisfied` |
| `Claim`, `ReadExisting` | `JsonExecutionStore.claim`; the loser reads the record in a later step |
| `StartAttempt` | loop head of `RecoveryService.run`, `validate`, receipt short cut |
| `Deliver`, `LoseAnswer`, `ServiceRefuses` | the e-mail service answers, its answer is lost (Resend), or it refuses |
| `SaveReceipt`, `ReceiptWriteFails` | `saveReceipt` in the relay store |
| `Settled`, `Timeout` | the two ways `Promise.race` can end; a timeout leaves the flight running |
| `Update`, `LedgerWriteFails` | `JsonExecutionStore.update` and a failing `persist` |
| `Crash`, `Restart` | the process ends; load and `reclaimInterrupted`. A request on the wire to Resend survives a crash (`wire`); the memory of the in-process mock does not |
| `RequestApproval`, `Decide` | the approval records this path reads |

`Provider` selects the mock service (dedupes on session and action, forgets on a
crash) or Resend (dedupes on the key it is sent, remembers). Resend is modelled
from how `email-executor.ts` uses it: an `Idempotency-Key` header that is
honoured. For the mock, the delivery is a step of its own although the service
runs in the same turn as the attempt: the model allows more interleavings than
the program.

`AtMostOnceEffect` says what all this amounts to: a key is claimed once, its
effect needs the claim and happens at most once, a receipt stands for an effect,
a verdict is final, "succeeded" needs a receipt and "failed" promises nothing.
`ImplementsEffect` checks the refinement (verdict is the ledger, the effect is
`sent[k] > 0`), and `Refinement` proves it.

### Properties

- `AtMostOneEmail` per action, over all its payloads.
- `OnlyApprovedContentSent`: a sent e-mail has the hash of a standing approval.
- `SuccessIsReal`: succeeded records and outcomes stand on receipts, receipts on
  sent e-mails.
- `SingleWinner`: one executor per key, over the whole retry loop.
- `ImplementsEffect`: the refinement above.
- `TerminalIsFinal`, `SendNeedsClaim`: a terminal record never changes, nothing is
  sent without a claim. Both are proved (section 13) and follow from the
  refinement in the runs.
- `CallsSettle`: every call ends, and every claim reaches a verdict unless a
  ledger write failed. Fairness is weak fairness of each call's
  own steps (the event loop schedules it, its timers fire, queued writes are
  performed) and of the restart. Nothing is assumed of the e-mail service.

## 4. Module B: the workflow of a session

`AutomationPolicy` is the registry of action types and `decideAutomation` as
operators: what an action may do is a function of its type, of the statuses of
the session's evidence and of the permissions of the agent that proposed it. An
action says nothing about its own risk.

`RelayWorkflow` starts where the coordinator ends (it leaves the session
completed or failed) and follows one session: `applyPolicy` round by round,
decide requests step by step, executions as steps of `AtMostOnceEffect`, crashes
and the reconciliation of `initialize`. Which actions the session has, in which
order the store returns them, and its scenario are chosen in `Init`; what the
policy makes of them is `Decide` of `AutomationPolicy`. An action stands for the
key of its approved payload: `decideApproval` checks the hash of the very object
it passes on, so no other key of the action can be claimed.

| Action | Code |
|---|---|
| `CoordinatorEnds` | `runCoordinator` up to `applyPolicy` |
| `PolicyRound`, `PolicyEnds` | the loop of `applyPolicy`, and its last write |
| `PolicyFault`, `PolicyCatch`, `CatchFails` | a failing write; the catch block; a failing write in the catch block, which rejects a promise nobody handles and ends the process |
| `ChangeAction` | the stored action is rewritten after its approval was requested (what the payload hash is there for) |
| `Submit` | the lock and the checks of `decideApproval`, all before its first write |
| `Invalidate`, `SaveDecision`, `RunBegins`, `RunEnds`, `SaveStatus` | its writes, in their order |
| `Send`, `StoreReceipt` | the executor at work, also for an attempt that was abandoned |
| `RequestFault` | a failing write in each place, with the handler that applies there |
| `Crash`, `Restart` | memory is lost; the ledger is reclaimed, then `initialize` |

A request never loses the claim of its key, so the branch of `decideApproval`
that answers "already in progress" is not a step of the model. That this is no
omission is the invariant `KeyIsFree`: a request at its execution always finds
the ledger without a row for the key.

### Properties

- `EffectsApproved`, `DecisionIsFinal`: what the `decisions` set and the pending
  check are for.
- `CompletedHasReceipt`: outside the `duplicate_approval` scenario (which saves
  completed whatever its executions returned) a completed session with an
  approved action has a receipt.
- `WaitsForSomebody`: without a crash, a failing write or changed contents, a
  session never waits for a decision that nobody can take any more.
- `FinishedStaysFinished`: with one protected action a finished session is not
  reopened. With two it is: overlapping decisions save their status over each
  other's, which is listed as a hazard.
- `ApprovedResolves`: liveness, under weak fairness of the workflow, of each
  request and of the restart. It excuses runs with a failing write (the trace
  write at line 182 is outside the inner `try`, and its failure leaves the
  session open until the next restart) and sessions whose protected action is
  not the first one (section 11).

## 5. Module C: the coordinator of a session

`WorkflowCoordinator` follows one session from `createSession`'s checks of the
workflow to the point where `runCoordinator` calls `applyPolicy`, where module B
takes over, or to the end of its catch block. The workflow handed in and the
registered agents are chosen in `Init`, broken ones among them. The tasks of a
tick run concurrently, each through the places of `executeTask`. `task` is the
array the coordinator keeps, `store` what was saved of it; they differ while a
tick runs and after a failing write.

| Action | Code |
|---|---|
| `Validate` | the checks for every capability and `validateTaskDag`: refused with nothing saved, or the session is saved |
| `Reconcile`, `ReconcileFails` | `reconcileReadiness` and `updateSessionStatus`; in `start` a failure throws out of `createSession` and leaves the session to nobody (`abandoned`) |
| `BeginTick`, `EndTick`, `TickRejects` | `runTick`: `Promise.all` over the ready tasks resolves, or rejects with the first task that throws while the others run on |
| `LeaveLoop`, `CatchFailure` | the loop and the catch block of `runCoordinator` |
| `Unassign`, `Start`, `Invoke` | routing by capability, permission and state, the transition to running with its guard on attempts, the grant |
| `AgentAnswers`, `AgentFails` | `RecordingAgentExecutor.execute` and the `finally` that revokes the grant |
| `Complete`, `PersistEvidence`, `CatchTask` | the transition to completed, the evidence, and the catch block with its retry |
| `TaskFault` | a failing write at every place of `executeTask`, before or after the record it goes with was saved |

Every change of a task's status goes through `Transitioned`, which is
`transitionTask` with its table of allowed transitions and its bound on attempts.
The writes of one place are one step: they are queued together in one store, and
a failing one leaves any subset of them. An agent answers or fails at any time;
which of its evidence is accepted and what its actions are is module E's.

### Properties

- `DependenciesFirst`: a task is at work only over dependencies that the store
  has as completed, with the evidence of their last attempt, through retries and
  failing writes.
- `SessionVerdict`: completed means every stored task is; failed has a reason.
- `LoopReachesVerdict`: liveness, under weak fairness of the loop and of each task
  (an agent answers, fails, or is stopped by the timeout of its runner). A
  workflow is refused, or its loop ends and hands a session to the policy that is
  completed or failed. So the validation lets no graph through that could stall,
  and the 12 ticks of `runCoordinator` are enough for the demo graph with all its
  retries.
- `GrantsAreRunScoped`, `ActionsOfLastAttempt`: without a failing write a grant
  lives only as long as its attempt, and the policy judges only what the last
  attempt proposed. With a failing write both are false, as the hazards say.
- `TypeOK` includes the bound on attempts.

## 6. Module D: the life of an Agent

`AgentLifecycle` follows one Agent: messages that become runs, and requests to
stop, start or delete it. A mutation waits in `queue`, the chain of promises in
`JsonStore`, and is written whole or not at all; what its caller does next belongs
to the same step, up to the next mutation, process or rename, since nothing but
microtasks runs in between. That the queue is first in, first out matters: the
first mutation of a run is queued when its message is written, behind whatever
arrived meanwhile.

| Action | Code |
|---|---|
| `SendMessage`, `WriteSend` | `sendMessage`: its mutation with the status checks, then `executeRun` up to its first mutation, and `activeExecutions` |
| `WriteBegin` | the run becomes running; the cancellation check, the runner's check, the process |
| `Expire`, `ChildCloses` | timer or output bound of `CodexRunner`, and the end of `run`; the mutation that follows is queued, and whoever waits in `runner.cancel` goes on |
| `WriteFinish` | the mutation after `runner.run`, in `try` or in `catch`; whoever awaits the execution goes on |
| `RequestCancel`, `Archive`, `RequestStart`, `WriteControl` | `stopAgent`, `deleteAgent`, `startAgent`; `Cancel` and `Release` are `cancelExecution` before and after its waits |
| `WriteFails` | a failing write, with the handler of whoever made it |
| `Crash`, `Restart` | the server dies, processes may survive it; `initialize` |

### Properties

- `OneProcess`: runs can overlap (section 11), processes cannot.
- `StopEndsEarlierRuns`: what a stop or delete promises about the runs it found.
  It has an exception, which the proof uncovered. Requests that stop the same
  Agent share one entry of `cancellationRequests`, and the first to end removes it
  (`agent-service.ts:336`) while another still waits. A run that is queued may
  then begin and get a process, and when a later run fails at once because the
  runner is busy, the other stop, which awaits only the run registered last,
  returns over a living process that it found when it came. `earlier` is the
  record of the runs that a request can be held to, and `Forsake` takes the ones
  that had not begun off it when the entry is removed. Without the exception the
  property is false, in a behaviour of four messages and six requests; in the run
  below it makes no difference.
- `OutcomeIsFinal`, `DeletedLeavesNothing`: what is reported stays true through
  races, restarts and late answers.
- `BusyHasRun`: an Agent does not stay busy with nothing under way, unless a write
  failed, after which it does until it is stopped.
- `EverythingEnds`: every run ends unless a write failed, and every request is
  answered, also with failing writes and crashes.
- `TypeOK` also says that the three registers (`activeExecutions`, the runner's
  map, the queue) only name what is under way.

Fairness: queued writes are performed, timers fire, a signalled process closes
(the second signal cannot be ignored), a rename ends, a dead server is started
again. A process that is left alone may go on for ever.

## 7. Module E: what agents read, and what becomes of what they say

`ResourceAccess` follows the agents of one workflow from the grant to the policy.
A resource is a name that some scopes cover, so the decoding and normalisation of
`parseResource` comes down to which scopes cover it; a malformed name is one that
none covers. A read has two halves: it is judged, and after two trace writes and
a file read it is delivered and its reference noted for the task and its agent.
Between the two the grant may be revoked or expire, and the attempt may be over.

| Action | Code |
|---|---|
| `IssueGrant`, `Execute` | the part of `executeTask` up to the agent; the controlled scenarios; the adapter's reads through `resourcesForTask` |
| `AskGateway` | a read by the agent's process, with the grant in its environment, also after the attempt |
| `Deliver`, `FailRead` | the second half of `readResource` |
| `StartAgent`, `Answer`, `FailAgent` | the agent at work; the recording executor rewrites answers in the scenarios `evidence_acceptance` and `denial`, and stores a spoofed record in the first |
| `EndAttempt`, `ExpireGrant` | the `finally` that revokes, completion or retry; the expiry that `evaluate` sees |
| `PersistEvidence` | `persistEvidence` with `buildContext` and `assessEvidence` |
| `ApplyPolicy` | `decideAutomation` of every action over the session's evidence |

`AccessGrantService` keeps grants in memory, and a restart fails a running
session: there is no crash in this module. Evidence of an earlier session is in
the store from the start, under the same task ids.

### Properties

- `VerdictsAreFair`: accepted evidence rests, reference by reference, on resources
  that the gateway delivered to the task, or to one it builds on, within scope;
  and nothing an agent had received when it answered is held against it. The
  mutant takes over what other sessions found.
- `EffectsRestOnEvidence`: what may take effect, by itself or once approved, is a
  registered low-impact action of an agent with the permission, in a session
  whose evidence, all of it, was obtained through the gateway.
- `TypeOK` also says that when all tasks have ended no grant is left active.

## 8. Module F: the dashboard and the views it is shown

`RelayDesk` has the sessions as the server writes them (`Store` to `EndPolicy` and
`EndDecision`, with the window in `createSession` between the look at
`active.size` and the registration), a view as the two reads of `getSession` and
`project` (`ReadSession`, `ReadApproval`), and the dashboard: `Poll`, `Open`,
`Create`, `Decide`, and `Arrive`, which shows whatever answer comes. What the
agents come to, and an execution, end with any outcome. Requests are lost, the
server restarts.

- `DecisionIsOffered`: a dashboard that no longer polls, while its session waits
  for an approval, shows the approval. This is what the rule in `project` is for
  that a completed session with undecided actions counts as running.
- `OutcomeIsLearnt`: a dashboard that shows a session as running, and stays with
  it, learns when it is not. Fairness: the timer ticks, requests that are not
  lost are answered, the server goes on. Mishaps are bounded.

## 9. Module G: the playground

`WebClient` is `App.tsx`: the token prompt and the first load, then the list of
Agents, the selected one with its messages and run, the operations, and the polling
loops, which outlive a selection. The page is loaded in any state of the server:
another page, or this one before it was reloaded, may have sent messages, whose
runs are going on or end at any time. A request is served when it is made, and its
answer waits in `answers` for any time; answers overtake each other. The two
requests of a visit are served apart: the runs may be read after the messages, with
the end of a run in between, and are shown only when the messages are there.
`AgentLifecycle` has the server in full; here it is as simple as one client can
tell.

| Action | Code |
|---|---|
| `RunBegins` | `sendMessage` of an earlier page, until this one is open |
| `AuthAnswers`, `Unlock` | whether a token is asked for, and `bootstrap`, whose three reads arrive together |
| `Choose`, `Send`, `Control` | the buttons, as far as their `disabled` attributes allow |
| `VisitAnswers`, `RunsReadLater`, `VisitShowsRun` | the effect on `selectedId` and its `Promise.all` |
| `PollAsks`, `PollAnswers`, `PollEnds` | `pollRun` and its last reads |
| `SendAnswers`, `ControlAnswers`, `ListArrives`, `Fails` | what follows the answers, or the catch blocks |
| `RunEnds` | the server |

- `TypeOK` also says that the run that is shown is one of the selected Agent.
- `ViewSettles`: the polling loops end, and the client ends up showing what the
  server has, with these exceptions. (1) An answer was lost or overtook an older
  one about the same thing, or the screen is locked: an old answer that comes last
  stays. (2) A run of before this page was loaded (`found`) which no visit of its
  Agent saw going on: `bootstrap` lists the Agent as busy, but a polling loop only
  begins when a visit finds the run going on (`App.tsx:119-124`). If the run ends
  before that, or its Agent is not selected meanwhile, nobody reads the list again:
  the Agent may stay listed as busy, with its composer, Settings and Delete
  disabled, until some operation or the end of another poll reads the list; and
  messages of that run may be missing. TLC refutes the property without either
  exception. Fairness: answers arrive or are given up, timers fire, runs end.

What this page may miss because another page goes on beside it is left out.

## 10. Modules H and I: the Gemini adapter and the container runner

`GeminiConversations` has requests that name any earlier response
(`previous_response_id`), overlap, are refused, fail, or are cut off by a
restart, and a service that makes up call ids, old ones again or none.
`TypeOK` says that what is remembered of a response is what was sent for it and
its answer. `ContextIsWhole`: a request that follows a response of the same
process carries everything that led to it, and a tool result the name of the
function the service last called by that id.

`ContainerRunner` has one Agent's runs as `ContainerCodexRunner` starts them: a
command line attached to a container of the Agent's name. The engine is external
and modelled from how the code calls it: a removal by name may come before the
container exists, hit the next one, or fail. `RunsTypeOK` says that a run that was
cancelled or interrupted is never called completed. `RunsEnd`: a run ends with
its container, and its cancels return, although its program may go on for ever;
excused is exactly a container whose removal came too early or failed. Fairness:
the command line, the engine and the server go on, and the time limit fires. The
names of its specification begin with `Runs`, so that `RunnerProofs` can extend
both modules of this section.

## 11. Disagreements with the repository's own words

Two are runs that end in a counterexample.

| Run | Statement | What the code does |
|---|---|---|
| `restart_wedged` | `relay-workflow-service.ts:82-84`: the session is never wedged | `initialize` looks at the first action only; a price change comes first in the demo |
| `agent_one_run` | `docs/ARCHITECTURE.md:45-46`: one Agent can have only one active Run | send, stop, start, send in quick succession: the stop does not see the run whose message is still being written, and overwrites busy |

Three more follow from steps the models have, and are listed as hazards.

- `relay-workflow-service.ts:84-85` takes a missing receipt for a mail that was
  not delivered. A crash between delivery and `saveReceipt` is reconciled to
  failed, and the e-mail was sent.
- `docs/ARCHITECTURE.md:71-73` has a workflow that was running during a restart
  marked failed. The session is already saved as completed while `applyPolicy`
  runs, and `initialize` fails running sessions only: after a crash in that window
  it stays completed, with an approval nobody can decide.
- `application/task-lifecycle.ts:23` has no way out of completed. A write that
  fails after `task.completed` was saved moves the stored task back to ready or
  to failed.

## 12. Runs and bounds

| Run | Instance | Why it is enough |
|---|---|---|
| `mock_duplicates` | 3 calls of one approved request, mock, 3 attempts, 2 crashes, 1 failing write; calls symmetric | three calls give a winner and two kinds of loser (before and after the verdict); three attempts let an abandoned attempt overlap two later ones; the second crash meets a reclaimed record |
| `resend_calls` | 2 calls, each with any of 8 argument records, Resend, 2 attempts, 1 crash, 1 failing write, with fairness | every wrong argument meets a right one in flight; a request on the wire meets a restarted process; a failing ledger write leaves a claim open |
| `workflow` | the two e-mails, an e-mail and a prohibited action, or the demo's price change and e-mail; 2 requests, 3 scenarios, 1 crash, 2 failing writes, 1 changed action | two requests meet on one action or overlap on two; the second failing write is the one in a catch block; each order of a protected and an unprotected action occurs |
| `coordinator_demo` | the four tasks of the demo workflow, as they are and with a cycle, a self reference, an unknown dependency, an unknown capability or a repeated id; six registries; 2 attempts each, 2 failing writes | two roots give a tick with two tasks, one of which can fail while the other runs on; two levels above them wait for both; each check of the validation decides about one workflow |
| `agent_lifecycle` | 2 messages and 2 requests of any kind, numbered as they arrive, 2 mishaps (failing writes or crashes) | a stop and a start between two messages make runs overlap; two stops share the cancellation entry; the second mishap meets the handler of the first |
| `resource_access` | research, strategy and outreach in a row with the demo's manifests, 3 resources, 2 attempts, 2 reads by agents at once, 1 expired grant, 5 scenarios | evidence is inherited over an agent that reads nothing; a read outlives its attempt into the second one; a reference is read, inherited, out of scope or invented |
| `relay_desk` | 2 sessions, 1 timer, 1 user, 1 mishap, 3 outcomes | a poll of one session meets the opening, creation or decision of another; the outcomes left out of this run differ only in the final status they leave |
| `web_client` | 2 Agents, 2 runs, 3 operations (a right or wrong token is one), 2 answers under way when more is asked, 1 lost answer | an answer for one Agent arrives while the other is selected, or the first again |
| `gemini_conversations` | 3 requests, 1 call id, 2 functions, 1 restart | two requests branch off one, or follow in a row with an id used twice |
| `container_runs` | 2 runs, 1 failing removal | a removal of the first meets the container of the second |
| `agent_one_run` | as `agent_lifecycle` without mishaps | a counterexample |
| `restart_wedged` | the price change and the e-mail, one request, one crash | a counterexample |

Every bound is a constant of its module (`MaxAttempts`, `MaxCrashes`,
`MaxDiskFaults`, `MaxFaults`, `MaxChanges`, `MaxTicks`, `MaxMishaps`, `MaxPending`,
`MaxExpired`, `MaxAgents`, `MaxRuns`, `MaxOperations`, `MaxRequests`,
`MaxRestarts`). `MaxTicks` is the program's own 12. Deadlock is not checked:
calls, requests and workflows are one-shot, and the system stops when they have
ended.

Every property of a passing run has a mutant, a plausible slip in a definition
that models code, which the same run refutes. The mutated forms stand beside the
definitions they replace, marked as such; `PROJECT.json` pairs them.

## 13. What is proved

For every value of the constants that the named assumptions allow, and not only
for the instances of section 12. Each proof module has one inductive invariant, a
conjunction of named parts, a lemma per action or per part, and a temporal
theorem per property. None of the properties that say something across several
steps is inductive alone; what follows is what each needs.

| Proofs | Theorems, by the property they state | Assumptions |
|---|---|---|
| `ProtectedExecutionProofs` | `TypeOK`, `AtMostOneEmail`, `OnlyApprovedContentSent`, `SuccessIsReal`, `SingleWinner`, `TerminalIsFinal`, `SendNeedsClaim`, `ImplementsEffect`, `ClaimsHaveOwners`, `LoopMoves` | well-typed arguments, one of two providers, at least one attempt |
| `RelayWorkflowProofs` | `TypeOK`, `EffectsApproved`, `KeyIsFree`, `CompletedHasReceipt`, `WaitsForSomebody`, `DecisionIsFinal`, `FinishedStaysFinished`, `ApprovedGoesOn` | proposals are non-empty sequences without repetition (the id of an action is its key in the store) |
| `WorkflowCoordinatorProofs` | `TypeOK`, `DependenciesFirst`, `SessionVerdict`, `GrantsAreRunScoped`, `ActionsOfLastAttempt`, `NeverStalls`; `HandsOverVerdict` | each task has at least one attempt; for `HandsOverVerdict`, the attempts of all tasks are no more than the ticks of the loop |
| `ResourceAccessProofs` | `TypeOK`, `VerdictsAreFair`, `EffectsRestOnEvidence` | dependencies are tasks, manifests are well-typed |
| `AgentLifecycleProofs` | `TypeOK`, `OneProcess`, `StopEndsEarlierRuns`, `BusyHasRun`, `DeletedLeavesNothing`, `OutcomeIsFinal`, `NobodyIsForgotten` | messages and requests are numbered, finitely many requests |
| `RelayDeskProofs` | `TypeOK`, `DecisionIsOffered`, `EndIsForGood`, `RequestsGetOn` | the outcomes are those the server knows |
| `WebClientProofs` | `TypeOK`, `BusyIsAnswered`, `RunIsPolled` | - |
| `RunnerProofs` | `TypeOK`, `ContextIsWhole` of `GeminiConversations`; `RunsTypeOK`, `OneContainer`, `OutcomesAreTrue`, `RunsGoOn` of `ContainerRunner` | the value for "no transcript" is not a transcript; the value for "no run" is not a number |

Bounds are natural numbers, and values such as `None` are none of the things
they stand beside, throughout.

**The execution path.** `AtMostOneEmail` needs to know that nobody who can still
send holds a key that was sent *and* that the service has forgotten
(`NoForgottenSend`): the mock forgets on a crash, so the invariant has to say that
after a crash nobody is executing and nobody will claim the key again, which in
turn needs `SentOnce` (a sent key has a record) and `SingleWinner`. That there is
one e-mail per action and not only per key needs `OnlyApprovedContentSent` in the
form that a flight's request is still satisfied by its approval
(`FlightsCleared`), since an approved approval is never changed. `SuccessIsReal`
needs the chain acknowledged - receipt - outcome of `EvidenceOfSuccess`. The
refinement maps every step to a step of `AtMostOnceEffect` or a stutter: `Claim`
to `Open`, `Deliver` and `LoseAnswer` to `TakeEffect`, `SaveReceipt` to
`Acknowledge`, `Update` to `Succeed` or `Fail`, `Restart` to `Fail` of every
executing key at once. `ClaimsHaveOwners` says what a record in "executing" may rely
on while no write of the ledger has failed: a call of this process that is at work
on its key. `LoopMoves` says that this call is never without a next step: it has an
attempt left, or its attempt can settle or time out.

**The workflow.** The argument is that the `decisions` set is a lock (`Locks`) and
that nobody gets past it while `applyPolicy` is at work, because the session says
"completed" then (`PolicyFirst`). So the place of a request determines its
approval and the ledger's row (`Stages`, `Ledger`), which gives
`EffectsApproved`, `KeyIsFree` and `DecisionIsFinal`. A completed session has a
receipt (`CompletedStands`) since an approval is saved only while the session is
not completed, and only a request with a receipt, or the restart that finds one,
completes it later. `WaitsForSomebody` needs, besides, what `applyPolicy` will
save at its end (`FinalFollows`), and `FinishedStaysFinished` that with one
protected action there is one request (`Settling`). `ApprovedGoesOn` is what a
user who approved relies on while no write fails: the session is over, or the one
request is at its next step and its claim is its own, or the process is dead and
the restart will end the session. It holds because a session with an approval can
only have a status that `initialize` reconciles (`StaysOpen`): what `applyPolicy`
saves is "awaiting_approval" once it has created one, as it does not outlive the
process and never forgets its scenario (`FinalWaits`). The executions of this module
are actions of `AtMostOnceEffect`, by their definitions; that the execution path
implements it is the theorem `Refinement` above.

**The coordinator.** A task is looked at in three places: in memory, in the store
and in the tick that executes it. `InTick` and `Agree` say when these agree, also
beside orphaned tasks of a tick that failed; `Working` says what `executeTask` has
made of the record at each of its places. `Ordered` carries the statuses of the
dependencies from the reconciliation to the execution. That an unknown dependency
is refused matters to all of this; that a cycle is refused matters to
`NeverStalls` only. `Progress` says that what the reconciliation left blocked has a
dependency that is not completed, and that a failed task has failed the session.
So where nothing is ready and the session is undecided, the completed tasks take
in every task they could, and the validation accepted the workflow because such a
set is all of it (`Takes`, `TakesAll`, Kahn's algorithm by what it computes).
`HandsOverVerdict` counts: every tick of the loop uses up an attempt of `Budget`
(`Gone`, `Counted`), so with no more attempts than ticks the loop cannot run out of
ticks first. The demo workflow has eight attempts and the loop twelve ticks.

**Resources and evidence.** `Held` ties a grant to the attempt its task is making,
`Scoped` says that what is pending or noted is in scope however late it comes,
`Provenance` that the evidence of the session is exactly what the last answers
claimed, and `Received` that what an agent had read when it answered is still
noted, or inherited, when its answer is judged. The graph may be any, cyclic
ones included: `Upstream` is defined as the least closed set, and a closed set is
all the proof uses of it.

**The life of an Agent.** This is the longest proof, because what keeps the promises
is the order of the queue. `Queued` says that each entry stands for a caller that
waits for it, and that each caller has one at most; `Newest` that queued runs
begin in the order they were accepted, the registered one last; `Supervised` that
a run is in the runner exactly while it has a process, and the runner knows no
other. `Ending` then follows a request through its waits: a run it found is kept
from beginning by the cancellation entry, or begins before the run the request
awaits, and one that has begun is over before the request waits for anything
else. The proof of this part failed at the removal of the shared entry, and that
is how the exception of section 6 was found. `NobodyIsForgotten` goes through
every place a message, a run or a request can stop at and says what will wake it:
a mutation that is queued for it, a process, a signal that is on its way, or an
execution that is not over.

**The clients.** A dashboard that shows an old view is harmless if what ended the
polling still holds: `Stages` says what the server has at each stage, `Knowledge`
that every view, shown or on its way, shows an approval, or none is to come, or
says running. `Advances`, proved of every step, is why that stays true of a view
that waits. For the same reason a session that was called ended stays so
(`EndIsForGood`). `RequestsGetOn` says that what is shown or asked for is stored,
and that the user waits only for what was begun.

In the same way `Inv` of `WebClientProofs` says what holds of an answer for as long
as it is under way (`Sound`); runs are never removed and never change hands.
`BusyIsAnswered` needs that before it is known whether a token is asked for,
nothing else is under way (`Opening`), as the answer of `authSettings` does not
enable the buttons. `RunIsPolled` is the longest proof of the clients
(`Following`): an answer was true when it was made (`Honest`), so of two answers
about a run the older one says running if the newer does (`InOrder`), a loop has
one request at a time, and the end of a run is either shown, or carried by the
answer that ends its loop, or an older answer was applied after a newer one, which
is what `overtaken` records. A loop that is refused because its Agent was deleted
ends no run by itself, and if a visit began it nobody clears the run that is shown
either, which is the third exception of `RunIsPolled`. The other two are needed as
well: TLC refutes the statement without `overtaken` on the instance of section 12,
and without the lost answers on one that has two of them.

**Conversations and containers.** `ContextIsWhole` is inductive once it is known that a
transcript is that of its response (`Remembered`) and that what was followed had
been answered (`Followed`). Names of functions are found by the last call of an
id, so the proof needs that a non-empty set of positions has a last one, which
follows from the well-foundedness of the natural numbers. Of the container runner,
`OneContainer` says that only the run in `active` has a command line, so that a
removal by name hits its container or none that is attached; `Removals` that
nothing but an interruption asks for a removal; `OutcomesAreTrue` that a report is
that of a closed command line and of what interrupted it. `RunsTypeOK` needs all
three for what it says of outcomes. `RunsGoOn` lists the steps whose fairness
`RunsEnd` assumes: one of them is to come for every run that has begun, has not
ended and has no container that outlived its removal, and none of them is the end
of the program. It needs that a container without a command line is one whose
removal failed (`ContainersAreAttended`).

The inductive invariants, or the parts of them that are new with a theorem, were
model-checked on the instances of section 12 before they were proved.

## 14. What is only model-checked

Liveness (`CallsSettle`, `ApprovedResolves`, `LoopReachesVerdict`,
`EverythingEnds`, `OutcomeIsLearnt`, `ViewSettles`, `RunsEnd`) is outside what the
proof system supports with fairness, and nothing else that a run checks is
unproved. A temporal property of this kind is true because nobody can stop for
good at a place where nothing will happen, and because every way through those
places is finite. The first half is safety, and it is proved:

| Property, model-checked | Its safety half, proved |
|---|---|
| `CallsSettle` | `ClaimsHaveOwners`, `LoopMoves` |
| `ApprovedResolves` | `ApprovedGoesOn` |
| `LoopReachesVerdict` | `NeverStalls`, `HandsOverVerdict` |
| `EverythingEnds` | `NobodyIsForgotten` |
| `OutcomeIsLearnt` | `EndIsForGood`, `RequestsGetOn` |
| `ViewSettles` | `BusyIsAnswered`, `RunIsPolled` |
| `RunsEnd` | `RunsGoOn` |

The two refuted statements of section 11 are counterexamples and have no proof. No
property relates two of the modules B to I by a checked composition: C hands over
to B at `applyPolicy`, E repeats the attempts of C without failing writes, F
repeats B's writes without their failures, and where they meet is said above.

## 15. What is not modelled, and why

- The files behind the stores: `mutate` is a write that happens whole or fails.
  The temporary file, the rename and reading the file at the start are not
  modelled. Both stores support one process only, as the code says.
- `updateAgent`, the instructions file and the threads that runs resume: they
  change texts that no step decides by. Of the Codex adapter, prompts and the
  schema of answers.
- The in-memory execution store (tests and demos use it) and the framework-free
  approval service (the workflow service writes approvals itself).
- The policy simulator: one evaluation of the policy that `ResourceAccess` has, on
  a grant that is never stored.
- HTTP routes, authentication, schema validation, error classes, configuration and
  the runner factory: no state of their own. The order of the initialization in
  `index.ts` is part of `Restart`.
- Provisioning, the manifest registry, demo sessions, demo scripts and the reset
  and seed scripts: fixtures, registration at the start, or programs run while the
  server is down. Which agents are registered and can run is the constant
  `Registries` of `WorkflowCoordinator`.
- Traces and their redaction: emission never changes what the models read. Two
  events of one type and task in the same millisecond share an id and overwrite
  each other (`coordinator.ts:216`).
- In the clients: what is typed into the forms, the history and the runtime's
  state, and all rendering.
- Deployment scripts and Terraform.
