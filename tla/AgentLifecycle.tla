---------------------------- MODULE AgentLifecycle ----------------------------
(***************************************************************************)
(* One Agent of AgentService over JsonStore and CodexRunner: messages that *)
(* become runs, and stop, start and delete requests that race with them.   *)
(*                                                                         *)
(* A step is one turn of the event loop.  Mutations wait in the queue of   *)
(* the store; what a caller does when its mutation is written belongs to   *)
(* the same turn, up to its next mutation, child process or rename.        *)
(***************************************************************************)
EXTENDS Integers, SequencesExt

CONSTANTS
    Runs,        \* messages that may be sent, each a run
    Controls,    \* requests to stop, start or delete the Agent
    None,
    MaxMishaps   \* bound on failing writes and crashes of the server

(* Messages and requests are numbered in the order they arrive in.          *)
ASSUME NumberAssumption == /\ Runs \subseteq Nat /\ Controls \subseteq Nat
                           /\ IsFiniteSet(Controls)
ASSUME NoneAssumption == None \notin Runs
ASSUME BoundsAssumption == MaxMishaps \in Nat

VARIABLES
    up,            \* the server runs
    agent,         \* stored Agent status, or "deleted"
    run,           \* stored run status; "none" before and "removed" after
    workspace,     \* the directory is "present" or "archived"
    queue,         \* JsonStore.queue: the mutations not yet written
    exec,          \* executeRun of every run
    latest,        \* activeExecutions: the run whose execution is registered
    cancelling,    \* the Agent is in cancellationRequests
    active,        \* CodexRunner.active: the run it supervises
    child,         \* the process of every run
    cancelled,     \* runs whose process was cancelled
    expired,       \* runs whose process ran out of time or output
    control, kind, \* every control request: where it is, what it asks
    target,        \* the run it waits for
    earlier,       \* the runs accepted before it came, that it can end
    faults, crashes

storeVars == <<agent, run>>
runnerVars == <<active, child, cancelled, expired>>
controlVars == <<control, target, cancelling>>
requestVars == <<kind, earlier>>
boundVars == <<faults, crashes>>
vars == <<up, storeVars, workspace, queue, exec, latest, runnerVars,
          controlVars, requestVars, boundVars>>

Init ==
    /\ up = TRUE
    /\ agent = "ready" /\ run = [r \in Runs |-> "none"]
    /\ workspace = "present"
    /\ queue = <<>>
    /\ exec = [r \in Runs |-> "none"]
    /\ latest = None /\ cancelling = FALSE
    /\ active = None /\ child = [r \in Runs |-> "none"]
    /\ cancelled = {} /\ expired = {}
    /\ control = [c \in Controls |-> "idle"]
    /\ kind = [c \in Controls |-> "none"]
    /\ target = [c \in Controls |-> None]
    /\ earlier = [c \in Controls |-> {}]
    /\ faults = 0 /\ crashes = 0

Writes(op, id) == up /\ queue # <<>> /\ Head(queue) = <<op, id>>

(* Mutant: a run writes its record back, found or not. *)
StoredOnce(r) == run[r] # "none"

Stored(r) == run[r] \notin {"none", "removed"}
Executing(r) == exec[r] \in {"begin", "child", "completing", "failing", "cancelling"}
Alive(r) == child[r] \in {"alive", "terminated", "stillborn"}
Waiting(place, r) == {c \in Controls : control[c] = place /\ target[c] = r}
-----------------------------------------------------------------------------
(* cancelExecution.                                                         *)

(* Its finally block, and what stopAgent or deleteAgent does next.          *)
Release(W, rest) ==
    /\ control' = [c \in Controls |->
                     IF c \notin W THEN control[c]
                     ELSE IF kind'[c] = "stop" THEN "storing" ELSE "archiving"]
    /\ cancelling' = (cancelling /\ W = {})
    /\ \E stops \in SetToSeqs({c \in W : kind'[c] = "stop"}) :
         queue' = rest \o [i \in DOMAIN stops |-> <<"stop", stops[i]>>]
    /\ target' = [c \in Controls |-> IF c \in W THEN None ELSE target[c]]

(* execution rejects: so does cancelExecution, after its finally block.     *)
ReleaseFailed(W) ==
    /\ control' = [c \in Controls |-> IF c \in W THEN "failed" ELSE control[c]]
    /\ cancelling' = (cancelling /\ W = {})
    /\ target' = [c \in Controls |-> IF c \in W THEN None ELSE target[c]]

(* The requests share one entry of cancellationRequests, and the first to   *)
(* end removes it: what had not begun is free to, and the others, who still *)
(* wait, may not see it end.                                                *)
Forsake(W) ==
    earlier' = [c \in Controls |-> IF W = {} \/ c \in W THEN earlier[c]
                                   ELSE {r \in earlier[c] : exec[r] # "begin"}]

Wait(W, place, r) ==
    /\ control' = [c \in Controls |-> IF c \in W THEN place ELSE control[c]]
    /\ target' = [c \in Controls |-> IF c \in W THEN r ELSE target[c]]

Terminate(r) == child' = [child EXCEPT ![r] = IF @ = "alive" THEN "terminated" ELSE @]

(* Mutant: the execution of the run is not awaited. *)
CancelWithoutAwait(c) ==
    IF active # None
    THEN /\ cancelled' = cancelled \cup {active}
         /\ Terminate(active)
         /\ Release({c}, queue)
         /\ UNCHANGED <<active, expired>>
    ELSE /\ UNCHANGED runnerVars
         /\ Release({c}, queue)

Cancel(c) ==
    IF active # None
    THEN /\ cancelled' = cancelled \cup {active}
         /\ Terminate(active)
         /\ Wait({c}, "settling", active)
         /\ cancelling' = TRUE
         /\ UNCHANGED <<active, expired, queue>>
    ELSE /\ UNCHANGED runnerVars
         /\ IF latest = None
            THEN Release({c}, queue)
            ELSE Wait({c}, "awaiting", latest) /\ cancelling' = TRUE /\ UNCHANGED queue
-----------------------------------------------------------------------------
(* The requests.                                                            *)

SendMessage(r) ==
    /\ up /\ exec[r] = "none"
    /\ \A earlierRun \in Runs : earlierRun < r => exec[earlierRun] # "none"
    /\ exec' = [exec EXCEPT ![r] = "sending"]
    /\ queue' = Append(queue, <<"send", r>>)
    /\ UNCHANGED <<up, storeVars, workspace, latest, runnerVars, controlVars,
                   requestVars, boundVars>>

Arrives(c) == /\ up /\ control[c] = "idle"
              /\ \A d \in Controls : d < c => control[d] # "idle"

(* stopAgent and deleteAgent, which look the Agent up first.                *)
RequestCancel(c, k) ==
    /\ Arrives(c)
    /\ agent # "deleted"
    /\ kind' = [kind EXCEPT ![c] = k]
    /\ earlier' = [earlier EXCEPT ![c] = {r \in Runs : Executing(r)}]
    /\ Cancel(c)
    /\ UNCHANGED <<up, storeVars, workspace, exec, latest, boundVars>>

RequestStart(c) ==
    /\ Arrives(c)
    /\ kind' = [kind EXCEPT ![c] = "start"]
    /\ control' = [control EXCEPT ![c] = "storing"]
    /\ queue' = Append(queue, <<"start", c>>)
    /\ UNCHANGED <<up, storeVars, workspace, exec, latest, runnerVars, cancelling,
                   target, earlier, boundVars>>

Archive(c) ==
    /\ up /\ control[c] = "archiving"
    /\ IF workspace = "present"
       THEN /\ workspace' = "archived"
            /\ control' = [control EXCEPT ![c] = "storing"]
            /\ queue' = Append(queue, <<"delete", c>>)
       ELSE /\ control' = [control EXCEPT ![c] = "failed"]
            /\ UNCHANGED <<workspace, queue>>
    /\ UNCHANGED <<up, storeVars, exec, latest, runnerVars, cancelling, target,
                   requestVars, boundVars>>
-----------------------------------------------------------------------------
(* The mutations, each when it is written.                                  *)

Accepts == agent \notin {"deleted", "stopped", "busy"}

WriteSend(r) ==
    /\ Writes("send", r)
    /\ IF Accepts
       THEN /\ run' = [run EXCEPT ![r] = "queued"]
            /\ agent' = "busy"
            /\ exec' = [exec EXCEPT ![r] = "begin"]
            /\ latest' = r
            /\ queue' = Append(Tail(queue), <<"begin", r>>)
       ELSE /\ exec' = [exec EXCEPT ![r] = "refused"]
            /\ queue' = Tail(queue)
            /\ UNCHANGED <<storeVars, latest>>
    /\ UNCHANGED <<up, workspace, runnerVars, controlVars, requestVars, boundVars>>

(* CodexRunner.run up to the promise of its exit.  Nothing can be spawned   *)
(* in a directory that is gone.                                             *)
Spawn(r) ==
    /\ active' = r
    /\ child' = [child EXCEPT ![r] = IF workspace = "present" THEN "alive" ELSE "stillborn"]
    /\ exec' = [exec EXCEPT ![r] = "child"]
    /\ queue' = Tail(queue)

Finish(r, as, rest) ==
    /\ exec' = [exec EXCEPT ![r] = as]
    /\ queue' = Append(rest, <<"finish", r>>)

(* Mutant: a second process for the Agent. *)
InvokeAlways(r) ==
    IF cancelling THEN Finish(r, "cancelling", Tail(queue)) /\ UNCHANGED <<active, child>>
    ELSE Spawn(r)

Invoke(r) ==
    IF cancelling THEN Finish(r, "cancelling", Tail(queue)) /\ UNCHANGED <<active, child>>
    ELSE IF active # None THEN Finish(r, "failing", Tail(queue)) /\ UNCHANGED <<active, child>>
    ELSE Spawn(r)

WriteBegin(r) ==
    /\ Writes("begin", r)
    /\ run' = [run EXCEPT ![r] = IF Stored(r) THEN "running" ELSE @]
    /\ Invoke(r)
    /\ UNCHANGED <<up, agent, workspace, latest, cancelled, expired, controlVars,
                   requestVars, boundVars>>

Unregister(r) == latest' = IF latest = r THEN None ELSE latest

FinalStatus(r) == CASE exec[r] = "completing" -> "completed"
                    [] exec[r] = "cancelling" -> "cancelled"
                    [] exec[r] = "failing" -> "failed"

(* The Agent of a finished run: a completed run overrules a stop.           *)
AgentAfter(r) ==
    IF agent = "deleted" \/ (exec[r] # "completing" /\ agent = "stopped") THEN agent
    ELSE IF exec[r] = "failing" THEN "error" ELSE "ready"

WriteFinish(r) ==
    /\ Writes("finish", r)
    /\ run' = [run EXCEPT ![r] = IF Stored(r) THEN FinalStatus(r) ELSE @]
    /\ agent' = AgentAfter(r)
    /\ exec' = [exec EXCEPT ![r] = "ended"]
    /\ Unregister(r)
    /\ UNCHANGED kind
    /\ Release(Waiting("awaiting", r), Tail(queue))
    /\ Forsake(Waiting("awaiting", r))
    /\ UNCHANGED <<up, workspace, runnerVars, boundVars>>

WriteControl(c) ==
    /\ \/ /\ Writes("stop", c)
          /\ agent' = IF agent = "deleted" THEN agent ELSE "stopped"
          /\ control' = [control EXCEPT ![c] = IF agent = "deleted" THEN "failed" ELSE "done"]
          /\ UNCHANGED run
       \/ /\ Writes("start", c)
          /\ agent' = IF agent \in {"deleted", "busy"} THEN agent ELSE "ready"
          /\ control' = [control EXCEPT ![c] =
                           IF agent \in {"deleted", "busy"} THEN "failed" ELSE "done"]
          /\ UNCHANGED run
       \/ /\ Writes("delete", c)
          /\ agent' = "deleted"
          /\ run' = [r \in Runs |-> IF Stored(r) THEN "removed" ELSE run[r]]
          /\ control' = [control EXCEPT ![c] = "done"]
    /\ queue' = Tail(queue)
    /\ UNCHANGED <<up, workspace, exec, latest, runnerVars, cancelling, target,
                   requestVars, boundVars>>

(* Mutant: a rejected execution stays registered. *)
RejectRegistered(r) ==
    /\ exec' = [exec EXCEPT ![r] = "rejected"]
    /\ ReleaseFailed(Waiting("awaiting", r))
    /\ Forsake(Waiting("awaiting", r))
    /\ queue' = Tail(queue)
    /\ UNCHANGED latest

Reject(r) ==
    /\ exec' = [exec EXCEPT ![r] = "rejected"]
    /\ Unregister(r)
    /\ ReleaseFailed(Waiting("awaiting", r))
    /\ Forsake(Waiting("awaiting", r))
    /\ queue' = Tail(queue)

(* A mutation that cannot be written changes nothing, and its caller goes   *)
(* on with the error.                                                       *)
WriteFails ==
    /\ up /\ queue # <<>>
    /\ faults + crashes < MaxMishaps /\ faults' = faults + 1
    /\ LET op == Head(queue)[1]
           id == Head(queue)[2]
       IN  \/ /\ op = "send"
              /\ exec' = [exec EXCEPT ![id] = "refused"]
              /\ queue' = Tail(queue)
              /\ UNCHANGED <<latest, controlVars, earlier>>
           \/ /\ op = "finish" /\ exec[id] = "completing"
              /\ Finish(id, "failing", Tail(queue))
              /\ UNCHANGED <<latest, controlVars, earlier>>
           \/ /\ op = "begin" \/ (op = "finish" /\ exec[id] # "completing")
              /\ Reject(id)
           \/ /\ op \in {"stop", "start", "delete"}
              /\ control' = [control EXCEPT ![id] = "failed"]
              /\ queue' = Tail(queue)
              /\ UNCHANGED <<exec, latest, cancelling, target, earlier>>
    /\ UNCHANGED <<up, storeVars, workspace, runnerVars, kind, crashes>>
-----------------------------------------------------------------------------
(* The process of a run.                                                    *)

(* Mutant: the timer does not end the process. *)
ExpireUnsignalled(r) ==
    /\ up /\ child[r] = "alive" /\ r \notin expired
    /\ expired' = expired \cup {r}
    /\ UNCHANGED <<up, storeVars, workspace, queue, exec, latest, active, child, cancelled,
                   controlVars, requestVars, boundVars>>

(* The timer of the runner, or too much output.                             *)
Expire(r) ==
    /\ up /\ child[r] = "alive" /\ r \notin expired
    /\ expired' = expired \cup {r}
    /\ Terminate(r)
    /\ UNCHANGED <<up, storeVars, workspace, queue, exec, latest, active, cancelled,
                   controlVars, requestVars, boundVars>>

(* How run ends: cancelled, timed out, or by exit code and message.         *)
Outcomes(r) == CASE child[r] = "stillborn" -> {"failing"}
                 [] child[r] # "stillborn" /\ r \in cancelled -> {"cancelling"}
                 [] child[r] # "stillborn" /\ r \notin cancelled /\ r \in expired -> {"failing"}
                 [] OTHER -> {"completing", "failing"}

ChildCloses(r) ==
    /\ up /\ Alive(r)
    /\ child' = [child EXCEPT ![r] = "closed"]
    /\ active' = None
    /\ \E outcome \in Outcomes(r) : exec' = [exec EXCEPT ![r] = outcome]
    /\ UNCHANGED requestVars
    /\ LET W == Waiting("settling", r)
           rest == Append(queue, <<"finish", r>>)
       IN  IF latest = None THEN Release(W, rest)
           ELSE Wait(W, "awaiting", latest) /\ queue' = rest /\ UNCHANGED cancelling
    /\ UNCHANGED <<up, storeVars, workspace, latest, cancelled, expired, boundVars>>
-----------------------------------------------------------------------------
(* The server dies, and a process it started need not die with it.          *)
Crash ==
    /\ up /\ faults + crashes < MaxMishaps
    /\ up' = FALSE /\ crashes' = crashes + 1
    /\ queue' = <<>>
    /\ exec' = [r \in Runs |-> IF Executing(r) \/ exec[r] = "sending" THEN "lost" ELSE exec[r]]
    /\ latest' = None /\ cancelling' = FALSE /\ active' = None
    /\ child' = [r \in Runs |-> IF Alive(r) THEN "orphan" ELSE child[r]]
    /\ control' = [c \in Controls |->
                     IF control[c] \in {"idle", "done"} THEN control[c] ELSE "failed"]
    /\ UNCHANGED <<storeVars, workspace, cancelled, expired, target, requestVars, faults>>

(* Mutant: the runs are cancelled, the Agent is forgotten. *)
RestartOfRuns ==
    /\ ~up /\ up' = TRUE
    /\ run' = [r \in Runs |-> IF run[r] \in {"queued", "running"} THEN "cancelled" ELSE run[r]]
    /\ UNCHANGED <<agent, workspace, queue, exec, latest, runnerVars, controlVars,
                   requestVars, boundVars>>

(* Mutant: every run of before is cancelled. *)
RestartOfAllRuns ==
    /\ ~up /\ up' = TRUE
    /\ run' = [r \in Runs |-> IF Stored(r) THEN "cancelled" ELSE run[r]]
    /\ agent' = IF agent = "busy" THEN "ready" ELSE agent
    /\ UNCHANGED <<workspace, queue, exec, latest, runnerVars, controlVars,
                   requestVars, boundVars>>

Restart ==
    /\ ~up /\ up' = TRUE
    /\ run' = [r \in Runs |-> IF run[r] \in {"queued", "running"} THEN "cancelled" ELSE run[r]]
    /\ agent' = IF agent = "busy" THEN "ready" ELSE agent
    /\ UNCHANGED <<workspace, queue, exec, latest, runnerVars, controlVars,
                   requestVars, boundVars>>
-----------------------------------------------------------------------------
Write == \/ \E r \in Runs : WriteSend(r) \/ WriteBegin(r) \/ WriteFinish(r)
         \/ \E c \in Controls : WriteControl(c)

Next == \/ \E r \in Runs : SendMessage(r) \/ Expire(r) \/ ChildCloses(r)
        \/ \E c \in Controls : \/ RequestStart(c) \/ Archive(c)
                               \/ \E k \in {"stop", "delete"} : RequestCancel(c, k)
        \/ Write \/ WriteFails
        \/ Crash \/ Restart

Spec == Init /\ [][Next]_vars

(* Queued writes are performed, timers fire, a process that was signalled   *)
(* closes (the second signal cannot be ignored), renames end, and a server  *)
(* that died is started again.  Nothing is assumed of a process that is     *)
(* left alone.                                                              *)
Fairness ==
    /\ WF_vars(Write) /\ WF_vars(Restart)
    /\ \A r \in Runs : /\ WF_vars(Expire(r))
                       /\ WF_vars(child[r] \in {"terminated", "stillborn"} /\ ChildCloses(r))
    /\ \A c \in Controls : WF_vars(Archive(c))

FairSpec == Spec /\ Fairness
-----------------------------------------------------------------------------
(* Types; and what activeExecutions, the runner's map and the queue refer   *)
(* to is really under way.                                                  *)
TypeOK ==
    /\ up \in BOOLEAN /\ cancelling \in BOOLEAN
    /\ agent \in {"ready", "busy", "stopped", "error", "deleted"}
    /\ run \in [Runs -> {"none", "queued", "running", "completed", "failed",
                         "cancelled", "removed"}]
    /\ workspace \in {"present", "archived"}
    /\ exec \in [Runs -> {"none", "sending", "refused", "begin", "child", "completing",
                          "failing", "cancelling", "ended", "rejected", "lost"}]
    /\ child \in [Runs -> {"none", "alive", "terminated", "stillborn", "closed", "orphan"}]
    /\ cancelled \subseteq Runs /\ expired \subseteq Runs
    /\ control \in [Controls -> {"idle", "settling", "awaiting", "archiving", "storing",
                                 "done", "failed"}]
    /\ kind \in [Controls -> {"none", "stop", "start", "delete"}]
    /\ target \in [Controls -> Runs \cup {None}]
    /\ earlier \in [Controls -> SUBSET Runs]
    /\ faults \in Nat /\ crashes \in Nat /\ faults + crashes <= MaxMishaps
    /\ latest = None \/ (latest \in Runs /\ Executing(latest))
    /\ active = None \/ (active \in Runs /\ exec[active] = "child")
    /\ \A i \in DOMAIN queue :
         LET id == queue[i][2]
         IN  CASE queue[i][1] = "send" -> id \in Runs /\ exec[id] = "sending"
               [] queue[i][1] = "begin" -> id \in Runs /\ exec[id] = "begin"
               [] queue[i][1] = "finish" ->
                    id \in Runs /\ exec[id] \in {"completing", "failing", "cancelling"}
               [] queue[i][1] \in {"stop", "start", "delete"} ->
                    id \in Controls /\ control[id] = "storing" /\ kind[id] = queue[i][1]

(* The server has at most one process of the Agent at a time, and it is the *)
(* one a cancel would find, even when runs overlap.                         *)
OneProcess == \A r \in Runs : Alive(r) => active = r

(* When a stop or a delete has succeeded, no run that was accepted before   *)
(* it came still has its process, nor will get one.  Excepted are runs that *)
(* had not begun when another request ended and removed the entry that they *)
(* share: the code starts those, and a stop may return before they end.     *)
StopEndsEarlierRuns ==
    \A c \in Controls : control[c] = "done" =>
        \A r \in earlier[c] : ~Alive(r) /\ exec[r] # "begin"

(* A busy Agent has a run under way that will end that, unless a write      *)
(* failed: then it stays busy until it is stopped or the server restarts.   *)
BusyHasRun == up /\ agent = "busy" /\ faults = 0 => \E r \in Runs : Executing(r)

(* Nothing of a deleted Agent is left in the store or the workspaces,       *)
(* whatever messages arrive and runs end meanwhile.                         *)
DeletedLeavesNothing ==
    agent = "deleted" => workspace = "archived" /\ \A r \in Runs : ~Stored(r)

(* The outcome of a run never changes, across restarts as well.             *)
OutcomeIsFinal ==
    [][\A r \in Runs : run[r] \in {"completed", "failed", "cancelled"} =>
                          run'[r] \in {run[r], "removed"}]_vars

(* Every run ends, unless a write failed; and every request to stop, start  *)
(* or delete the Agent is answered, whatever write failed: no wait for a    *)
(* process or an execution lasts for ever.                                  *)
EverythingEnds ==
    /\ \A r \in Runs : run[r] \in {"queued", "running"} ~>
                           (run[r] \notin {"queued", "running"} \/ faults > 0)
    /\ \A c \in Controls : control[c] \notin {"idle", "done", "failed"} ~>
                               control[c] \in {"done", "failed"}
-----------------------------------------------------------------------------
(* What the repository says, and the code does not do.                      *)

(* docs/ARCHITECTURE.md:45-46: one Agent can have only one active Run.      *)
OneActiveRun == Cardinality({r \in Runs : run[r] \in {"queued", "running"}}) <= 1
=============================================================================
