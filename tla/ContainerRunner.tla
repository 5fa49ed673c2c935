--------------------------- MODULE ContainerRunner ---------------------------
(***************************************************************************)
(* The runs of one Agent in containers.  A run is a container of the       *)
(* Agent's name, held by the engine, and the command line attached to it,  *)
(* a child of the server; a stop, the time limit and too much output       *)
(* remove the container by its name.  The engine is external: it is asked  *)
(* by one process and told to forget by another, in any order.             *)
(***************************************************************************)
EXTENDS Integers, FiniteSets

CONSTANTS MaxRuns,     \* bound on runs
          MaxFaults,   \* bound on removals that fail
          NoRun

ASSUME RunsAssumption == MaxRuns \in Nat /\ MaxFaults \in Nat
ASSUME NoRunAssumption == NoRun \notin Nat

Runs == 1..MaxRuns

VARIABLES
    active,     \* the run of ContainerCodexRunner.active, or NoRun
    cli,        \* the command line of every run
    container,  \* the run whose container has the Agent's name, or NoRun
    flags,      \* cancelled, timedOut, outputExceeded of every run
    termination,\* the removal a run remembers
    outcome,    \* of every run
    waiting,    \* runs that a cancel waits for
    faults      \* failed removals so far

runsVars == <<active, cli, container, flags, termination, outcome, waiting, faults>>

Causes == {"cancelled", "timedOut", "outputExceeded"}
Ends == {"answered", "silent", "failed", "unspawned"}

RunsInit == /\ active = NoRun /\ container = NoRun
            /\ cli = [r \in Runs |-> "none"]
            /\ flags = [r \in Runs |-> {}]
            /\ termination = [r \in Runs |-> "none"]
            /\ outcome = [r \in Runs |-> "none"]
            /\ waiting = {} /\ faults = 0

(* The Agent's runs come one after the other. *)
Run(r) ==
    /\ outcome[r] = "none" /\ \A q \in 1..r - 1 : outcome[q] # "none"
    /\ active = NoRun /\ active' = r
    /\ cli' = [cli EXCEPT ![r] = "starting"]
    /\ UNCHANGED <<container, flags, termination, outcome, waiting, faults>>
-----------------------------------------------------------------------------
(* The engine and the command line.                                         *)

(* spawn fails, or the name is taken; or the container is created.          *)
Attach(r) ==
    /\ cli[r] = "starting"
    /\ \/ /\ \E end \in {"unspawned", "failed"} : cli' = [cli EXCEPT ![r] = end]
          /\ UNCHANGED container
       \/ /\ container = NoRun /\ container' = r
          /\ cli' = [cli EXCEPT ![r] = "attached"]
    /\ UNCHANGED <<active, flags, termination, outcome, waiting, faults>>

(* The container's program ends and --rm removes it.  The command line,     *)
(* when it is still there, ends with it.                                    *)
Closed(r, end) == [cli EXCEPT ![r] = IF @ = "attached" THEN end ELSE @]

ContainerEnds ==
    /\ container # NoRun /\ container' = NoRun
    /\ \E end \in Ends \ {"unspawned"} : cli' = Closed(container, end)
    /\ UNCHANGED <<active, flags, termination, outcome, waiting, faults>>

(* rm --force reaches the engine: whichever run has the name by then.  That *)
(* there is no such container may be an error or not.                       *)
RemoveByName(r) ==
    /\ termination[r] = "removing"
    /\ IF container = NoRun
       THEN /\ \E t \in {"removed", "failed"} : termination' = [termination EXCEPT ![r] = t]
            /\ UNCHANGED <<cli, container>>
       ELSE /\ termination' = [termination EXCEPT ![r] = "removed"]
            /\ cli' = Closed(container, "failed") /\ container' = NoRun
    /\ UNCHANGED <<active, flags, outcome, waiting, faults>>

(* It fails, or is given up after 8 s.                                      *)
RemoveFails(r) ==
    /\ termination[r] = "removing"
    /\ faults < MaxFaults /\ faults' = faults + 1
    /\ termination' = [termination EXCEPT ![r] = "failed"]
    /\ UNCHANGED <<active, cli, container, flags, outcome, waiting>>

(* Then the command line gets SIGTERM, which it passes on, and SIGKILL,     *)
(* which leaves the container behind.                                       *)
Kill(r) ==
    /\ termination[r] = "failed" /\ cli[r] \in {"starting", "attached"}
    /\ cli' = [cli EXCEPT ![r] = "failed"]
    /\ container' \in {container, IF container = r THEN NoRun ELSE container}
    /\ UNCHANGED <<active, flags, termination, outcome, waiting, faults>>
-----------------------------------------------------------------------------
(* The server.                                                              *)

(* Mutant: a container that is not there yet needs no removal. *)
RemovalOfAttached(r) == IF termination[r] = "none" /\ cli[r] = "attached"
                        THEN "removing" ELSE termination[r]

(* removeContainer: one removal per run. *)
Removal(r) == IF termination[r] = "none" THEN "removing" ELSE termination[r]

(* cancel, the time limit, and more output than the limit.                  *)
Interrupt(r, cause) ==
    /\ active = r /\ cli[r] \in {"starting", "attached"} /\ cause \notin flags[r]
    /\ cause = "outputExceeded" => cli[r] = "attached"
    /\ flags' = [flags EXCEPT ![r] = @ \cup {cause}]
    /\ termination' = [termination EXCEPT ![r] = Removal(r)]
    /\ waiting' = IF cause = "cancelled" THEN waiting \cup {r} ELSE waiting
    /\ UNCHANGED <<active, cli, container, outcome, faults>>

(* Mutant: the exit code is looked at first. *)
OutcomeByExit(r) == IF cli[r] = "answered" THEN "completed" ELSE "error"

(* The error of a spawn that failed is thrown before anything is asked.     *)
Outcome(r) == IF cli[r] = "unspawned" THEN "error"
              ELSE IF "cancelled" \in flags[r] THEN "cancelled"
              ELSE IF flags[r] = {} /\ cli[r] = "answered" THEN "completed" ELSE "error"

(* The command line has closed. *)
Settle(r) ==
    /\ active = r /\ cli[r] \in Ends
    /\ active' = NoRun
    /\ outcome' = [outcome EXCEPT ![r] = Outcome(r)]
    /\ UNCHANGED <<cli, container, flags, termination, waiting, faults>>

CancelReturns(r) ==
    /\ r \in waiting /\ outcome[r] # "none" /\ termination[r] # "removing"
    /\ waiting' = waiting \ {r}
    /\ UNCHANGED <<active, cli, container, flags, termination, outcome, faults>>
-----------------------------------------------------------------------------
Step(r) == \/ Attach(r) \/ RemoveByName(r) \/ Kill(r) \/ Settle(r) \/ CancelReturns(r)

RunsNext == \/ ContainerEnds
            \/ \E r \in Runs : \/ Run(r) \/ Step(r) \/ RemoveFails(r)
                               \/ \E cause \in Causes : Interrupt(r, cause)

RunsSpec == RunsInit /\ [][RunsNext]_runsVars

(* Processes go on and the timer fires; a program need never end.           *)
RunsFairness == \A r \in Runs : WF_runsVars(Step(r)) /\ WF_runsVars(Interrupt(r, "timedOut"))

RunsFairSpec == RunsSpec /\ RunsFairness
-----------------------------------------------------------------------------
(* Types; a run that was cancelled or interrupted before it ended is never  *)
(* called completed.                                                        *)
RunsTypeOK ==
    /\ active \in Runs \cup {NoRun} /\ container \in Runs \cup {NoRun}
    /\ cli \in [Runs -> {"none", "starting", "attached"} \cup Ends]
    /\ flags \in [Runs -> SUBSET Causes]
    /\ termination \in [Runs -> {"none", "removing", "removed", "failed"}]
    /\ outcome \in [Runs -> {"none", "completed", "cancelled", "error"}]
    /\ waiting \subseteq Runs /\ faults \in 0..MaxFaults
    /\ \A r \in Runs : outcome[r] = "completed" => flags[r] = {}

(* A run ends with its container, and the cancels of it return, although    *)
(* its program may go on for ever.  Excused is a container that its removal *)
(* came too early for, and one whose removal failed.                        *)
Survives(r) == container = r /\ termination[r] \in {"removed", "failed"}

RunsEnd ==
    \A r \in Runs : active = r ~>
        (Survives(r) \/ (outcome[r] # "none" /\ container # r /\ r \notin waiting))
=============================================================================
