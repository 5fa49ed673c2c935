------------------------------ MODULE WebClient ------------------------------
(***************************************************************************)
(* App.tsx: the token prompt and the first load, then the selected Agent,  *)
(* its messages and its latest run, between answers that overtake each     *)
(* other, polling loops that outlive a selection, and a user who goes on.  *)
(* The server is as simple as one client can tell (AgentLifecycle has it   *)
(* in full), with runs of before this page was loaded; no other page is in *)
(* use after that.  A request is served when it is made, but for the runs  *)
(* of a visit, which may be read after its messages; its answer takes any  *)
(* time.  The three answers of the first load come together, as do the two *)
(* at the end of a poll; selecting an Agent and its effect are one step.   *)
(***************************************************************************)
EXTENDS Integers, FiniteSets, SequencesExt

CONSTANTS MaxAgents, MaxRuns,  \* bounds on what the server ever has
          MaxFound,            \* bound on the runs of before this page
          MaxOperations,       \* bound on what the user does
          MaxAnswers,          \* bound on answers under way, when more is asked
          MaxFaults            \* bound on answers that are lost

ASSUME BoundsAssumption ==
    /\ {MaxAgents, MaxRuns, MaxOperations, MaxAnswers, MaxFaults} \subseteq Nat
    /\ MaxFound \in 0..MaxRuns

Agents == 1..MaxAgents
Nothing == [id |-> 0, status |-> "none"]

VARIABLES
    status, runs,        \* its Agents, and its runs in their order
    access,              \* authRequired: null, true or false
    listed, selected,    \* agents and selectedId of the client
    messages, activeRun, \* what it shows of the selected Agent
    busy,                \* an operation is under way
    polling, awaited,    \* pollingRunIds; those whose loop sendMessage awaits
    found,               \* runs of before that no visit has seen going on
    answers,             \* on their way, in the order they were made
    operations, faults,  \* user operations and lost answers so far
    overtaken            \* an answer overtook an older one about the same

server == <<status, runs>>
loops == <<polling, awaited, found>>
counts == <<operations, faults>>
vars == <<server, access, listed, selected, messages, activeRun, busy, loops, answers,
          counts, overtaken>>

-----------------------------------------------------------------------------
(* What the server answers.                                                 *)

RunsOf(a) == {r \in DOMAIN runs : runs[r].agent = a}
Shown(r) == [id |-> r, status |-> runs[r].status]
LatestRun(a) == IF RunsOf(a) = {} THEN Nothing ELSE Shown(Max(RunsOf(a)))
MessagesOf(a) == {m \in RunsOf(a) \X {"user", "assistant"} :
                    m[2] = "user" \/ runs[m[1]].status = "completed"}
Known(list) == {a \in Agents : list[a] \notin {"absent", "deleted"}}

Ended(a, ending) == [r \in DOMAIN runs |->
    IF runs[r].agent = a /\ runs[r].status = "running"
    THEN [runs[r] EXCEPT !.status = ending] ELSE runs[r]]

(* Which of what is shown an answer is about. *)
Topics(to) == CASE to = "visit" -> {"messages"}
               [] to \in {"runs", "run"} -> {"run"}
               [] to = "send" -> {"messages", "run", "list"}
               [] to = "poll" -> {"messages", "list"}
               [] to \in {"bootstrap", "control", "catch"} -> {"list"}
               [] OTHER -> {}

(* An answer: to which call, about which Agent, of which run or visit, and  *)
(* what it says.                                                            *)
Answer(to, agent, run, ok) ==
    [to |-> to, agent |-> agent, run |-> run, ok |-> ok,
     list |-> IF "list" \in Topics(to) THEN status ELSE <<>>,
     messages |-> IF "messages" \in Topics(to) THEN MessagesOf(agent) ELSE {},
     shown |-> IF "run" \notin Topics(to) THEN Nothing
               ELSE IF to = "run" THEN Shown(run) ELSE LatestRun(agent)]

Read(to, agent, run) == Answer(to, agent, run, agent = 0 \/ agent \in Known(status))

Init == /\ status \in {f \in [Agents -> {"absent", "ready", "stopped"}] : f[1] = "ready"}
        /\ runs = <<>>
        /\ access = "unknown"
        /\ listed = [a \in Agents |-> "absent"] /\ selected = 0
        /\ messages = {} /\ activeRun = Nothing
        /\ busy = FALSE /\ polling = {} /\ awaited = {} /\ found = {}
        /\ answers = <<Read("auth", 0, 0)>>
        /\ operations = 0 /\ faults = 0 /\ overtaken = FALSE

(* Another page, or this one before it was reloaded, has sent a message.    *)
RunBegins(a) ==
    /\ access # "open" /\ status[a] = "ready" /\ Len(runs) < MaxFound
    /\ status' = [status EXCEPT ![a] = "busy"]
    /\ runs' = Append(runs, [agent |-> a, status |-> "running"])
    /\ found' = found \cup {Len(runs')}
    /\ UNCHANGED <<access, listed, selected, messages, activeRun, busy, polling, awaited,
                   answers, counts, overtaken>>

(* An Agent in error is as ready as any: its buttons are the same.  What    *)
(* is over when this page is loaded is not found going on.                  *)
RunEnds(a) ==
    /\ status[a] = "busy"
    /\ status' = [status EXCEPT ![a] = "ready"]
    /\ \E ending \in {"completed", "failed"} : runs' = Ended(a, ending)
    /\ found' = IF access = "unknown" THEN found \ RunsOf(a) ELSE found
    /\ UNCHANGED <<access, listed, selected, messages, activeRun, busy, polling, awaited,
                   answers, counts, overtaken>>
-----------------------------------------------------------------------------
(* What answers do.                                                         *)

(* The i-th answer comes before an older one about the same. *)
Overtakes(i, topics) == \E j \in 1..i - 1 : Topics(answers[j].to) \cap topics # {}

Operations == {"create", "save", "start", "stop", "delete"}

(* It is taken, and more requests are made. *)
Takes(i, more) ==
    /\ answers' = RemoveAt(answers, i) \o more
    /\ overtaken' = (overtaken \/ Overtakes(i, Topics(answers[i].to)))

(* Mutant: an answer is shown whoever is selected by then. *)
ForAnyone(a) == a \in Agents

(* The guards on selectedIdRef. *)
ForSelected(a) == a = selected

(* The visits under way have numbers, so that two of one Agent differ.      *)
VisitsUnderWay ==
    {answers[i].run : i \in {j \in DOMAIN answers : answers[j].to \in {"visit", "runs"}}}
NextVisit == Min((1..Len(answers) + 1) \ VisitsUnderWay)

(* The selection effect asks for the messages and the runs together. *)
Visit(a) == IF a \in {0, selected} THEN <<>>
            ELSE <<Read("visit", a, NextVisit), Read("runs", a, NextVisit)>>

(* The runs are read only now, when they say something else.                *)
RunsReadLater(i) ==
    LET x == answers[i]  now == Read("runs", x.agent, x.run) IN
    /\ x.to = "runs" /\ x.ok /\ now # x
    /\ answers' = RemoveAt(answers, i) \o <<now>>
    /\ UNCHANGED <<server, access, listed, selected, messages, activeRun, busy, loops, counts,
                   overtaken>>

Selects(a) == /\ selected' = a
              /\ activeRun' = IF a = selected THEN activeRun ELSE Nothing

(* Without a selection, no messages. *)
Shows(a, these) == messages' = IF a = 0 THEN {} ELSE these

(* refreshAgents: the selection stays if it can, or goes to the first one,  *)
(* which of two Agents is the one that is left.                             *)
Kept(list) == IF selected \in Known(list) THEN selected
              ELSE IF Known(list) = {} THEN 0 ELSE Min(Known(list))

(* Whether a token is required: if not, the screen opens before the first   *)
(* load is there.                                                           *)
AuthAnswers(i) ==
    LET x == answers[i] IN
    /\ x.to = "auth" /\ x.ok
    /\ \E required \in BOOLEAN :
         /\ access' = IF required THEN "locked" ELSE "open"
         /\ Takes(i, IF required THEN <<>> ELSE <<Read("bootstrap", 0, 0)>>)
    /\ UNCHANGED <<server, listed, selected, messages, activeRun, busy, loops, counts>>

VisitAnswers(i) ==
    LET x == answers[i] IN
    /\ x.to = "visit" /\ x.ok
    /\ messages' = IF ForSelected(x.agent) THEN x.messages ELSE messages
    /\ Takes(i, <<>>)
    /\ UNCHANGED <<server, access, listed, selected, activeRun, busy, loops, counts>>

GoingOn(shown) == IF shown.status = "running" THEN {shown.id} ELSE {}

(* Promise.all: the run is shown when the messages are there. *)
VisitShowsRun(i) ==
    LET x == answers[i] IN
    /\ x.to = "runs" /\ x.ok
    /\ \A j \in DOMAIN answers : ~(answers[j].to = "visit" /\ answers[j].run = x.run)
    /\ IF ForSelected(x.agent)
       THEN /\ activeRun' = x.shown
            /\ polling' = polling \cup GoingOn(x.shown) /\ found' = found \ GoingOn(x.shown)
       ELSE UNCHANGED <<activeRun, polling, found>>
    /\ Takes(i, <<>>)
    /\ UNCHANGED <<server, access, listed, selected, messages, busy, awaited, counts>>

(* The bound on what is under way counts a visit once. *)
HasRoom == Cardinality({i \in DOMAIN answers : answers[i].to # "runs"}) < MaxAnswers

(* pollRun: after 900 ms it asks; a terminal run's messages and the Agents  *)
(* are read once more before the loop ends.                                 *)
PollAsks(r) ==
    /\ r \in polling /\ HasRoom
    /\ \A i \in DOMAIN answers : ~(answers[i].to \in {"run", "poll"} /\ answers[i].run = r)
    /\ answers' = Append(answers, Read("run", runs[r].agent, r))
    /\ UNCHANGED <<server, access, listed, selected, messages, activeRun, busy, loops, counts, overtaken>>

(* Mutant: only a completed run counts as terminal. *)
LastReadOfCompleted(x) == IF x.shown.status # "completed" THEN <<>>
                          ELSE <<Read("poll", x.agent, x.run)>>

LastRead(x) == IF x.shown.status = "running" THEN <<>>
               ELSE <<Read("poll", x.agent, x.run)>>

PollAnswers(i) ==
    LET x == answers[i] IN
    /\ x.to = "run" /\ x.ok
    /\ activeRun' = IF ForSelected(x.agent) THEN x.shown ELSE activeRun
    /\ Takes(i, LastRead(x))
    /\ UNCHANGED <<server, access, listed, selected, messages, busy, loops, counts>>

PollEnds(i) ==
    LET x == answers[i] IN
    /\ x.to = "poll" /\ x.ok
    /\ Shows(Kept(x.list), IF ForSelected(x.agent) THEN x.messages ELSE messages)
    /\ listed' = x.list /\ Selects(Kept(x.list))
    /\ polling' = polling \ {x.run} /\ awaited' = awaited \ {x.run}
    /\ Takes(i, Visit(Kept(x.list)))
    /\ UNCHANGED <<server, access, busy, found, counts>>

(* sendMessage shows the message and the run, and polls it.                 *)
SendAnswers(i) ==
    LET x == answers[i] IN
    /\ x.to = "send" /\ x.ok
    /\ IF ForSelected(x.agent)
       THEN messages' = messages \cup {<<x.run, "user">>} /\ activeRun' = x.shown
       ELSE UNCHANGED <<messages, activeRun>>
    /\ listed' = [a \in Agents |-> IF a = x.agent /\ a \in Known(listed) THEN "busy" ELSE listed[a]]
    /\ polling' = polling \cup {x.run}
    /\ awaited' = awaited \cup ({x.run} \ polling)
    /\ Takes(i, <<>>)
    /\ UNCHANGED <<server, access, selected, busy, found, counts>>

(* The answers with the list alone: of the first load, which opens a locked *)
(* screen, of the operations, after which a new Agent is selected, and of   *)
(* sendMessage's catch block.                                               *)
ListArrives(i) ==
    LET x == answers[i]  next == IF x.agent = 0 THEN Kept(x.list) ELSE x.agent IN
    /\ x.to \in {"bootstrap", "control", "catch"} /\ x.ok
    /\ access' = IF x.to = "bootstrap" THEN "open" ELSE access
    /\ listed' = x.list /\ Selects(next) /\ Shows(next, messages)
    /\ busy' = (busy /\ (x.to = "catch" \/ (x.to = "bootstrap" /\ access = "open")))
    /\ Takes(i, Visit(next))
    /\ UNCHANGED <<server, loops, counts>>

(* The answer to an operation; then the list is read. *)
ControlAnswers(i) ==
    LET x == answers[i] IN
    /\ x.to \in Operations /\ x.ok
    /\ Takes(i, <<Read("control", IF x.to = "create" THEN x.agent ELSE 0, 0)>>)
    /\ UNCHANGED <<server, access, listed, selected, messages, activeRun, busy, loops, counts>>

(* Without the messages of its visit, the answer about the runs is dropped. *)
Dropped(i) == [j \in DOMAIN answers |->
    IF answers[i].to = "visit" /\ answers[j].to = "runs" /\ answers[j].run = answers[i].run
    THEN [answers[j] EXCEPT !.ok = FALSE] ELSE answers[j]]

(* A refused or lost answer.  It ends a poll; sendMessage, when it awaits   *)
(* that poll or its own answer, clears whatever run is shown.               *)
Fails(i) ==
    LET x == answers[i]
        polled == x.to \in {"run", "poll"}
        caught == x.to = "send" \/ (polled /\ x.run \in awaited)
    IN  /\ \/ ~x.ok /\ UNCHANGED faults
           \/ x.ok /\ faults < MaxFaults /\ faults' = faults + 1
        /\ activeRun' = IF caught THEN Nothing ELSE activeRun
        /\ polling' = IF polled THEN polling \ {x.run} ELSE polling
        /\ awaited' = IF polled THEN awaited \ {x.run} ELSE awaited
        /\ busy' = (busy /\ x.to \notin Operations \cup {"control"}
                         /\ (x.to = "bootstrap" => access = "open"))
        /\ answers' = RemoveAt(Dropped(i), i) \o IF caught THEN <<Read("catch", 0, 0)>> ELSE <<>>
        /\ overtaken' = (overtaken \/ Overtakes(i, Topics(x.to)))
        /\ UNCHANGED <<server, access, listed, selected, messages, found, operations>>

Arrives(i) == \/ AuthAnswers(i) \/ VisitAnswers(i) \/ VisitShowsRun(i) \/ PollAnswers(i) \/ PollEnds(i)
              \/ SendAnswers(i) \/ ControlAnswers(i) \/ ListArrives(i)
              \/ (~answers[i].ok /\ Fails(i))
-----------------------------------------------------------------------------
(* What the user does, as far as the buttons allow it.                      *)

Operates == /\ HasRoom
            /\ operations < MaxOperations /\ operations' = operations + 1

(* unlock: the right token or another. *)
Unlock ==
    /\ Operates /\ access = "locked" /\ ~busy /\ busy' = TRUE
    /\ \E ok \in BOOLEAN : answers' = Append(answers, Answer("bootstrap", 0, 0, ok))
    /\ UNCHANGED <<server, access, listed, selected, messages, activeRun, loops, faults, overtaken>>

Choose(a) ==
    /\ Operates /\ access = "open" /\ a \in Known(listed)
    /\ Selects(a)
    /\ answers' = answers \o Visit(a)
    /\ UNCHANGED <<server, access, listed, messages, busy, loops, faults, overtaken>>

Send ==
    /\ Operates
    /\ access = "open" /\ selected # 0 /\ listed[selected] = "ready" /\ activeRun.status # "running"
    /\ IF status[selected] = "ready"
       THEN /\ Len(runs) < MaxRuns
            /\ status' = [status EXCEPT ![selected] = "busy"]
            /\ runs' = Append(runs, [agent |-> selected, status |-> "running"])
            /\ answers' = Append(answers, [Answer("send", selected, 0, TRUE) EXCEPT
                              !.run = Len(runs'), !.shown = [id |-> Len(runs'), status |-> "running"]])
       ELSE answers' = Append(answers, Answer("send", selected, 0, FALSE)) /\ UNCHANGED server
    /\ UNCHANGED <<access, listed, selected, messages, activeRun, busy, loops, faults, overtaken>>

(* updateAgent and startAgent are refused while a run is going on, which    *)
(* the page may not know.  stopAgent and deleteAgent end the run first; a   *)
(* deleted Agent is gone with its runs.                                     *)
Control(what, a) ==
    /\ Operates /\ access = "open" /\ ~busy /\ busy' = TRUE
    /\ CASE what = "create" -> status[a] = "absent"
         [] OTHER -> a = selected /\ listed[a] \in
                       CASE what = "start" -> {"stopped"} [] what = "stop" -> {"ready", "busy"}
                         [] what = "save" -> {"ready", "busy", "stopped"}
                         [] what = "delete" -> {"ready", "stopped"}
    /\ LET ok == \/ what = "create"
                 \/ a \in Known(status) /\ (what \in {"save", "start"} => status[a] # "busy") IN
       /\ status' = IF ~ok \/ what = "save" THEN status ELSE
                      [status EXCEPT ![a] = CASE what = "stop" -> "stopped"
                                              [] what = "delete" -> "deleted" [] OTHER -> "ready"]
       /\ runs' = IF what \in {"stop", "delete"} THEN Ended(a, "cancelled") ELSE runs
       /\ answers' = Append(answers, Answer(what, a, 0, ok))
    /\ UNCHANGED <<access, listed, selected, messages, activeRun, loops, faults, overtaken>>

Operation == \/ Unlock \/ Send
             \/ \E a \in Agents : Choose(a) \/ \E what \in Operations : Control(what, a)
-----------------------------------------------------------------------------
Arrival == \E i \in DOMAIN answers : Arrives(i)

Next == \/ Operation \/ Arrival \/ \E i \in DOMAIN answers : RunsReadLater(i) \/ Fails(i)
        \/ \E r \in 1..MaxRuns : PollAsks(r)
        \/ \E a \in Agents : RunBegins(a) \/ RunEnds(a)

Spec == Init /\ [][Next]_vars

(* Answers arrive or are given up and timers fire, runs end.                *)
FairSpec == /\ Spec
            /\ WF_vars(Arrival \/ \E r \in 1..MaxRuns : PollAsks(r))
            /\ WF_vars(\E a \in Agents : RunEnds(a))
-----------------------------------------------------------------------------
(* Types, and the run that is shown is one of the selected Agent, whatever  *)
(* was sent, selected or deleted in the meantime.                           *)
TypeOK ==
    /\ {status, listed} \subseteq [Agents -> {"absent", "ready", "busy", "stopped", "deleted"}]
    /\ access \in {"unknown", "locked", "open"}
    /\ Len(runs) <= MaxRuns /\ selected \in {0} \cup Known(listed)
    /\ messages \subseteq ((DOMAIN runs) \X {"user", "assistant"})
    /\ activeRun.id # 0 => runs[activeRun.id].agent = selected
    /\ awaited \subseteq polling /\ polling \subseteq DOMAIN runs
    /\ found \subseteq DOMAIN runs
    /\ {busy, overtaken} \subseteq BOOLEAN
    /\ operations \in 0..MaxOperations /\ faults \in 0..MaxFaults

(* The loops end, and unless an answer was lost or overtook an older one,   *)
(* or the screen is locked, the client ends up showing what the server has: *)
(* the Agents and their status, every message of the selected one, and no   *)
(* run as going on that has ended.  The end of a run of before this page    *)
(* was loaded may be missed when no visit of its Agent saw it going on: the *)
(* Agent may stay listed as busy, and messages of that run may be missing.  *)
ViewSettles ==
    <>[](/\ polling = {} /\ ~busy
         /\ \/ faults > 0 \/ overtaken \/ access = "locked"
            \/ /\ \A a \in Agents :
                    listed[a] = status[a] \/ (listed[a] = "busy" /\ RunsOf(a) \cap found # {})
               /\ selected # 0 =>
                    /\ messages \subseteq MessagesOf(selected)
                    /\ \A m \in MessagesOf(selected) \ messages : m[1] \in found
                    /\ activeRun \in {Nothing} \cup {Shown(r) : r \in RunsOf(selected)})
=============================================================================
