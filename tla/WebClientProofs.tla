---------------------------- MODULE WebClientProofs ----------------------------
(***************************************************************************)
(* Proofs about WebClient, for any number of Agents, runs, operations,     *)
(* answers under way and lost answers.                                     *)
(***************************************************************************)
EXTENDS WebClient, FiniteSetTheorems, WellFoundedInduction, TLAPS

LEMMA Bounds ==
  MaxAgents \in Nat /\ MaxRuns \in Nat /\ MaxOperations \in Nat /\ MaxAnswers \in Nat
  /\ MaxFaults \in Nat /\ MaxFound \in Nat /\ MaxFound <= MaxRuns
  BY BoundsAssumption

(* The inductive invariant.                                                 *)

Lists == [Agents -> {"absent", "ready", "busy", "stopped", "deleted"}]
Roles == {"user", "assistant"}
RunStatuses == {"running", "completed", "failed", "cancelled"}
RunRecords == [agent : Agents, status : RunStatuses]
ShownRuns == [id : Nat, status : RunStatuses \cup {"none"}]
Calls == {"auth", "visit", "runs", "run", "poll", "bootstrap", "control", "catch", "send"}
            \cup Operations
AnswerRecords == [to : Calls, agent : Agents \cup {0}, run : Nat, ok : BOOLEAN,
                  list : Lists \cup {<<>>}, messages : SUBSET (Nat \X Roles), shown : ShownRuns]

(* The server has this run, and it is one of this Agent.                    *)
Owns(a, r) == r \in DOMAIN runs /\ runs[r].agent = a

(* What answers say, however late they come: of runs, only what is theirs;  *)
(* of an Agent that was created, that it was there when the list was read.  *)
Sound == {x \in AnswerRecords :
            /\ x.shown # Nothing => Owns(x.agent, x.shown.id)
            /\ x.messages \subseteq (DOMAIN runs) \X Roles
            /\ "list" \in Topics(x.to) => x.list \in Lists
            /\ x.ok /\ x.to \in {"run", "poll", "send"} => Owns(x.agent, x.run)
            /\ x.ok /\ x.to = "control" /\ x.agent # 0 => x.agent \in Known(x.list)
            /\ x.to \in {"bootstrap", "catch"} => x.agent = 0}

ServerTypes == /\ status \in Lists
               /\ runs \in Seq(RunRecords) /\ Len(runs) <= MaxRuns

ShownTypes ==
    /\ listed \in Lists /\ selected \in {0} \cup Known(listed)
    /\ messages \subseteq (DOMAIN runs) \X Roles
    /\ activeRun \in ShownRuns /\ (activeRun.id # 0 => Owns(selected, activeRun.id))

ClientTypes ==
    /\ access \in {"unknown", "locked", "open"}
    /\ awaited \subseteq polling /\ polling \subseteq DOMAIN runs /\ found \subseteq DOMAIN runs
    /\ busy \in BOOLEAN /\ overtaken \in BOOLEAN
    /\ operations \in 0..MaxOperations /\ faults \in 0..MaxFaults

Inv == ServerTypes /\ ShownTypes /\ ClientTypes /\ answers \in Seq(Sound)
-----------------------------------------------------------------------------
(* The last and the first of a set of numbers up to a bound are in it.      *)
LEMMA LargestIsIn ==
  ASSUME NEW n \in Nat, NEW S \in SUBSET (1..n), S # {}
  PROVE  Max(S) \in S
<1> DEFINE R == OpToRel(<, Nat)
           T == {n - i : i \in S}
<1>1. T \subseteq Nat /\ T # {}
  <2>1. \A i \in S : i \in Nat /\ i <= n
    OBVIOUS
  <2>2. \A i \in S : n - i \in Nat
    BY <2>1
  <2>. QED
    BY <2>2
<1>2. PICK x \in T : \A y \in T : ~(<<y, x>> \in R)
  BY <1>1, NatLessThanWellFounded, WFMin
<1>3. \A y \in T : <<y, x>> \in R <=> y < x
  BY <1>1 DEF OpToRel
<1> HIDE DEF R
<1>4. \A y \in T : ~(y < x)
  BY <1>2, <1>3
<1>5. PICK m \in S : x = n - m
  OBVIOUS
<1>6. \A i \in S : m >= i
  <2> SUFFICES ASSUME NEW i \in S PROVE m >= i
    OBVIOUS
  <2>1. i \in Int /\ m \in Int
    OBVIOUS
  <2>2. ~(n - i < x)
    BY <1>4
  <2>. QED
    BY <2>1, <2>2, <1>5
<1>. QED
  BY <1>6 DEF Max

LEMMA SmallestIsIn ==
  ASSUME NEW n \in Nat, NEW S \in SUBSET (1..n), S # {}
  PROVE  Min(S) \in S
<1> DEFINE R == OpToRel(<, Nat)
<1>1. S \subseteq Nat
  OBVIOUS
<1>2. PICK x \in S : \A y \in S : ~(<<y, x>> \in R)
  BY <1>1, NatLessThanWellFounded, WFMin
<1>3. \A y \in S : <<y, x>> \in R <=> y < x
  BY <1>1 DEF OpToRel
<1> HIDE DEF R
<1>4. \A y \in S : x =< y
  <2>1. \A y \in S : y \in Nat /\ ~(y < x)
    BY <1>1, <1>2, <1>3
  <2>2. x \in Nat
    BY <1>1
  <2>. QED
    BY <2>1, <2>2
<1>. QED
  BY <1>4 DEF Min

(* An answer that is taken makes room for more.                             *)
LEMMA TakenType ==
  ASSUME NEW S, NEW s \in Seq(S), NEW i \in DOMAIN s, NEW more \in Seq(S)
  PROVE  RemoveAt(s, i) \o more \in Seq(S)
<1>1. i \in 1..Len(s) /\ Len(s) \in Nat
  OBVIOUS
<1>2. SubSeq(s, 1, i - 1) \in Seq(S) /\ SubSeq(s, i + 1, Len(s)) \in Seq(S)
  BY <1>1
<1>3. RemoveAt(s, i) \in Seq(S)
  BY <1>2 DEF RemoveAt
<1>. QED
  BY <1>3

(* refreshAgents selects an Agent that is listed, or none.                  *)
LEMMA KeptIsKnown == ASSUME Inv, NEW list \in Lists PROVE Kept(list) \in {0} \cup Known(list)
<1>1. Known(list) \in SUBSET (1..MaxAgents)
  BY DEF Known, Agents
<1>2. Known(list) # {} => Min(Known(list)) \in Known(list)
  BY <1>1, Bounds, SmallestIsIn
<1>. QED
  BY <1>2 DEF Kept

LEMMA RunIsRecord ==
  ASSUME ServerTypes, NEW r \in DOMAIN runs
  PROVE  /\ r \in Nat \ {0} /\ r <= MaxRuns
         /\ runs[r] \in RunRecords /\ runs[r].agent \in Agents /\ runs[r].status \in RunStatuses
<1>1. runs \in Seq(RunRecords) /\ Len(runs) \in Nat /\ r \in 1..Len(runs)
  BY DEF ServerTypes
<1>2. r \in Nat \ {0} /\ r <= MaxRuns
  BY <1>1, Bounds DEF ServerTypes
<1>3. runs[r] \in RunRecords
  BY <1>1
<1>. QED
  BY <1>2, <1>3 DEF RunRecords

(* The latest run of an Agent is one of its runs.                           *)
LEMMA LatestIsOwn ==
  ASSUME Inv, NEW a \in Agents \cup {0}
  PROVE  /\ LatestRun(a) \in ShownRuns
         /\ LatestRun(a) # Nothing => Owns(a, LatestRun(a).id)
<1>1. Len(runs) \in Nat /\ DOMAIN runs = 1..Len(runs)
  BY DEF Inv, ServerTypes
<1>2. CASE RunsOf(a) = {}
  BY <1>2 DEF LatestRun, Nothing, ShownRuns
<1>3. CASE RunsOf(a) # {}
  <2>1. Max(RunsOf(a)) \in RunsOf(a)
    BY <1>1, <1>3, LargestIsIn DEF RunsOf
  <2>2. PICK r \in RunsOf(a) : r = Max(RunsOf(a))
    BY <2>1
  <2>3. LatestRun(a) = Shown(r)
    BY <1>3, <2>2 DEF LatestRun
  <2>4. Owns(a, r) /\ r \in Nat
    BY <1>1 DEF RunsOf, Owns
  <2>5. runs[r].status \in RunStatuses
    BY <2>4, RunIsRecord DEF Inv, Owns
  <2>. QED
    BY <2>3, <2>4, <2>5 DEF Shown, ShownRuns
<1>. QED
  BY <1>2, <1>3

(* Every answer the server makes is sound when it makes it.                 *)
LEMMA AnswerIsSound ==
  ASSUME Inv, NEW to \in Calls, NEW a \in Agents \cup {0}, NEW r \in Nat, NEW ok \in BOOLEAN,
         to \in {"run", "poll"} \/ (to = "send" /\ ok) => Owns(a, r),
         to = "control" /\ a # 0 /\ ok => a \in Known(status),
         to \in {"bootstrap", "catch"} => a = 0
  PROVE  Answer(to, a, r, ok) \in Sound
<1> DEFINE x == Answer(to, a, r, ok)
<1>1. MessagesOf(a) \subseteq (DOMAIN runs) \X Roles
  BY DEF MessagesOf, RunsOf, Roles
<1>2. DOMAIN runs \subseteq Nat /\ status \in Lists
  BY DEF Inv, ServerTypes
<1>3. Owns(a, r) => Shown(r) \in ShownRuns /\ Shown(r).id = r
  BY RunIsRecord DEF Inv, Owns, Shown, ShownRuns
<1>4. Nothing \in ShownRuns /\ Nothing.id = 0
  BY DEF Nothing, ShownRuns
<1>5. x.shown \in ShownRuns /\ (x.shown # Nothing => Owns(a, x.shown.id))
  BY <1>3, <1>4, LatestIsOwn DEF Answer
<1>6. x.messages \subseteq (DOMAIN runs) \X Roles
  BY <1>1 DEF Answer
<1>7. x.list \in Lists \cup {<<>>} /\ ("list" \in Topics(to) => x.list = status)
  BY <1>2 DEF Answer
<1>8. x.to = to /\ x.agent = a /\ x.run = r /\ x.ok = ok
  BY DEF Answer
<1>9. x \in AnswerRecords
  <2>1. x.messages \in SUBSET (Nat \X Roles)
    BY <1>2, <1>6
  <2>. QED
    BY <1>5, <1>7, <1>8, <2>1 DEF Answer, AnswerRecords
<1>10. to = "control" => "list" \in Topics(to)
  BY DEF Topics
<1>. HIDE DEF x
<1>. QED
  BY <1>2, <1>5, <1>6, <1>7, <1>8, <1>9, <1>10 DEF Sound, x

(* What was sound stays so: runs are added and change their status, but not *)
(* their Agent.                                                             *)
RunsStay == /\ DOMAIN runs \subseteq DOMAIN runs'
            /\ \A r \in DOMAIN runs : runs'[r].agent = runs[r].agent

LEMMA SoundStands ==
  ASSUME RunsStay
  PROVE  /\ Sound \subseteq Sound'
         /\ Seq(Sound) \subseteq Seq(Sound')
         /\ \A a, r : Owns(a, r) => Owns(a, r)'
<1>1. \A a, r : Owns(a, r) => Owns(a, r)'
  BY DEF RunsStay, Owns
<1>2. Sound \subseteq Sound'
  <2> SUFFICES ASSUME NEW x \in Sound PROVE x \in Sound'
    OBVIOUS
  <2>1. x.messages \subseteq (DOMAIN runs') \X Roles
    BY DEF Sound, RunsStay
  <2>. QED
    BY <1>1, <2>1 DEF Sound
<1>. QED
  BY <1>1, <1>2

(* A step of the client, which leaves the server alone.                     *)
LEMMA ClientStep ==
  ASSUME Inv, UNCHANGED server, ShownTypes', ClientTypes', answers' \in Seq(Sound)
  PROVE  Inv'
<1>1. RunsStay /\ ServerTypes'
  BY DEF Inv, server, RunsStay, ServerTypes
<1>. QED
  BY <1>1, SoundStands DEF Inv

(* A step of the server: what the client shows stays.                       *)
LEMMA ShownStands ==
  ASSUME Inv, RunsStay, UNCHANGED <<listed, selected, messages, activeRun>>
  PROVE  ShownTypes'
<1>1. \A r : Owns(selected, r) => Owns(selected, r)'
  BY SoundStands
<1>2. messages \subseteq (DOMAIN runs') \X Roles
  BY DEF Inv, ShownTypes, RunsStay
<1>. QED
  BY <1>1, <1>2 DEF Inv, ShownTypes, Known, Owns

LEMMA EndedRuns ==
  ASSUME ServerTypes, NEW a, NEW ending \in {"completed", "failed", "cancelled"}
  PROVE  /\ Ended(a, ending) \in Seq(RunRecords) /\ Len(Ended(a, ending)) = Len(runs)
         /\ DOMAIN Ended(a, ending) = DOMAIN runs
         /\ \A r \in DOMAIN runs : Ended(a, ending)[r].agent = runs[r].agent
<1> DEFINE new == Ended(a, ending)
<1>1. Len(runs) \in Nat /\ DOMAIN runs = 1..Len(runs)
  BY DEF ServerTypes
<1>2. ASSUME NEW r \in DOMAIN runs PROVE new[r] \in RunRecords /\ new[r].agent = runs[r].agent
  <2>1. runs[r] \in RunRecords
    BY RunIsRecord
  <2>. QED
    BY <2>1 DEF Ended, RunRecords, RunStatuses
<1>3. DOMAIN new = 1..Len(runs) /\ new = [r \in 1..Len(runs) |-> new[r]]
  BY <1>1 DEF Ended
<1>. HIDE DEF new
<1>4. new \in Seq(RunRecords) /\ Len(new) = Len(runs)
  BY <1>1, <1>2, <1>3
<1>. QED
  BY <1>1, <1>2, <1>3, <1>4 DEF new

LEMMA InitEstablishes == Init => Inv
<1> SUFFICES ASSUME Init PROVE Inv
  OBVIOUS
<1>. USE DEF Init
<1>1. ServerTypes
  BY Bounds DEF ServerTypes, Lists
<1>2. ShownTypes
  BY DEF ShownTypes, Lists, Nothing, ShownRuns
<1>3. ClientTypes
  <2>1. access = "unknown" /\ polling = {} /\ awaited = {} /\ found = {} /\ operations = 0 /\ faults = 0
    OBVIOUS
  <2>2. busy \in BOOLEAN /\ overtaken \in BOOLEAN
    OBVIOUS
  <2>3. operations \in 0..MaxOperations /\ faults \in 0..MaxFaults
    BY <2>1, Bounds
  <2>. HIDE DEF Init
  <2>. QED
    BY <2>1, <2>2, <2>3 DEF ClientTypes
<1>4. answers \in Seq(Sound)
  <2> DEFINE x == Answer("auth", 0, 0, TRUE)
  <2>1. answers = <<x>>
    BY DEF Read
  <2>2. x = [to |-> "auth", agent |-> 0, run |-> 0, ok |-> TRUE, list |-> <<>>,
             messages |-> {}, shown |-> Nothing]
    BY DEF Answer, Topics, Operations
  <2>3. x \in AnswerRecords
    <3>1. Nothing \in ShownRuns /\ "auth" \in Calls
      BY DEF Nothing, ShownRuns, Calls
    <3>. HIDE DEF x, Init
    <3>. QED
      BY <2>2, <3>1 DEF AnswerRecords
  <2>4. x \in Sound
    <3>. HIDE DEF x
    <3>. QED
      BY <2>2, <2>3 DEF Sound, Topics, Nothing, Operations
  <2>. HIDE DEF x
  <2>. QED
    BY <2>1, <2>4
<1>. QED
  BY <1>1, <1>2, <1>3, <1>4 DEF Inv

LEMMA RunBeginsPreserves == ASSUME Inv, NEW a \in Agents, RunBegins(a) PROVE Inv'
<1> DEFINE run == [agent |-> a, status |-> "running"]
<1>1. /\ Len(runs) < MaxFound /\ status' = [status EXCEPT ![a] = "busy"]
      /\ runs' = Append(runs, run) /\ found' = found \cup {Len(runs')}
      /\ UNCHANGED <<access, listed, selected, messages, activeRun, busy, polling, awaited,
                     answers, operations, faults, overtaken>>
  BY DEF RunBegins, counts
<1>2. run \in RunRecords
  BY DEF RunRecords, RunStatuses
<1>. HIDE DEF run
<1>3. Len(runs) \in Nat /\ DOMAIN runs = 1..Len(runs) /\ runs \in Seq(RunRecords)
  BY DEF Inv, ServerTypes
<1>4. /\ runs' \in Seq(RunRecords) /\ Len(runs') = Len(runs) + 1 /\ DOMAIN runs' = 1..Len(runs')
      /\ \A r \in DOMAIN runs : runs'[r] = runs[r]
  BY <1>1, <1>2, <1>3
<1>5. ServerTypes'
  BY <1>1, <1>3, <1>4, Bounds DEF Inv, ServerTypes, Lists
<1>6. RunsStay
  BY <1>3, <1>4 DEF RunsStay
<1>7. ShownTypes'
  BY <1>1, <1>6, ShownStands
<1>8. ClientTypes'
  <2>1. Len(runs') \in DOMAIN runs'
    BY <1>3, <1>4
  <2>. QED
    BY <1>1, <1>6, <2>1 DEF Inv, ClientTypes, RunsStay
<1>. QED
  BY <1>1, <1>5, <1>6, <1>7, <1>8, SoundStands DEF Inv

LEMMA RunEndsPreserves == ASSUME Inv, NEW a \in Agents, RunEnds(a) PROVE Inv'
<1>1. PICK ending \in {"completed", "failed"} :
        /\ status' = [status EXCEPT ![a] = "ready"] /\ runs' = Ended(a, ending)
        /\ found' \subseteq found
        /\ UNCHANGED <<access, listed, selected, messages, activeRun, busy, polling,
                       awaited, answers, operations, faults, overtaken>>
  BY DEF RunEnds, counts
<1>2. ServerTypes' /\ RunsStay
  BY <1>1, EndedRuns DEF Inv, ServerTypes, Lists, RunsStay
<1>3. ShownTypes'
  BY <1>1, <1>2, ShownStands
<1>4. ClientTypes'
  BY <1>1, <1>2 DEF Inv, ClientTypes, RunsStay
<1>. QED
  BY <1>1, <1>2, <1>3, <1>4, SoundStands DEF Inv

(* What an answer that is there says.                                       *)
LEMMA Present ==
  ASSUME Inv, NEW i \in DOMAIN answers PROVE answers[i] \in Sound /\ answers[i] \in AnswerRecords
<1>1. answers[i] \in Sound
  BY DEF Inv
<1>. QED
  BY <1>1 DEF Sound

LEMMA ReadIsSound ==
  ASSUME Inv, NEW to \in Calls \ {"send"}, NEW a \in Agents \cup {0}, NEW r \in Nat,
         to \in {"run", "poll"} => Owns(a, r),
         to \in {"bootstrap", "catch"} => a = 0
  PROVE  Read(to, a, r) \in Sound
<1> DEFINE ok == a = 0 \/ a \in Known(status)
<1>1. ok \in BOOLEAN /\ (to = "control" /\ a # 0 /\ ok => a \in Known(status))
  OBVIOUS
<1>2. Read(to, a, r) = Answer(to, a, r, ok)
  BY DEF Read
<1>. HIDE DEF ok
<1>. QED
  BY <1>1, <1>2, AnswerIsSound

(* How many numbers there are up to n, and one more than that.              *)
LEMMA UpTo == ASSUME NEW n \in Nat PROVE IsFiniteSet(1..n) /\ Cardinality(1..n) = n
<1>1. 1 \in Int /\ n \in Int
  OBVIOUS
<1>2. IsFiniteSet(1..n) /\ Cardinality(1..n) = IF 1 > n THEN 0 ELSE n - 1 + 1
  BY <1>1, FS_Interval
<1>. QED
  BY <1>2

LEMMA OneTooMany ==
  ASSUME NEW n \in Nat, NEW f \in [1..n + 1 -> 1..n]
  PROVE  \E v, w \in 1..n + 1 : v # w /\ f[v] = f[w]
<1>1. IsFiniteSet(1..n) /\ Cardinality(1..n) = n
  BY UpTo
<1>2. n + 1 \in Nat
  OBVIOUS
<1>3. IsFiniteSet(1..n + 1) /\ Cardinality(1..n + 1) = n + 1
  BY <1>2, UpTo
<1>4. Cardinality(1..n) < Cardinality(1..n + 1)
  BY <1>1, <1>3
<1>. QED
  BY <1>1, <1>3, <1>4, FS_PigeonHole

(* There are fewer visits under way than numbers to give them.              *)
LEMMA VisitHasNumber == ASSUME Inv PROVE NextVisit \in Nat
<1>. PICK n \in Nat : n = Len(answers)
  BY DEF Inv
<1> DEFINE Free == (1..n + 1) \ VisitsUnderWay
           at == [v \in 1..n + 1 |-> CHOOSE i \in 1..n : answers[i].run = v]
<1>1. DOMAIN answers = 1..n
  BY DEF Inv
<1>2. Free # {}
  <2> SUFFICES ASSUME 1..n + 1 \subseteq VisitsUnderWay PROVE FALSE
    OBVIOUS
  <2>1. ASSUME NEW v \in 1..n + 1 PROVE at[v] \in 1..n /\ answers[at[v]].run = v
    <3>1. \E i \in 1..n : answers[i].run = v
      BY <1>1 DEF VisitsUnderWay
    <3>. QED
      BY <3>1
  <2>2. at \in [1..n + 1 -> 1..n]
    BY <2>1
  <2>. HIDE DEF at
  <2>3. PICK v \in 1..n + 1, w \in 1..n + 1 : v # w /\ at[v] = at[w]
    BY <2>2, OneTooMany
  <2>. QED
    BY <2>1, <2>3
<1>. PICK m \in Nat : m = n + 1
  OBVIOUS
<1>3. Free \in SUBSET (1..m) /\ NextVisit = Min(Free)
  BY DEF NextVisit
<1>. HIDE DEF Free
<1>4. Min(Free) \in Free
  BY <1>2, <1>3, SmallestIsIn
<1>5. NextVisit \in 1..m
  BY <1>3, <1>4
<1>. QED
  BY <1>5

LEMMA VisitIsSound ==
  ASSUME Inv, NEW a \in Agents \cup {0} PROVE Visit(a) \in Seq(Sound)
<1>. PICK v \in Nat : v = NextVisit
  BY VisitHasNumber
<1>1. Read("visit", a, v) \in Sound /\ Read("runs", a, v) \in Sound
  BY ReadIsSound DEF Calls
<1>. QED
  BY <1>1 DEF Visit

LEMMA TakesIsSound ==
  ASSUME Inv, NEW i \in DOMAIN answers, NEW more \in Seq(Sound), Takes(i, more)
  PROVE  answers' \in Seq(Sound) /\ overtaken' \in BOOLEAN
<1>1. answers' \in Seq(Sound)
  BY TakenType DEF Inv, Takes
<1>2. overtaken' \in BOOLEAN
  <2> DEFINE over == Overtakes(i, Topics(answers[i].to))
  <2>1. overtaken' = (overtaken \/ over) /\ overtaken \in BOOLEAN
    BY DEF Takes, Inv, ClientTypes
  <2>. HIDE DEF over
  <2>. QED
    BY <2>1
<1>. QED
  BY <1>1, <1>2

(* Another selection shows no run until its own is read.                    *)
LEMMA SelectsKeepsTypes ==
  ASSUME Inv, NEW a, listed' \in Lists, a \in {0} \cup Known(listed)', Selects(a),
         runs' = runs, messages' \subseteq (DOMAIN runs) \X Roles
  PROVE  ShownTypes'
<1>1. Nothing \in ShownRuns /\ Nothing.id = 0
  BY DEF Nothing, ShownRuns
<1>2. activeRun' \in ShownRuns /\ (activeRun'.id # 0 => a = selected /\ activeRun' = activeRun)
  BY <1>1 DEF Selects, Inv, ShownTypes
<1>3. activeRun'.id # 0 => Owns(a, activeRun'.id)
  BY <1>2 DEF Inv, ShownTypes
<1>4. selected' = a
  BY DEF Selects
<1>. QED
  BY <1>2, <1>3, <1>4 DEF ShownTypes, Owns

LEMMA AuthAnswersPreserves ==
  ASSUME Inv, NEW i \in DOMAIN answers, AuthAnswers(i) PROVE Inv'
<1>1. PICK more \in Seq(Sound) : Takes(i, more)
  <2>1. Read("bootstrap", 0, 0) \in Sound
    BY ReadIsSound DEF Calls
  <2>2. \A required \in BOOLEAN :
          (IF required THEN <<>> ELSE <<Read("bootstrap", 0, 0)>>) \in Seq(Sound)
    BY <2>1
  <2>. QED
    BY <2>2 DEF AuthAnswers
<1>2. /\ access' \in {"locked", "open"}
      /\ UNCHANGED <<status, runs, listed, selected, messages, activeRun, busy, polling,
                     awaited, found, operations, faults>>
  BY DEF AuthAnswers, server, loops, counts
<1>3. answers' \in Seq(Sound) /\ overtaken' \in BOOLEAN
  BY <1>1, TakesIsSound
<1>4. ShownTypes'
  BY <1>2 DEF Inv, ShownTypes, Owns, Known
<1>5. ClientTypes'
  BY <1>2, <1>3 DEF Inv, ClientTypes
<1>. QED
  BY <1>2, <1>3, <1>4, <1>5, ClientStep DEF server

LEMMA VisitAnswersPreserves ==
  ASSUME Inv, NEW i \in DOMAIN answers, VisitAnswers(i) PROVE Inv'
<1> DEFINE x == answers[i]
<1>1. x \in Sound
  BY Present
<1>2. /\ messages' = (IF ForSelected(x.agent) THEN x.messages ELSE messages)
      /\ Takes(i, <<>>)
      /\ UNCHANGED <<status, runs, access, listed, selected, activeRun, busy, polling,
                     awaited, found, operations, faults>>
  BY DEF VisitAnswers, server, loops, counts
<1>3. answers' \in Seq(Sound) /\ overtaken' \in BOOLEAN
  <2>1. <<>> \in Seq(Sound)
    OBVIOUS
  <2>. QED
    BY <1>2, <2>1, TakesIsSound
<1>. HIDE DEF x
<1>4. ShownTypes'
  <2>1. messages' \subseteq (DOMAIN runs) \X Roles
    BY <1>1, <1>2 DEF Inv, ShownTypes, Sound
  <2>. QED
    BY <1>2, <2>1 DEF Inv, ShownTypes, Owns, Known
<1>5. ClientTypes'
  BY <1>2, <1>3 DEF Inv, ClientTypes
<1>. QED
  BY <1>2, <1>3, <1>4, <1>5, ClientStep DEF server

(* What the later read of the runs says is sound as well.                   *)
LEMMA LaterIsSound ==
  ASSUME Inv, NEW i \in DOMAIN answers, answers[i].to = "runs"
  PROVE  Read("runs", answers[i].agent, answers[i].run) \in Sound
<1>1. answers[i].agent \in Agents \cup {0} /\ answers[i].run \in Nat
  BY Present DEF AnswerRecords
<1>. QED
  BY <1>1, ReadIsSound DEF Calls

LEMMA RunsReadLaterPreserves ==
  ASSUME Inv, NEW i \in DOMAIN answers, RunsReadLater(i) PROVE Inv'
<1>1. PICK y \in Sound : answers' = RemoveAt(answers, i) \o <<y>>
  BY LaterIsSound DEF RunsReadLater
<1>2. UNCHANGED <<status, runs, access, listed, selected, messages, activeRun, busy, polling,
                  awaited, found, operations, faults, overtaken>>
  BY DEF RunsReadLater, server, loops, counts
<1>3. answers' \in Seq(Sound)
  <2>1. <<y>> \in Seq(Sound)
    OBVIOUS
  <2>. QED
    BY <1>1, <2>1, TakenType DEF Inv
<1>4. ShownTypes' /\ ClientTypes'
  BY <1>2 DEF Inv, ShownTypes, ClientTypes, Owns, Known
<1>. QED
  BY <1>2, <1>3, <1>4, ClientStep DEF server

(* A run that is shown of the selected Agent is its own.                    *)
LEMMA ShownIsOwn ==
  ASSUME NEW x \in Sound
  PROVE  /\ x.shown \in ShownRuns
         /\ x.shown.id # 0 => Owns(x.agent, x.shown.id)
         /\ x.shown.status = "running" => x.shown.id \in DOMAIN runs
  BY DEF Sound, AnswerRecords, Nothing, Owns

LEMMA VisitShowsRunPreserves ==
  ASSUME Inv, NEW i \in DOMAIN answers, VisitShowsRun(i) PROVE Inv'
<1> DEFINE x == answers[i]
<1>1. x \in Sound
  BY Present
<1>2. /\ Takes(i, <<>>)
      /\ activeRun' = (IF ForSelected(x.agent) THEN x.shown ELSE activeRun)
      /\ polling' \in {polling, polling \cup GoingOn(x.shown)} /\ found' \subseteq found
      /\ UNCHANGED <<status, runs, access, listed, selected, messages, busy,
                     awaited, operations, faults>>
  BY DEF VisitShowsRun, server, counts
<1>3. answers' \in Seq(Sound) /\ overtaken' \in BOOLEAN
  <2>1. <<>> \in Seq(Sound)
    OBVIOUS
  <2>. QED
    BY <1>2, <2>1, TakesIsSound
<1>. HIDE DEF x
<1>4. ShownTypes'
  <2>1. activeRun' \in ShownRuns /\ (activeRun'.id # 0 => Owns(selected, activeRun'.id))
    BY <1>1, <1>2, ShownIsOwn DEF Inv, ShownTypes, ForSelected
  <2>. QED
    BY <1>2, <2>1 DEF Inv, ShownTypes, Owns, Known
<1>5. ClientTypes'
  <2>1. polling \subseteq polling' /\ polling' \subseteq DOMAIN runs
    BY <1>1, <1>2, ShownIsOwn DEF Inv, ClientTypes, GoingOn
  <2>. QED
    BY <1>2, <1>3, <2>1 DEF Inv, ClientTypes
<1>. QED
  BY <1>2, <1>3, <1>4, <1>5, ClientStep DEF server

LEMMA PollAsksPreserves == ASSUME Inv, NEW r \in 1..MaxRuns, PollAsks(r) PROVE Inv'
<1>1. /\ r \in polling /\ answers' = Append(answers, Read("run", runs[r].agent, r))
      /\ UNCHANGED <<status, runs, access, listed, selected, messages, activeRun, busy,
                     polling, awaited, found, operations, faults, overtaken>>
  BY DEF PollAsks, server, loops, counts
<1>2. r \in DOMAIN runs /\ ServerTypes
  BY <1>1 DEF Inv, ClientTypes
<1>3. r \in Nat \ {0} /\ runs[r].agent \in Agents
  BY <1>2, RunIsRecord
<1>4. Read("run", runs[r].agent, r) \in Sound
  BY <1>2, <1>3, ReadIsSound DEF Owns, Calls
<1>5. answers' \in Seq(Sound)
  BY <1>1, <1>4 DEF Inv
<1>6. ShownTypes' /\ ClientTypes'
  BY <1>1 DEF Inv, ShownTypes, ClientTypes, Owns, Known
<1>. QED
  BY <1>1, <1>5, <1>6, ClientStep DEF server

LEMMA PollAnswersPreserves ==
  ASSUME Inv, NEW i \in DOMAIN answers, PollAnswers(i) PROVE Inv'
<1> DEFINE x == answers[i]
<1>1. x \in Sound
  BY Present
<1>2. /\ x.to = "run" /\ x.ok /\ Takes(i, LastRead(x))
      /\ activeRun' = (IF ForSelected(x.agent) THEN x.shown ELSE activeRun)
      /\ UNCHANGED <<status, runs, access, listed, selected, messages, busy,
                     polling, awaited, found, operations, faults>>
  BY DEF PollAnswers, server, loops, counts
<1>. HIDE DEF x
<1>3. LastRead(x) \in Seq(Sound)
  <2>1. Owns(x.agent, x.run)
    BY <1>1, <1>2 DEF Sound
  <2>2. x.run \in Nat \ {0} /\ x.agent \in Agents
    BY <2>1, RunIsRecord DEF Inv, Owns
  <2>3. Read("poll", x.agent, x.run) \in Sound
    BY <2>1, <2>2, ReadIsSound DEF Calls
  <2>. QED
    BY <2>3 DEF LastRead
<1>4. answers' \in Seq(Sound) /\ overtaken' \in BOOLEAN
  BY <1>2, <1>3, TakesIsSound
<1>5. ShownTypes'
  <2>1. activeRun' \in ShownRuns /\ (activeRun'.id # 0 => Owns(selected, activeRun'.id))
    BY <1>1, <1>2, ShownIsOwn DEF Inv, ShownTypes, ForSelected
  <2>. QED
    BY <1>2, <2>1 DEF Inv, ShownTypes, Owns, Known
<1>6. ClientTypes'
  BY <1>2, <1>4 DEF Inv, ClientTypes
<1>. QED
  BY <1>2, <1>4, <1>5, <1>6, ClientStep DEF server

LEMMA PollEndsPreserves ==
  ASSUME Inv, NEW i \in DOMAIN answers, PollEnds(i) PROVE Inv'
<1> DEFINE x == answers[i]
           a == Kept(x.list)
<1>1. x \in Sound
  BY Present
<1>2. /\ x.to = "poll" /\ x.ok /\ Takes(i, Visit(a))
      /\ Shows(a, IF ForSelected(x.agent) THEN x.messages ELSE messages)
      /\ listed' = x.list /\ Selects(a)
      /\ polling' = polling \ {x.run} /\ awaited' = awaited \ {x.run}
      /\ UNCHANGED <<status, runs, access, busy, found, operations, faults>>
  BY DEF PollEnds, server, counts
<1>3. x.list \in Lists
  BY <1>1, <1>2 DEF Sound, Topics
<1>4. a \in {0} \cup Known(x.list)
  BY <1>3, KeptIsKnown
<1>5. answers' \in Seq(Sound) /\ overtaken' \in BOOLEAN
  <2>1. a \in Agents \cup {0}
    BY <1>4 DEF Known
  <2>. QED
    BY <1>2, <2>1, VisitIsSound, TakesIsSound
<1>. HIDE DEF x, a
<1>6. ShownTypes'
  <2>1. messages' \subseteq (DOMAIN runs) \X Roles
    BY <1>1, <1>2 DEF Shows, Inv, ShownTypes, Sound
  <2>2. Known(listed)' = Known(x.list)
    BY <1>2 DEF Known
  <2>. QED
    BY <1>2, <1>3, <1>4, <2>1, <2>2, SelectsKeepsTypes
<1>7. ClientTypes'
  BY <1>2, <1>5 DEF Inv, ClientTypes
<1>. QED
  BY <1>2, <1>5, <1>6, <1>7, ClientStep DEF server

LEMMA SendAnswersPreserves ==
  ASSUME Inv, NEW i \in DOMAIN answers, SendAnswers(i) PROVE Inv'
<1> DEFINE x == answers[i]
<1>1. x \in Sound
  BY Present
<1>2. /\ x.to = "send" /\ x.ok /\ Takes(i, <<>>)
      /\ IF ForSelected(x.agent)
         THEN messages' = messages \cup {<<x.run, "user">>} /\ activeRun' = x.shown
         ELSE UNCHANGED <<messages, activeRun>>
      /\ listed' = [b \in Agents |->
                      IF b = x.agent /\ b \in Known(listed) THEN "busy" ELSE listed[b]]
      /\ polling' = polling \cup {x.run}
      /\ awaited' = awaited \cup ({x.run} \ polling)
      /\ UNCHANGED <<status, runs, access, selected, busy, found, operations, faults>>
  BY DEF SendAnswers, server, counts
<1>3. answers' \in Seq(Sound) /\ overtaken' \in BOOLEAN
  <2>1. <<>> \in Seq(Sound)
    OBVIOUS
  <2>. QED
    BY <1>2, <2>1, TakesIsSound
<1>. HIDE DEF x
<1>4. Owns(x.agent, x.run)
  BY <1>1, <1>2 DEF Sound
<1>5. ShownTypes'
  <2>1. activeRun' \in ShownRuns /\ (activeRun'.id # 0 => Owns(selected, activeRun'.id))
    BY <1>1, <1>2, ShownIsOwn DEF Inv, ShownTypes, ForSelected
  <2>2. messages' \subseteq (DOMAIN runs) \X Roles
    BY <1>2, <1>4 DEF Inv, ShownTypes, Owns, Roles
  <2>3. listed' \in Lists /\ Known(listed) \subseteq Known(listed)'
    BY <1>2 DEF Inv, ShownTypes, Lists, Known
  <2>. QED
    BY <1>2, <2>1, <2>2, <2>3 DEF Inv, ShownTypes, Owns
<1>6. ClientTypes'
  BY <1>2, <1>3, <1>4 DEF Inv, ClientTypes, Owns
<1>. QED
  BY <1>2, <1>3, <1>5, <1>6, ClientStep DEF server

LEMMA ListArrivesPreserves ==
  ASSUME Inv, NEW i \in DOMAIN answers, ListArrives(i) PROVE Inv'
<1> DEFINE x == answers[i]
           next == IF x.agent = 0 THEN Kept(x.list) ELSE x.agent
           still == x.to = "catch" \/ (x.to = "bootstrap" /\ access = "open")
<1>1. x \in Sound
  BY Present
<1>2. /\ x.to \in {"bootstrap", "control", "catch"} /\ x.ok /\ Takes(i, Visit(next))
      /\ access' \in {"open", access}
      /\ listed' = x.list /\ Selects(next) /\ Shows(next, messages)
      /\ busy' = (busy /\ still)
      /\ UNCHANGED <<status, runs, polling, awaited, found, operations, faults>>
  BY DEF ListArrives, server, loops, counts
<1>3. x.list \in Lists
  BY <1>1, <1>2 DEF Sound, Topics, Operations
<1>4. next \in {0} \cup Known(x.list)
  BY <1>1, <1>2, <1>3, KeptIsKnown DEF Sound
<1>5. answers' \in Seq(Sound) /\ overtaken' \in BOOLEAN
  <2>1. next \in Agents \cup {0}
    BY <1>4 DEF Known
  <2>. HIDE DEF next
  <2>. QED
    BY <1>2, <2>1, VisitIsSound, TakesIsSound
<1>. HIDE DEF x, next, still
<1>6. ShownTypes'
  <2>1. messages' \subseteq (DOMAIN runs) \X Roles
    BY <1>2 DEF Shows, Inv, ShownTypes
  <2>2. Known(listed)' = Known(x.list)
    BY <1>2 DEF Known
  <2>. QED
    BY <1>2, <1>3, <1>4, <2>1, <2>2, SelectsKeepsTypes
<1>7. busy' \in BOOLEAN
  BY <1>2 DEF Inv, ClientTypes
<1>8. ClientTypes'
  BY <1>2, <1>5, <1>7 DEF Inv, ClientTypes
<1>. QED
  BY <1>2, <1>5, <1>6, <1>8, ClientStep DEF server

LEMMA ControlAnswersPreserves ==
  ASSUME Inv, NEW i \in DOMAIN answers, ControlAnswers(i) PROVE Inv'
<1> DEFINE x == answers[i]
           a == IF x.to = "create" THEN x.agent ELSE 0
<1>1. x \in AnswerRecords
  BY Present
<1>2. /\ Takes(i, <<Read("control", a, 0)>>)
      /\ UNCHANGED <<status, runs, access, listed, selected, messages, activeRun, busy,
                     polling, awaited, found, operations, faults>>
  BY DEF ControlAnswers, server, loops, counts
<1>3. a \in Agents \cup {0}
  BY <1>1 DEF AnswerRecords
<1>. HIDE DEF x, a
<1>4. Read("control", a, 0) \in Sound
  BY <1>3, ReadIsSound DEF Calls
<1>5. answers' \in Seq(Sound) /\ overtaken' \in BOOLEAN
  <2>1. <<Read("control", a, 0)>> \in Seq(Sound)
    BY <1>4
  <2>. QED
    BY <1>2, <2>1, TakesIsSound
<1>6. ShownTypes' /\ ClientTypes'
  BY <1>2, <1>5 DEF Inv, ShownTypes, ClientTypes, Owns, Known
<1>. QED
  BY <1>2, <1>5, <1>6, ClientStep DEF server

(* A run of a visit that is dropped says what it said.                      *)
LEMMA DroppedIs ==
  ASSUME Inv, NEW i \in DOMAIN answers
  PROVE  /\ Dropped(i) \in Seq(Sound) /\ Len(Dropped(i)) = Len(answers)
         /\ \A k \in DOMAIN answers :
              \/ Dropped(i)[k] = answers[k]
              \/ answers[k].to = "runs" /\ Dropped(i)[k] = [answers[k] EXCEPT !.ok = FALSE]
<1> DEFINE new == Dropped(i)
<1>1. DOMAIN answers = 1..Len(answers) /\ Len(answers) \in Nat
  BY DEF Inv
<1>2. ASSUME NEW k \in DOMAIN answers
      PROVE  /\ new[k] \in Sound
             /\ \/ new[k] = answers[k]
                \/ answers[k].to = "runs" /\ new[k] = [answers[k] EXCEPT !.ok = FALSE]
  <2>. PICK x \in Sound : x = answers[k]
    BY Present
  <2> DEFINE y == [x EXCEPT !.ok = FALSE]
  <2>1. new[k] = x \/ (x.to = "runs" /\ new[k] = y)
    BY DEF Dropped
  <2>2. x.to = "runs" => y \in Sound
    <3>1. x \in AnswerRecords
      BY DEF Sound
    <3>2. /\ y \in AnswerRecords /\ y.to = x.to /\ y.shown = x.shown /\ y.agent = x.agent
          /\ y.messages = x.messages /\ y.list = x.list
      BY <3>1 DEF AnswerRecords
    <3>3. "list" \notin Topics("runs")
      BY DEF Topics
    <3>. HIDE DEF y
    <3>. QED
      BY <3>2, <3>3 DEF Sound
  <2>. HIDE DEF y, new
  <2>3. new[k] \in Sound
    BY <2>1, <2>2
  <2>. QED
    BY <2>1, <2>3 DEF y
<1>3. DOMAIN new = 1..Len(answers) /\ new = [k \in 1..Len(answers) |-> new[k]]
  BY <1>1 DEF Dropped
<1>. HIDE DEF new
<1>4. new \in Seq(Sound) /\ Len(new) = Len(answers)
  BY <1>1, <1>2, <1>3
<1>. QED
  BY <1>2, <1>4 DEF new

(* A refused or lost answer takes away the run that is shown, or nothing.   *)
LEMMA FailsPreserves == ASSUME Inv, NEW i \in DOMAIN answers, Fails(i) PROVE Inv'
<1> DEFINE x == answers[i]
           polled == x.to \in {"run", "poll"}
           caught == x.to = "send" \/ (polled /\ x.run \in awaited)
           still == x.to \notin Operations \cup {"control"} /\ (x.to = "bootstrap" => access = "open")
           over == Overtakes(i, Topics(x.to))
           more == IF caught THEN <<Read("catch", 0, 0)>> ELSE <<>>
<1>1. /\ activeRun' = (IF caught THEN Nothing ELSE activeRun)
      /\ polling' = (IF polled THEN polling \ {x.run} ELSE polling)
      /\ awaited' = (IF polled THEN awaited \ {x.run} ELSE awaited)
      /\ busy' = (busy /\ still)
      /\ answers' = RemoveAt(Dropped(i), i) \o more
      /\ overtaken' = (overtaken \/ over)
      /\ UNCHANGED <<status, runs, access, listed, selected, messages, found, operations>>
  BY DEF Fails, server
<1>2. faults' \in 0..MaxFaults
  <2>1. faults' = faults \/ (faults < MaxFaults /\ faults' = faults + 1)
    BY DEF Fails
  <2>. QED
    BY <2>1, Bounds DEF Inv, ClientTypes
<1>3. more \in Seq(Sound)
  <2>1. Read("catch", 0, 0) \in Sound
    BY ReadIsSound DEF Calls
  <2>. QED
    BY <2>1
<1>. HIDE DEF x, polled, caught, still, over, more
<1>4. answers' \in Seq(Sound) /\ overtaken' \in BOOLEAN
  <2>1. i \in DOMAIN Dropped(i) /\ Dropped(i) \in Seq(Sound)
    BY DroppedIs DEF Inv
  <2>2. answers' \in Seq(Sound)
    BY <1>1, <1>3, <2>1, TakenType
  <2>3. overtaken' \in BOOLEAN
    BY <1>1 DEF Inv, ClientTypes
  <2>. QED
    BY <2>2, <2>3
<1>5. ShownTypes'
  <2>1. activeRun' \in ShownRuns /\ (activeRun'.id # 0 => activeRun' = activeRun)
    BY <1>1 DEF Inv, ShownTypes, Nothing, ShownRuns
  <2>. QED
    BY <1>1, <2>1 DEF Inv, ShownTypes, Owns, Known
<1>6. busy' \in BOOLEAN
  BY <1>1 DEF Inv, ClientTypes
<1>7. ClientTypes'
  BY <1>1, <1>2, <1>4, <1>6 DEF Inv, ClientTypes
<1>. QED
  BY <1>1, <1>4, <1>5, <1>7, ClientStep DEF server

(* An operation is counted, and nothing it asks for is lost or answered.    *)
LEMMA OperatesKeepsTypes ==
  ASSUME Inv, Operates, RunsStay,
         UNCHANGED <<access, polling, awaited, found, faults, overtaken>>,
         busy' \in BOOLEAN
  PROVE  ClientTypes'
<1>1. operations' \in 0..MaxOperations
  BY Bounds DEF Operates, Inv, ClientTypes
<1>2. polling' \subseteq DOMAIN runs' /\ found' \subseteq DOMAIN runs'
  BY DEF RunsStay, Inv, ClientTypes
<1>. QED
  BY <1>1, <1>2 DEF Inv, ClientTypes

LEMMA UnlockPreserves == ASSUME Inv, Unlock PROVE Inv'
<1>1. PICK ok \in BOOLEAN :
        /\ Operates /\ busy' = TRUE /\ answers' = Append(answers, Answer("bootstrap", 0, 0, ok))
        /\ UNCHANGED <<status, runs, access, listed, selected, messages, activeRun,
                       polling, awaited, found, faults, overtaken>>
  BY DEF Unlock, server, loops
<1>2. Answer("bootstrap", 0, 0, ok) \in Sound
  BY AnswerIsSound DEF Calls
<1>3. answers' \in Seq(Sound)
  BY <1>1, <1>2 DEF Inv
<1>4. RunsStay /\ busy' \in BOOLEAN
  BY <1>1 DEF RunsStay
<1>5. ShownTypes' /\ ClientTypes'
  BY <1>1, <1>4, ShownStands, OperatesKeepsTypes
<1>. QED
  BY <1>1, <1>3, <1>5, ClientStep DEF server

LEMMA ChoosePreserves == ASSUME Inv, NEW a \in Agents, Choose(a) PROVE Inv'
<1>1. /\ Operates /\ a \in Known(listed) /\ Selects(a) /\ answers' = answers \o Visit(a)
      /\ UNCHANGED <<status, runs, access, listed, messages, busy,
                     polling, awaited, found, faults, overtaken>>
  BY DEF Choose, server, loops
<1>2. answers' \in Seq(Sound)
  BY <1>1, VisitIsSound DEF Inv
<1>3. RunsStay /\ busy' \in BOOLEAN
  BY <1>1 DEF RunsStay, Inv, ClientTypes
<1>4. ClientTypes'
  BY <1>1, <1>3, OperatesKeepsTypes
<1>5. ShownTypes'
  <2>1. listed' \in Lists /\ Known(listed)' = Known(listed)
    BY <1>1 DEF Inv, ShownTypes, Known
  <2>2. messages' \subseteq (DOMAIN runs) \X Roles
    BY <1>1 DEF Inv, ShownTypes
  <2>. QED
    BY <1>1, <2>1, <2>2, SelectsKeepsTypes
<1>. QED
  BY <1>1, <1>2, <1>4, <1>5, ClientStep DEF server

(* sendMessage: a run of the selected Agent, unless it is refused.          *)
LEMMA SendPreserves == ASSUME Inv, Send PROVE Inv'
<1>1. /\ Operates /\ selected # 0
      /\ UNCHANGED <<access, listed, selected, messages, activeRun, busy,
                     polling, awaited, found, faults, overtaken>>
  BY DEF Send, server, loops
<1>2. selected \in Agents /\ selected \in Agents \cup {0}
  BY <1>1 DEF Inv, ShownTypes, Known
<1>3. CASE status[selected] # "ready"
  <2> DEFINE x == Answer("send", selected, 0, FALSE)
  <2>1. answers' = Append(answers, x) /\ UNCHANGED server
    BY <1>3 DEF Send
  <2>2. x \in Sound
    BY <1>2, AnswerIsSound DEF Calls
  <2>. HIDE DEF x
  <2>3. answers' \in Seq(Sound)
    BY <2>1, <2>2 DEF Inv
  <2>4. RunsStay /\ busy' \in BOOLEAN
    BY <1>1, <2>1 DEF RunsStay, server, Inv, ClientTypes
  <2>5. ShownTypes' /\ ClientTypes'
    BY <1>1, <2>4, ShownStands, OperatesKeepsTypes
  <2>. QED
    BY <2>1, <2>3, <2>5, ClientStep
<1>4. CASE status[selected] = "ready"
  <2> DEFINE base == Answer("send", selected, 0, FALSE)
             top == Answer("send", selected, 0, TRUE)
             run == [agent |-> selected, status |-> "running"]
  <2>1. PICK n \in Nat \ {0} : n = Len(runs) + 1
    BY DEF Inv, ServerTypes
  <2> DEFINE shown == [id |-> n, status |-> "running"]
             y == [top EXCEPT !.run = n, !.shown = shown]
  <2>2. /\ Len(runs) < MaxRuns /\ status' = [status EXCEPT ![selected] = "busy"]
        /\ runs' = Append(runs, run)
        /\ answers' = Append(answers, [top EXCEPT !.run = Len(runs'),
                                         !.shown = [id |-> Len(runs'), status |-> "running"]])
    BY <1>4 DEF Send
  <2>3. Len(runs) \in Nat /\ DOMAIN runs = 1..Len(runs) /\ runs \in Seq(RunRecords)
    BY DEF Inv, ServerTypes
  <2>4. run \in RunRecords
    BY <1>2 DEF RunRecords, RunStatuses
  <2>5. /\ runs' \in Seq(RunRecords) /\ Len(runs') = n /\ DOMAIN runs' = 1..n
        /\ runs'[n] = run /\ \A r \in DOMAIN runs : runs'[r] = runs[r]
    <3>. HIDE DEF run
    <3>. QED
      BY <2>1, <2>2, <2>3, <2>4
  <2>6. ServerTypes'
    BY <1>1, <1>2, <2>1, <2>2, <2>3, <2>5, Bounds DEF Inv, ServerTypes, Lists
  <2>7. RunsStay
    BY <2>1, <2>3, <2>5 DEF RunsStay
  <2>8. Owns(selected, n)'
    BY <1>1, <2>1, <2>5 DEF Owns
  <2>9. base \in Sound
    BY <1>2, AnswerIsSound DEF Calls
  <2>10. /\ top.to = "send" /\ top.agent = selected /\ top.messages = base.messages
         /\ top.list = base.list /\ top.shown = base.shown /\ top.run = base.run
         /\ base.to = "send"
    BY DEF Answer
  <2>11. top = [to |-> "send", agent |-> selected, run |-> base.run, ok |-> TRUE,
                list |-> base.list, messages |-> base.messages, shown |-> base.shown]
    BY DEF Answer
  <2>. HIDE DEF base, top
  <2>12. top \in AnswerRecords
    <3>1. /\ base.list \in Lists \cup {<<>>} /\ base.messages \in SUBSET (Nat \X Roles)
          /\ base.shown \in ShownRuns /\ base.run \in Nat
      BY <2>9 DEF Sound, AnswerRecords
    <3>2. "send" \in Calls /\ selected \in Agents \cup {0}
      BY <1>2 DEF Calls
    <3>. HIDE DEF run, shown, y
    <3>. QED
      BY <2>11, <3>1, <3>2 DEF AnswerRecords
  <2>13. PICK z \in AnswerRecords :
           /\ answers' = Append(answers, z)
           /\ z.to = "send" /\ z.agent = selected /\ z.run = n
           /\ z.shown.id = n /\ z.messages = base.messages /\ z.list = base.list
    <3>1. shown \in ShownRuns /\ shown.id = n
      BY <2>1 DEF ShownRuns, RunStatuses
    <3>2. answers' = Append(answers, y)
      BY <2>2, <2>5
    <3>. HIDE DEF shown
    <3>3. /\ y \in AnswerRecords /\ y.to = "send" /\ y.agent = selected /\ y.run = n
          /\ y.shown = shown /\ y.messages = base.messages /\ y.list = base.list
      BY <2>1, <2>10, <2>12, <3>1 DEF AnswerRecords
    <3>. HIDE DEF y
    <3>. QED
      BY <3>1, <3>2, <3>3
  <2>14. z \in Sound'
    <3>1. Owns(z.agent, z.run)' /\ Owns(z.agent, z.shown.id)'
      BY <2>8, <2>13, <1>1 DEF Owns
    <3>2. z.messages \subseteq (DOMAIN runs') \X Roles
      BY <2>7, <2>9, <2>13 DEF Sound, RunsStay
    <3>3. "list" \in Topics("send") /\ z.list \in Lists
      <4>1. "list" \in Topics("send")
        BY DEF Topics
      <4>. QED
        BY <2>9, <2>10, <2>13, <4>1 DEF Sound
    <3>. QED
      BY <2>13, <3>1, <3>2, <3>3 DEF Sound
  <2>15. answers' \in Seq(Sound)'
    <3>1. answers \in Seq(Sound')
      BY <2>7, SoundStands DEF Inv
    <3>. QED
      BY <2>13, <2>14, <3>1
  <2>16. busy' \in BOOLEAN
    BY <1>1 DEF Inv, ClientTypes
  <2>17. ShownTypes' /\ ClientTypes'
    BY <1>1, <2>7, <2>16, ShownStands, OperatesKeepsTypes
  <2>. QED
    BY <2>6, <2>15, <2>17 DEF Inv
<1>. QED
  BY <1>3, <1>4

LEMMA ControlPreserves ==
  ASSUME Inv, NEW a \in Agents, NEW what \in Operations, Control(what, a) PROVE Inv'
<1>1. PICK ok \in BOOLEAN : answers' = Append(answers, Answer(what, a, 0, ok))
  <2> DEFINE good == what = "create" \/ (a \in Known(status) /\ (what \in {"save", "start"} => status[a] # "busy"))
  <2>1. answers' = Append(answers, Answer(what, a, 0, good))
    BY DEF Control
  <2>2. good \in BOOLEAN
    OBVIOUS
  <2>. HIDE DEF good
  <2>. QED
    BY <2>1, <2>2
<1>2. /\ Operates /\ busy' = TRUE /\ status' \in Lists
      /\ runs' = runs \/ runs' = Ended(a, "cancelled")
      /\ UNCHANGED <<access, listed, selected, messages, activeRun,
                     polling, awaited, found, faults, overtaken>>
  BY DEF Control, loops, Inv, ServerTypes, Lists
<1>3. ServerTypes' /\ RunsStay
  BY <1>2, EndedRuns DEF Inv, ServerTypes, RunsStay
<1>4. answers' \in Seq(Sound)
  <2>1. Answer(what, a, 0, ok) \in Sound
    BY AnswerIsSound DEF Calls, Operations
  <2>. QED
    BY <1>1, <2>1 DEF Inv
<1>5. answers' \in Seq(Sound)'
  BY <1>3, <1>4, SoundStands
<1>6. busy' \in BOOLEAN
  BY <1>2
<1>7. ShownTypes' /\ ClientTypes'
  BY <1>2, <1>3, <1>6, ShownStands, OperatesKeepsTypes
<1>. QED
  BY <1>3, <1>5, <1>7 DEF Inv

LEMMA NextPreserves == Inv /\ [Next]_vars => Inv'
<1> SUFFICES ASSUME Inv, [Next]_vars PROVE Inv'
  OBVIOUS
<1>1. CASE UNCHANGED vars
  <2>1. UNCHANGED <<status, runs, access, listed, selected, messages, activeRun, busy,
                    polling, awaited, found, answers, operations, faults, overtaken>>
    BY <1>1 DEF vars, server, loops, counts
  <2>2. ShownTypes' /\ ClientTypes' /\ answers' \in Seq(Sound)
    BY <2>1 DEF Inv, ShownTypes, ClientTypes, Owns, Known
  <2>. QED
    BY <2>1, <2>2, ClientStep DEF server
<1>2. CASE Operation
  BY <1>2, UnlockPreserves, SendPreserves, ChoosePreserves, ControlPreserves DEF Operation
<1>3. ASSUME NEW i \in DOMAIN answers, Arrives(i) \/ RunsReadLater(i) \/ Fails(i) PROVE Inv'
  BY <1>3, RunsReadLaterPreserves, AuthAnswersPreserves, VisitAnswersPreserves, VisitShowsRunPreserves,
     PollAnswersPreserves, PollEndsPreserves, SendAnswersPreserves, ControlAnswersPreserves,
     ListArrivesPreserves, FailsPreserves DEF Arrives
<1>4. ASSUME NEW r \in 1..MaxRuns, PollAsks(r) PROVE Inv'
  BY <1>4, PollAsksPreserves
<1>5. ASSUME NEW a \in Agents, RunBegins(a) \/ RunEnds(a) PROVE Inv'
  BY <1>5, RunBeginsPreserves, RunEndsPreserves
<1>. QED
  BY <1>1, <1>2, <1>3, <1>4, <1>5 DEF Next, Arrival

(* The invariant is inductive.                                              *)
LEMMA Invariance == Spec => []Inv
  BY InitEstablishes, NextPreserves, PTL DEF Spec

(* The run that is shown is one of the selected Agent, an Agent is selected *)
(* only if it is listed, and an awaited poll is still going on, whatever    *)
(* was sent, selected or deleted in the meantime and however late the       *)
(* answers come (the guards on selectedIdRef in App.tsx).                   *)
THEOREM ClientTypeCorrect == Spec => []TypeOK
<1>1. Inv => TypeOK
  <2> SUFFICES ASSUME Inv PROVE TypeOK
    OBVIOUS
  <2>1. activeRun.id # 0 => runs[activeRun.id].agent = selected
    BY DEF Inv, ShownTypes, Owns
  <2>. QED
    BY <2>1 DEF Inv, ServerTypes, ShownTypes, ClientTypes, TypeOK, Lists, Roles
<1>. QED
  BY <1>1, Invariance, PTL
-----------------------------------------------------------------------------
(* What ViewSettles rests on, apart from fairness.  First: the buttons do   *)
(* not stay blocked.                                                        *)

(* The answer to an operation, to its list or to unlock.                    *)
Unblocks(x) == x.to \in Operations \cup {"control"} \/ (x.to = "bootstrap" /\ access = "locked")

BusyIsAnswered == busy => \E i \in DOMAIN answers : Unblocks(answers[i])

(* Before it is known whether a token is asked for, nothing else is.        *)
Opening == access = "unknown" => /\ ~busy /\ polling = {} /\ Len(answers) <= 1
                                 /\ \A i \in DOMAIN answers : answers[i].to = "auth"
Opened == access # "unknown" => \A i \in DOMAIN answers : answers[i].to # "auth"

Entering == Opening /\ Opened /\ BusyIsAnswered

LEMMA ConcatIs ==
  ASSUME NEW S, NEW s \in Seq(S), NEW more \in Seq(S)
  PROVE  /\ s \o more \in Seq(S) /\ Len(s \o more) = Len(s) + Len(more)
         /\ \A k \in 1..Len(s) + Len(more) :
              (s \o more)[k] = IF k <= Len(s) THEN s[k] ELSE more[k - Len(s)]
  OBVIOUS

(* What is left of the answers when one is taken.                           *)
Taken(s, i, more) == RemoveAt(s, i) \o more

LEMMA TakenIs ==
  ASSUME NEW s \in Seq(Sound), NEW i \in DOMAIN s, NEW more \in Seq(Sound),
         NEW t, t = Taken(s, i, more)
  PROVE  /\ t \in Seq(Sound) /\ Len(t) = Len(s) - 1 + Len(more)
         /\ \A k \in 1..Len(t) : t[k] = IF k < i THEN s[k] ELSE IF k < Len(s) THEN s[k + 1]
                                        ELSE more[k - Len(s) + 1]
<1> DEFINE front == SubSeq(s, 1, i - 1)
           back == SubSeq(s, i + 1, Len(s))
           rest == front \o back
<1>1. i \in 1..Len(s) /\ Len(s) \in Nat /\ Len(more) \in Nat
  OBVIOUS
<1>2. /\ front \in Seq(Sound) /\ Len(front) = i - 1
      /\ \A k \in 1..i - 1 : front[k] = s[k]
  BY <1>1
<1>3. /\ back \in Seq(Sound) /\ Len(back) = Len(s) - i
      /\ \A k \in 1..Len(s) - i : back[k] = s[k + i]
  BY <1>1
<1>4. t = rest \o more
  BY DEF Taken, RemoveAt
<1>. HIDE DEF front, back
<1>5. /\ rest \in Seq(Sound) /\ Len(rest) = Len(front) + Len(back)
      /\ \A k \in 1..Len(front) + Len(back) :
           rest[k] = IF k <= Len(front) THEN front[k] ELSE back[k - Len(front)]
  BY <1>2, <1>3, ConcatIs
<1>. HIDE DEF rest
<1>6. Len(rest) = Len(s) - 1
  BY <1>1, <1>2, <1>3, <1>5
<1>7. ASSUME NEW k \in 1..Len(s) - 1 PROVE rest[k] = IF k < i THEN s[k] ELSE s[k + 1]
  <2>1. rest[k] = IF k <= i - 1 THEN front[k] ELSE back[k - (i - 1)]
    <3>1. k \in 1..Len(front) + Len(back)
      BY <1>1, <1>2, <1>3
    <3>2. rest[k] = IF k <= Len(front) THEN front[k] ELSE back[k - Len(front)]
      BY <1>5, <3>1
    <3>. QED
      BY <1>2, <3>2
  <2>2. CASE k < i
    BY <1>1, <1>2, <2>1, <2>2
  <2>3. CASE ~(k < i)
    <3>1. k - (i - 1) \in 1..Len(s) - i /\ k - (i - 1) + i = k + 1
      BY <1>1, <2>3
    <3>2. back[k - (i - 1)] = s[k + 1]
      BY <1>3, <3>1
    <3>. QED
      BY <1>1, <2>1, <2>3, <3>2
  <2>. QED
    BY <2>2, <2>3
<1>8. /\ t \in Seq(Sound) /\ Len(t) = Len(rest) + Len(more)
      /\ \A k \in 1..Len(rest) + Len(more) :
           t[k] = IF k <= Len(rest) THEN rest[k] ELSE more[k - Len(rest)]
  <2>1. /\ rest \o more \in Seq(Sound) /\ Len(rest \o more) = Len(rest) + Len(more)
        /\ \A k \in 1..Len(rest) + Len(more) :
             (rest \o more)[k] = IF k <= Len(rest) THEN rest[k] ELSE more[k - Len(rest)]
    <3>1. rest \in Seq(Sound) /\ more \in Seq(Sound)
      BY <1>5
    <3>. QED
      BY <3>1, ConcatIs
  <2>. QED
    BY <1>4, <2>1
<1>9. ASSUME NEW k \in 1..Len(t)
      PROVE  t[k] = IF k < i THEN s[k] ELSE IF k < Len(s) THEN s[k + 1]
                    ELSE more[k - Len(s) + 1]
  <2>1. CASE k < Len(s)
    BY <1>1, <1>6, <1>7, <1>8, <2>1
  <2>2. CASE ~(k < Len(s))
    <3>1. ~(k < i) /\ ~(k <= Len(rest)) /\ k - Len(rest) = k - Len(s) + 1
      BY <1>1, <1>6, <1>8, <2>2
    <3>. QED
      BY <1>6, <1>8, <2>2, <3>1
  <2>. QED
    BY <2>1, <2>2
<1>. QED
  BY <1>6, <1>8, <1>9

(* The same, for a sequence as long as another.                             *)
LEMMA TakenAlike ==
  ASSUME NEW z \in Seq(Sound), NEW s \in Seq(Sound), Len(s) = Len(z),
         NEW i \in DOMAIN z, NEW more \in Seq(Sound), NEW t, t = Taken(s, i, more)
  PROVE  /\ t \in Seq(Sound) /\ Len(t) = Len(z) - 1 + Len(more)
         /\ \A k \in 1..Len(t) : t[k] = IF k < i THEN s[k] ELSE IF k < Len(z) THEN s[k + 1]
                                        ELSE more[k - Len(z) + 1]
<1>1. i \in DOMAIN s
  OBVIOUS
<1>2. t \in Seq(Sound) /\ Len(t) = Len(z) - 1 + Len(more)
  BY <1>1, TakenIs
<1>3. ASSUME NEW k \in 1..Len(t)
      PROVE  t[k] = IF k < i THEN s[k] ELSE IF k < Len(z) THEN s[k + 1]
                    ELSE more[k - Len(z) + 1]
  BY <1>1, <1>3, TakenIs
<1>. QED
  BY <1>2, <1>3

LEMMA TakenStay ==
  ASSUME NEW s \in Seq(Sound), NEW i \in DOMAIN s, NEW more \in Seq(Sound),
         NEW t, t = Taken(s, i, more)
  PROVE  /\ \A k \in DOMAIN s \ {i} : \E l \in DOMAIN t : t[l] = s[k]
         /\ \A m \in DOMAIN more : \E l \in DOMAIN t : t[l] = more[m]
         /\ \A l \in DOMAIN t : \/ \E k \in DOMAIN s \ {i} : t[l] = s[k]
                               \/ \E m \in DOMAIN more : t[l] = more[m]
<1>1. /\ t \in Seq(Sound) /\ Len(t) = Len(s) - 1 + Len(more)
      /\ \A k \in 1..Len(t) :
           t[k] = IF k < i THEN s[k] ELSE IF k < Len(s) THEN s[k + 1]
                         ELSE more[k - Len(s) + 1]
  BY TakenIs
<1>2. /\ DOMAIN s = 1..Len(s) /\ Len(s) \in Nat /\ DOMAIN more = 1..Len(more)
      /\ Len(more) \in Nat /\ DOMAIN t = 1..Len(t) /\ i \in 1..Len(s)
  BY <1>1
<1>3. ASSUME NEW k \in DOMAIN s \ {i}
      PROVE  \E l \in DOMAIN t : t[l] = s[k]
  <2>1. CASE k < i
    <3>1. k \in 1..Len(t)
      BY <1>1, <1>2, <2>1
    <3>2. t[k] = s[k]
      BY <1>1, <2>1, <3>1
    <3>. QED
      BY <1>2, <3>1, <3>2
  <2>2. CASE k > i
    <3>1. PICK l \in 1..Len(t) : l = k - 1
      BY <1>1, <1>2, <2>2
    <3>2. ~(l < i) /\ l < Len(s) /\ l + 1 = k
      BY <1>2, <2>2, <3>1
    <3>3. t[l] = s[k]
      BY <1>1, <3>2
    <3>. QED
      BY <1>2, <3>3
  <2>. QED
    BY <1>2, <2>1, <2>2
<1>4. ASSUME NEW m \in DOMAIN more PROVE \E l \in DOMAIN t : t[l] = more[m]
  <2>1. PICK l \in 1..Len(t) : l = m + Len(s) - 1
    BY <1>1, <1>2
  <2>2. ~(l < i) /\ ~(l < Len(s)) /\ l - Len(s) + 1 = m
    BY <1>2, <2>1
  <2>3. t[l] = more[l - Len(s) + 1]
    BY <1>1, <2>2
  <2>. QED
    BY <1>2, <2>2, <2>3
<1>5. ASSUME NEW l \in DOMAIN t
      PROVE  \/ \E k \in DOMAIN s \ {i} : t[l] = s[k]
             \/ \E m \in DOMAIN more : t[l] = more[m]
  <2>. l \in 1..Len(t)
    BY <1>2
  <2>1. CASE l < i
    <3>1. l \in DOMAIN s \ {i}
      BY <1>2, <2>1
    <3>2. t[l] = s[l]
      BY <1>1, <2>1
    <3>. QED
      BY <3>1, <3>2
  <2>2. CASE ~(l < i) /\ l < Len(s)
    <3>1. l + 1 \in DOMAIN s \ {i}
      BY <1>2, <2>2
    <3>2. t[l] = s[l + 1]
      BY <1>1, <2>2
    <3>. QED
      BY <3>1, <3>2
  <2>3. CASE ~(l < i) /\ ~(l < Len(s))
    <3>1. l - Len(s) + 1 \in DOMAIN more
      BY <1>1, <1>2, <2>3
    <3>2. t[l] = more[l - Len(s) + 1]
      BY <1>1, <2>3
    <3>. QED
      BY <3>1, <3>2
  <2>. QED
    BY <1>2, <2>1, <2>2, <2>3
<1>. QED
  BY <1>3, <1>4, <1>5

(* The answers that are left, and those that are asked for.                 *)
LEMMA OthersStay ==
  ASSUME Inv, NEW i \in DOMAIN answers, NEW more \in Seq(Sound), Takes(i, more)
  PROVE  /\ \A k \in DOMAIN answers \ {i} : \E l \in DOMAIN answers' : answers'[l] = answers[k]
         /\ \A m \in DOMAIN more : \E l \in DOMAIN answers' : answers'[l] = more[m]
         /\ \A l \in DOMAIN answers' : \/ \E k \in DOMAIN answers \ {i} : answers'[l] = answers[k]
                                       \/ \E m \in DOMAIN more : answers'[l] = more[m]
<1>1. answers \in Seq(Sound) /\ answers' = Taken(answers, i, more)
  BY DEF Inv, Takes, Taken
<1>. QED
  BY <1>1, TakenStay

(* A failing request drops another answer, but changes nothing else of it.  *)
LEMMA DroppedTo ==
  ASSUME Inv, NEW i \in DOMAIN answers, NEW k \in DOMAIN answers
  PROVE  /\ k \in DOMAIN Dropped(i)
         /\ Dropped(i)[k].to = answers[k].to /\ Dropped(i)[k].run = answers[k].run
         /\ Dropped(i)[k].shown = answers[k].shown /\ Dropped(i)[k].agent = answers[k].agent
         /\ answers[k].to # "runs" => Dropped(i)[k].ok = answers[k].ok
<1>1. \/ Dropped(i)[k] = answers[k]
      \/ answers[k].to = "runs" /\ Dropped(i)[k] = [answers[k] EXCEPT !.ok = FALSE]
  BY DroppedIs
<1>2. answers[k] \in AnswerRecords /\ k \in DOMAIN Dropped(i)
  BY Present DEF Dropped
<1>. HIDE DEF Dropped
<1>. QED
  BY <1>1, <1>2 DEF AnswerRecords

(* What follows when one fails.                                             *)
FailsAnd(i, more) == answers' = Taken(Dropped(i), i, more)

LEMMA OthersOfFailed ==
  ASSUME Inv, NEW i \in DOMAIN answers, NEW more \in Seq(Sound), FailsAnd(i, more)
  PROVE  /\ \A k \in DOMAIN answers \ {i} :
              \E l \in DOMAIN answers' : answers'[l].to = answers[k].to
         /\ \A l \in DOMAIN answers' :
              \/ \E k \in DOMAIN answers \ {i} :
                   answers'[l].to = answers[k].to /\ answers'[l].run = answers[k].run
              \/ \E m \in DOMAIN more : answers'[l] = more[m]
<1>. PICK s : s = Dropped(i)
  OBVIOUS
<1>1. s \in Seq(Sound) /\ DOMAIN s = DOMAIN answers /\ answers' = Taken(s, i, more)
  BY DroppedIs DEF FailsAnd, Dropped
<1>2. \A k \in DOMAIN answers : s[k].to = answers[k].to /\ s[k].run = answers[k].run
  BY DroppedTo
<1>3. /\ \A k \in DOMAIN s \ {i} : \E l \in DOMAIN answers' : answers'[l] = s[k]
      /\ \A l \in DOMAIN answers' : \/ \E k \in DOMAIN s \ {i} : answers'[l] = s[k]
                                    \/ \E m \in DOMAIN more : answers'[l] = more[m]
  BY <1>1, TakenStay
<1>4. ASSUME NEW k \in DOMAIN answers \ {i}
      PROVE  \E l \in DOMAIN answers' : answers'[l].to = answers[k].to
  <2>1. PICK l \in DOMAIN answers' : answers'[l] = s[k]
    BY <1>1, <1>3
  <2>. QED
    BY <1>2, <2>1
<1>5. ASSUME NEW l \in DOMAIN answers'
      PROVE  \/ \E k \in DOMAIN answers \ {i} :
                  answers'[l].to = answers[k].to /\ answers'[l].run = answers[k].run
             \/ \E m \in DOMAIN more : answers'[l] = more[m]
  <2>1. CASE \E k \in DOMAIN answers \ {i} : answers'[l] = s[k]
    BY <1>2, <2>1
  <2>. QED
    BY <1>1, <1>3, <2>1
<1>. QED
  BY <1>4, <1>5

(* An answer that is none of them is taken, or another request is made.     *)
LEMMA OtherAnswers ==
  ASSUME Inv, Entering, access # "unknown", access' = access, busy' = TRUE => busy = TRUE,
         NEW i \in DOMAIN answers, NEW more \in Seq(Sound), Takes(i, more) \/ FailsAnd(i, more),
         ~Unblocks(answers[i]) \/ busy' = FALSE \/ \E m \in DOMAIN more : Unblocks(more[m]),
         \A m \in DOMAIN more : more[m].to # "auth", busy' \in BOOLEAN
  PROVE  Entering'
<1>1. /\ \A k \in DOMAIN answers \ {i} :
           \E l \in DOMAIN answers' : answers'[l].to = answers[k].to
      /\ \A l \in DOMAIN answers' :
           \/ \E k \in DOMAIN answers \ {i} : answers'[l].to = answers[k].to
           \/ \E m \in DOMAIN more : answers'[l] = more[m]
  BY OthersStay, OthersOfFailed
<1>2. \A m \in DOMAIN more : \E l \in DOMAIN answers' : answers'[l] = more[m]
  <2>1. CASE Takes(i, more)
    BY <2>1, OthersStay
  <2>2. CASE FailsAnd(i, more)
    <3>1. /\ Dropped(i) \in Seq(Sound) /\ i \in DOMAIN Dropped(i)
          /\ answers' = Taken(Dropped(i), i, more)
      BY <2>2, DroppedIs DEF FailsAnd, Dropped
    <3>. QED
      BY <3>1, TakenStay
  <2>. QED
    BY <2>1, <2>2
<1>3. \A k \in DOMAIN answers' : answers'[k].to # "auth"
  BY <1>1 DEF Entering, Opened
<1>4. ASSUME busy' PROVE \E l \in DOMAIN answers' : Unblocks(answers'[l])
  <2>1. PICK k \in DOMAIN answers : Unblocks(answers[k])
    BY <1>4 DEF Entering, BusyIsAnswered
  <2>2. CASE k # i
    BY <1>1, <2>1, <2>2 DEF Unblocks
  <2>3. CASE k = i
    BY <1>2, <1>4, <2>1, <2>3
  <2>. QED
    BY <2>2, <2>3
<1>. QED
  BY <1>3, <1>4 DEF Entering, Opening, Opened, BusyIsAnswered, Unblocks

LEMMA OtherRequests ==
  ASSUME Inv, Entering, access # "unknown", access' = access,
         NEW more \in Seq(Sound), answers' = answers \o more,
         busy' \in BOOLEAN, busy' = busy \/ \E m \in DOMAIN more : Unblocks(more[m]),
         \A m \in DOMAIN more : more[m].to # "auth"
  PROVE  Entering'
<1>1. /\ DOMAIN answers = 1..Len(answers) /\ DOMAIN more = 1..Len(more)
      /\ DOMAIN answers' = 1..Len(answers) + Len(more)
      /\ Len(answers) \in Nat /\ Len(more) \in Nat
      /\ \A k \in 1..Len(answers) + Len(more) :
           answers'[k] = IF k <= Len(answers) THEN answers[k] ELSE more[k - Len(answers)]
  <2>1. answers \in Seq(Sound)
    BY DEF Inv
  <2>. QED
    BY <2>1
<1>2. \A k \in DOMAIN answers' : answers'[k].to # "auth"
  BY <1>1 DEF Entering, Opened
<1>3. \A k \in DOMAIN answers : k \in DOMAIN answers' /\ answers'[k] = answers[k]
  BY <1>1
<1>4. \A m \in DOMAIN more : \E l \in DOMAIN answers' : answers'[l] = more[m]
  <2> SUFFICES ASSUME NEW m \in DOMAIN more
               PROVE  \E l \in DOMAIN answers' : answers'[l] = more[m]
    OBVIOUS
  <2>1. PICK l \in DOMAIN answers' : l = m + Len(answers)
    BY <1>1
  <2>2. answers'[l] = more[m]
    BY <1>1, <2>1
  <2>. QED
    BY <2>2
<1>5. ASSUME busy' PROVE \E l \in DOMAIN answers' : Unblocks(answers'[l])
  BY <1>3, <1>4, <1>5 DEF Entering, BusyIsAnswered
<1>. QED
  BY <1>2, <1>5 DEF Entering, Opening, Opened, BusyIsAnswered, Unblocks

LEMMA AnswerTo ==
  ASSUME NEW to, NEW a, NEW r, NEW ok
  PROVE  Answer(to, a, r, ok).to = to /\ Read(to, a, r).to = to
  BY DEF Answer, Read

LEMMA OneMore ==
  ASSUME NEW x \in Sound
  PROVE  <<x>> \in Seq(Sound) /\ DOMAIN <<x>> = {1} /\ <<x>>[1] = x
  OBVIOUS

LEMMA NoMore == <<>> \in Seq(Sound) /\ DOMAIN <<>> = {}
  OBVIOUS

LEMMA TwoMore ==
  ASSUME NEW x \in Sound, NEW y \in Sound
  PROVE  /\ <<x, y>> \in Seq(Sound) /\ DOMAIN <<x, y>> = {1, 2}
         /\ <<x, y>>[1] = x /\ <<x, y>>[2] = y
  OBVIOUS

LEMMA VisitMore ==
  ASSUME Inv, NEW a \in Agents \cup {0}
  PROVE  /\ Visit(a) \in Seq(Sound)
         /\ \A m \in DOMAIN Visit(a) :
              /\ Visit(a)[m].to \in {"visit", "runs"}
              /\ Visit(a)[m] = Read(Visit(a)[m].to, a, NextVisit)
<1>. PICK v \in Nat : v = NextVisit
  BY VisitHasNumber
<1>. PICK x : x = Read("visit", a, v)
  OBVIOUS
<1>. PICK y : y = Read("runs", a, v)
  OBVIOUS
<1>1. x \in Sound /\ y \in Sound /\ x.to = "visit" /\ y.to = "runs"
  BY ReadIsSound, AnswerTo DEF Calls
<1>2. Visit(a) = <<>> \/ Visit(a) = <<x, y>>
  BY DEF Visit
<1>3. \A m \in DOMAIN Visit(a) : Visit(a)[m] = x \/ Visit(a)[m] = y
  BY <1>1, <1>2, TwoMore, NoMore
<1>. QED
  BY <1>1, <1>3, VisitIsSound

(* The screen that asks for a token, or for nothing.                        *)
LEMMA EnteringOpens ==
  ASSUME Inv, Entering, [Next]_vars, access = "unknown" PROVE Entering'
<1>1. /\ ~busy /\ polling = {} /\ Len(answers) <= 1 /\ Len(answers) \in Nat
      /\ DOMAIN answers = 1..Len(answers)
      /\ \A i \in DOMAIN answers : answers[i].to = "auth"
  BY DEF Entering, Opening, Inv
<1>2. ASSUME NEW i \in DOMAIN answers, NEW more \in Seq(Sound), Takes(i, more)
      PROVE  /\ Len(answers') = Len(more)
             /\ \A l \in DOMAIN answers' : \E m \in DOMAIN more : answers'[l] = more[m]
  <2>1. DOMAIN answers \ {i} = {} /\ Len(answers) = 1
    BY <1>1
  <2>2. answers' = Taken(answers, i, more) /\ answers \in Seq(Sound)
    BY <1>2 DEF Inv, Takes, Taken
  <2>3. Len(answers') = Len(answers) - 1 + Len(more)
    BY <2>2, TakenIs
  <2>4. \A l \in DOMAIN answers' : \E m \in DOMAIN more : answers'[l] = more[m]
    BY <1>2, <2>1, OthersStay
  <2>. QED
    BY <2>1, <2>3, <2>4
<1>3. ASSUME NEW i \in DOMAIN answers, AuthAnswers(i) PROVE Entering'
  <2>1. Read("bootstrap", 0, 0) \in Sound /\ Read("bootstrap", 0, 0).to = "bootstrap"
    BY AnswerTo, ReadIsSound DEF Calls
  <2>2. PICK more \in {<<>>, <<Read("bootstrap", 0, 0)>>} : Takes(i, more)
    BY <1>3 DEF AuthAnswers
  <2>3. more \in Seq(Sound) /\ \A m \in DOMAIN more : more[m].to = "bootstrap"
    BY <2>1, <2>2, OneMore, NoMore
  <2>4. \A l \in DOMAIN answers' : answers'[l].to # "auth"
    BY <1>2, <2>2, <2>3
  <2>5. access' # "unknown" /\ busy' = FALSE
    BY <1>1, <1>3 DEF AuthAnswers, Inv, ClientTypes
  <2>. QED
    BY <2>4, <2>5 DEF Entering, Opening, Opened, BusyIsAnswered
<1>4. ASSUME NEW i \in DOMAIN answers, Fails(i) PROVE Entering'
  <2>1. answers[i].to = "auth"
    BY <1>1
  <2>2. FailsAnd(i, <<>>) /\ polling' = polling /\ access' = access /\ busy' = FALSE
    BY <1>1, <1>4, <2>1 DEF Fails, FailsAnd, Taken
  <2>3. Len(answers') = 0 /\ DOMAIN answers' = {}
    <3>1. Dropped(i) \in Seq(Sound) /\ Len(Dropped(i)) = Len(answers) /\ i \in DOMAIN Dropped(i)
      BY DroppedIs DEF Dropped
    <3>2. PICK s : s = Dropped(i)
      OBVIOUS
    <3>3. PICK more : more = <<>>
      OBVIOUS
    <3>4. s \in Seq(Sound) /\ more \in Seq(Sound) /\ answers' = Taken(s, i, more)
      BY <2>2, <3>1, <3>2, <3>3, NoMore DEF FailsAnd
    <3>5. i \in DOMAIN s /\ Len(s) = Len(answers) /\ Len(more) = 0
      BY <3>1, <3>2, <3>3
    <3>6. answers' \in Seq(Sound) /\ Len(answers') = Len(s) - 1 + Len(more)
      BY <3>4, <3>5, TakenIs
    <3>7. answers' \in Seq(Sound) /\ Len(answers') \in Nat /\ Len(answers') <= 0
      BY <1>1, <3>5, <3>6
    <3>. QED
      BY <3>7
  <2>. QED
    BY <1>1, <2>2, <2>3 DEF Entering, Opening, Opened, BusyIsAnswered
<1>5. CASE UNCHANGED <<busy, polling, answers>> /\ access' = access
  BY <1>1, <1>5 DEF Entering, Opening, Opened, BusyIsAnswered
<1>6. ASSUME NEW i \in DOMAIN answers, Arrives(i) PROVE Entering'
  BY <1>1, <1>3, <1>4, <1>6 DEF Arrives, VisitAnswers, VisitShowsRun, PollAnswers, PollEnds,
     SendAnswers, ControlAnswers, ListArrives, Operations
<1>7. /\ ~Operation /\ \A r \in 1..MaxRuns : ~PollAsks(r)
      /\ \A i \in DOMAIN answers : ~RunsReadLater(i)
  BY <1>1 DEF Operation, Unlock, Send, Choose, Control, PollAsks, RunsReadLater
<1>8. ASSUME NEW a \in Agents, RunBegins(a) \/ RunEnds(a) PROVE Entering'
  BY <1>5, <1>8 DEF RunBegins, RunEnds
<1>9. CASE UNCHANGED vars
  BY <1>5, <1>9 DEF vars, loops
<1>. QED
  BY <1>4, <1>6, <1>7, <1>8, <1>9 DEF Next, Arrival

LEMMA AppendIs ==
  ASSUME Inv, NEW y, answers' = Append(answers, y)
  PROVE  /\ DOMAIN answers = 1..Len(answers) /\ Len(answers) \in Nat
         /\ DOMAIN answers' = 1..Len(answers) + 1 /\ answers'[Len(answers) + 1] = y
         /\ \A k \in DOMAIN answers : answers'[k] = answers[k]
<1> DEFINE S == Sound \cup {y}
<1>1. answers \in Seq(S) /\ y \in S
  BY DEF Inv
<1>. HIDE DEF S
<1>. QED
  BY <1>1

(* The answer of sendMessage that started a run.                           *)
Started(a, r) == [Answer("send", a, 0, TRUE) EXCEPT
                    !.run = r, !.shown = [id |-> r, status |-> "running"]]

LEMMA StartedSays ==
  ASSUME NEW a, NEW r
  PROVE  /\ Started(a, r).to = "send" /\ Started(a, r).run = r
         /\ Started(a, r).shown = [id |-> r, status |-> "running"]
  BY DEF Started, Answer

(* One more request.                                                        *)
Requests(y) == answers' = Append(answers, y)

LEMMA OneRequest ==
  ASSUME Inv, Entering, access # "unknown", access' = access, NEW y, Requests(y),
         busy' => busy \/ Unblocks(y), y.to # "auth"
  PROVE  Entering'
<1>1. /\ DOMAIN answers' = 1..Len(answers) + 1 /\ DOMAIN answers = 1..Len(answers)
      /\ answers'[Len(answers) + 1] = y /\ Len(answers) \in Nat
      /\ \A k \in DOMAIN answers : answers'[k] = answers[k]
  BY AppendIs DEF Requests
<1>2. /\ Len(answers) + 1 \in DOMAIN answers'
      /\ \A k \in DOMAIN answers : k \in DOMAIN answers'
      /\ \A l \in DOMAIN answers' : l \in DOMAIN answers \/ l = Len(answers) + 1
  BY <1>1
<1>3. \A l \in DOMAIN answers' : answers'[l].to # "auth"
  BY <1>1, <1>2 DEF Entering, Opened
<1>4. BusyIsAnswered'
  BY <1>1, <1>2 DEF Entering, BusyIsAnswered, Unblocks
<1>. QED
  BY <1>3, <1>4 DEF Entering, Opening, Opened

LEMMA EnteringStep == ASSUME Inv, Inv', Entering, [Next]_vars PROVE Entering'
<1>1. SUFFICES ASSUME access # "unknown" PROVE Entering'
  BY EnteringOpens
<1>2. busy \in BOOLEAN /\ busy' \in BOOLEAN /\ answers \in Seq(Sound)
  BY DEF Inv, ClientTypes
<1>3. CASE UNCHANGED <<access, busy, polling, answers>>
  BY <1>3 DEF Entering, Opening, Opened, BusyIsAnswered, Unblocks
<1>4. ASSUME NEW i \in DOMAIN answers, AuthAnswers(i) PROVE FALSE
  BY <1>1, <1>4 DEF AuthAnswers, Entering, Opened
<1>5. ASSUME NEW i \in DOMAIN answers, RunsReadLater(i) PROVE Entering'
  <2>. PICK y : y = Read("runs", answers[i].agent, answers[i].run)
    OBVIOUS
  <2>1. /\ answers' = Taken(answers, i, <<y>>) /\ answers[i].to = "runs"
        /\ access' = access /\ busy' = busy
    BY <1>5 DEF RunsReadLater, Taken
  <2>2. y \in Sound /\ y.to = "runs"
    BY <2>1, LaterIsSound, AnswerTo
  <2>3. PICK more \in Seq(Sound) : more = <<y>> /\ \A m \in DOMAIN more : more[m] = y
    BY <2>2, OneMore
  <2>4. /\ \A k \in DOMAIN answers \ {i} : \E l \in DOMAIN answers' : answers'[l] = answers[k]
        /\ \A l \in DOMAIN answers' : \/ \E k \in DOMAIN answers \ {i} : answers'[l] = answers[k]
                                      \/ answers'[l] = y
    <3>1. answers' = Taken(answers, i, more)
      BY <2>1, <2>3
    <3>2. \A l \in DOMAIN answers' : \/ \E k \in DOMAIN answers \ {i} : answers'[l] = answers[k]
                                     \/ \E m \in DOMAIN more : answers'[l] = more[m]
      BY <1>2, <3>1, TakenStay
    <3>3. \A k \in DOMAIN answers \ {i} : \E l \in DOMAIN answers' : answers'[l] = answers[k]
      BY <1>2, <3>1, TakenStay
    <3>. QED
      BY <2>3, <3>2, <3>3
  <2>5. ~Unblocks(answers[i])
    BY <2>1 DEF Unblocks, Operations
  <2>. QED
    BY <1>1, <2>1, <2>2, <2>4, <2>5 DEF Entering, Opening, Opened, BusyIsAnswered, Unblocks
<1>6. ASSUME NEW i \in DOMAIN answers, VisitAnswers(i) \/ VisitShowsRun(i) \/ SendAnswers(i)
      PROVE  Entering'
  <2>1. Takes(i, <<>>) /\ access' = access /\ busy' = busy /\ ~Unblocks(answers[i])
    BY <1>6 DEF VisitAnswers, VisitShowsRun, SendAnswers, Unblocks, Operations
  <2>. QED
    BY <1>1, <1>2, <2>1, NoMore, OtherAnswers
<1>7. ASSUME NEW i \in DOMAIN answers, PollAnswers(i) PROVE Entering'
  <2>1. Takes(i, LastRead(answers[i])) /\ access' = access /\ busy' = busy
        /\ ~Unblocks(answers[i]) /\ answers[i].to = "run" /\ answers[i].ok
    BY <1>7 DEF PollAnswers, Unblocks, Operations
  <2>2. Owns(answers[i].agent, answers[i].run)
    BY <2>1, Present DEF Sound
  <2>3. answers[i].run \in Nat \ {0} /\ answers[i].agent \in Agents
    BY <2>2, RunIsRecord DEF Inv, Owns
  <2> DEFINE y == Read("poll", answers[i].agent, answers[i].run)
  <2>4. y \in Sound /\ y.to = "poll"
    BY <2>2, <2>3, ReadIsSound, AnswerTo DEF Calls
  <2>5. LastRead(answers[i]) = <<>> \/ LastRead(answers[i]) = <<y>>
    BY DEF LastRead
  <2>. HIDE DEF y
  <2>6. /\ LastRead(answers[i]) \in Seq(Sound)
        /\ \A m \in DOMAIN LastRead(answers[i]) : LastRead(answers[i])[m].to # "auth"
    BY <2>4, <2>5, OneMore, NoMore
  <2>. QED
    BY <1>1, <1>2, <2>1, <2>6, OtherAnswers
<1>8. ASSUME NEW i \in DOMAIN answers, PollEnds(i) PROVE Entering'
  <2> DEFINE a == Kept(answers[i].list)
  <2>1. /\ Takes(i, Visit(a)) /\ access' = access /\ busy' = busy
        /\ ~Unblocks(answers[i]) /\ answers[i].to = "poll"
    BY <1>8 DEF PollEnds, Unblocks, Operations
  <2>2. answers[i].list \in Lists
    BY <2>1, Present DEF Sound, Topics
  <2>3. a \in Agents \cup {0}
    BY <2>2, KeptIsKnown DEF Known
  <2>. HIDE DEF a
  <2>4. Visit(a) \in Seq(Sound) /\ \A m \in DOMAIN Visit(a) : Visit(a)[m].to # "auth"
    BY <2>3, VisitMore
  <2>. QED
    BY <1>1, <1>2, <2>1, <2>4, OtherAnswers
<1>9. ASSUME NEW i \in DOMAIN answers, ControlAnswers(i) PROVE Entering'
  <2> DEFINE a == IF answers[i].to = "create" THEN answers[i].agent ELSE 0
  <2>1. Takes(i, <<Read("control", a, 0)>>) /\ access' = access /\ busy' = busy
    BY <1>9 DEF ControlAnswers
  <2>2. a \in Agents \cup {0}
    BY Present DEF AnswerRecords
  <2>. HIDE DEF a
  <2> DEFINE y == Read("control", a, 0)
  <2>3. y \in Sound /\ y.to = "control"
    BY <2>2, ReadIsSound, AnswerTo DEF Calls
  <2>4. Unblocks(y) /\ y.to # "auth"
    BY <2>3 DEF Unblocks
  <2>. HIDE DEF y
  <2>5. /\ <<y>> \in Seq(Sound) /\ \E m \in DOMAIN <<y>> : Unblocks(<<y>>[m])
        /\ \A m \in DOMAIN <<y>> : <<y>>[m].to # "auth"
    BY <2>3, <2>4, OneMore
  <2>6. Takes(i, <<y>>)
    BY <2>1 DEF y
  <2>. QED
    BY <1>1, <1>2, <2>1, <2>5, <2>6, OtherAnswers
<1>10. ASSUME NEW i \in DOMAIN answers, ListArrives(i) PROVE Entering'
  <2> DEFINE x == answers[i]
             next == IF x.agent = 0 THEN Kept(x.list) ELSE x.agent
  <2>1. /\ x.to \in {"bootstrap", "control", "catch"} /\ x.ok /\ Takes(i, Visit(next))
        /\ access' = (IF x.to = "bootstrap" THEN "open" ELSE access)
        /\ busy' = (busy /\ (x.to = "catch" \/ (x.to = "bootstrap" /\ access = "open")))
    BY <1>10 DEF ListArrives
  <2>2. x.list \in Lists
    BY <2>1, Present DEF Sound, Topics, Operations
  <2>3. next \in Agents \cup {0}
    BY <2>1, <2>2, Present, KeptIsKnown DEF Sound, Known, AnswerRecords
  <2>. HIDE DEF next
  <2>4. Visit(next) \in Seq(Sound) /\ \A m \in DOMAIN Visit(next) : Visit(next)[m].to # "auth"
    BY <2>3, VisitMore
  <2>5. CASE access' = access
    <3>1. ~Unblocks(x) \/ busy' = FALSE
      BY <2>1, <2>5 DEF Unblocks, Operations
    <3>2. busy' = TRUE => busy = TRUE
      BY <1>2, <2>1
    <3>. QED
      BY <1>1, <1>2, <2>1, <2>4, <2>5, <3>1, <3>2, OtherAnswers
  <2>6. CASE access' # access
    <3>1. ~busy' /\ access' = "open"
      BY <2>1, <2>6
    <3>2. \A l \in DOMAIN answers' : answers'[l].to # "auth"
      BY <1>1, <2>1, <2>4, OthersStay DEF Entering, Opened
    <3>. QED
      BY <3>1, <3>2 DEF Entering, Opening, Opened, BusyIsAnswered
  <2>. QED
    BY <2>5, <2>6
<1>11. ASSUME NEW i \in DOMAIN answers, Fails(i) PROVE Entering'
  <2> DEFINE x == answers[i]
  <2>1. PICK more \in {<<>>, <<Read("catch", 0, 0)>>} :
          /\ FailsAnd(i, more) /\ access' = access
          /\ busy' = (busy /\ x.to \notin Operations \cup {"control"}
                           /\ (x.to = "bootstrap" => access = "open"))
    BY <1>11 DEF Fails, FailsAnd, Taken
  <2>2. Read("catch", 0, 0) \in Sound /\ Read("catch", 0, 0).to = "catch"
    BY ReadIsSound, AnswerTo DEF Calls
  <2>. HIDE DEF x
  <2>3. more \in Seq(Sound) /\ \A m \in DOMAIN more : more[m].to # "auth"
    BY <2>1, <2>2, OneMore, NoMore
  <2>4. ~Unblocks(x) \/ busy' = FALSE
    BY <2>1 DEF Unblocks
  <2>5. busy' = TRUE => busy = TRUE
    BY <1>2, <2>1
  <2>. QED
    BY <1>1, <1>2, <2>1, <2>3, <2>4, <2>5, OtherAnswers DEF x
<1>12. ASSUME NEW r \in 1..MaxRuns, PollAsks(r) PROVE Entering'
  <2>. PICK y : y = Read("run", runs[r].agent, r)
    OBVIOUS
  <2>1. Requests(y) /\ access' = access /\ busy' = busy
    BY <1>12 DEF PollAsks, Requests
  <2>2. y.to # "auth"
    BY AnswerTo
  <2>. QED
    BY <1>1, <2>1, <2>2, OneRequest
<1>13. CASE Unlock
  <2>1. PICK ok : Requests(Answer("bootstrap", 0, 0, ok))
    BY <1>13 DEF Unlock, Requests
  <2>. PICK y : y = Answer("bootstrap", 0, 0, ok)
    OBVIOUS
  <2>2. Requests(y) /\ access = "locked" /\ access' = access
    BY <1>13, <2>1 DEF Unlock
  <2>3. y.to = "bootstrap"
    BY AnswerTo
  <2>4. Unblocks(y)
    BY <2>2, <2>3 DEF Unblocks
  <2>. QED
    BY <1>1, <2>2, <2>3, <2>4, OneRequest
<1>14. ASSUME NEW a \in Agents, Choose(a) PROVE Entering'
  <2>1. answers' = answers \o Visit(a) /\ access' = access /\ busy' = busy
    BY <1>14 DEF Choose
  <2>2. Visit(a) \in Seq(Sound) /\ \A m \in DOMAIN Visit(a) : Visit(a)[m].to # "auth"
    BY VisitMore
  <2>. QED
    BY <1>1, <1>2, <2>1, <2>2, OtherRequests
<1>15. CASE Send
  <2>1. PICK y : Requests(y) /\ y.to = "send"
    <3>1. CASE status[selected] = "ready"
      <4>. PICK y : y = Started(selected, Len(runs'))
        OBVIOUS
      <4>1. Requests(y)
        BY <1>15, <3>1 DEF Send, Requests, Started
      <4>2. y.to = "send"
        BY StartedSays
      <4>. QED
        BY <4>1, <4>2
    <3>2. CASE status[selected] # "ready"
      <4>. PICK y : y = Answer("send", selected, 0, FALSE)
        OBVIOUS
      <4>1. Requests(y)
        BY <1>15, <3>2 DEF Send, Requests
      <4>2. y.to = "send"
        BY AnswerTo
      <4>. QED
        BY <4>1, <4>2
    <3>. QED
      BY <3>1, <3>2
  <2>2. access' = access /\ busy' = busy
    BY <1>15 DEF Send
  <2>. QED
    BY <1>1, <2>1, <2>2, OneRequest
<1>16. ASSUME NEW a \in Agents, NEW what \in Operations, Control(what, a) PROVE Entering'
  <2>1. PICK ok : Requests(Answer(what, a, 0, ok))
    BY <1>16 DEF Control, Requests
  <2>. PICK y : y = Answer(what, a, 0, ok)
    OBVIOUS
  <2>2. y.to = what /\ Requests(y) /\ access' = access
    BY <1>16, <2>1, AnswerTo DEF Control
  <2>3. Unblocks(y) /\ y.to # "auth"
    BY <2>2 DEF Unblocks, Operations
  <2>. QED
    BY <1>1, <2>2, <2>3, OneRequest
<1>17. ASSUME NEW a \in Agents, RunBegins(a) \/ RunEnds(a) PROVE Entering'
  BY <1>3, <1>17 DEF RunBegins, RunEnds
<1>18. CASE UNCHANGED vars
  BY <1>3, <1>18 DEF vars, loops
<1>19. ASSUME NEW i \in DOMAIN answers, Arrives(i) PROVE Entering'
  BY <1>4, <1>6, <1>7, <1>8, <1>9, <1>10, <1>11, <1>19 DEF Arrives
<1>20. CASE Operation
  BY <1>13, <1>14, <1>15, <1>16, <1>20 DEF Operation
<1>. QED
  BY <1>5, <1>11, <1>12, <1>17, <1>18, <1>19, <1>20 DEF Next, Arrival

(* While a button is blocked, the answer that frees it is under way: that   *)
(* of the operation, the list that is read after it, or, on a locked        *)
(* screen, the first load that unlock asked for.  However the answers of    *)
(* the first load, of operations, polls and visits overtake each other or   *)
(* are lost, busy is never left behind.                                     *)
THEOREM ButtonsComeBack == Spec => []BusyIsAnswered
<1>1. Init => Entering
  <2> SUFFICES ASSUME Init PROVE Entering
    OBVIOUS
  <2>1. /\ access = "unknown" /\ ~busy /\ polling = {} /\ answers = <<Read("auth", 0, 0)>>
    BY DEF Init
  <2>2. Read("auth", 0, 0).to = "auth"
    BY AnswerTo
  <2>3. Len(answers) <= 1 /\ \A i \in DOMAIN answers : answers[i].to = "auth"
    BY <2>1, <2>2
  <2>. QED
    BY <2>1, <2>3 DEF Entering, Opening, Opened, BusyIsAnswered
<1>2. Inv /\ Inv' /\ Entering /\ [Next]_vars => Entering'
  BY EnteringStep
<1>3. Entering => BusyIsAnswered
  BY DEF Entering
<1>. QED
  BY <1>1, <1>2, <1>3, Invariance, PTL DEF Spec
-----------------------------------------------------------------------------
(* Second: a run that is shown as going on is polled.                       *)
RunIsPolled ==
    activeRun.status = "running" =>
        activeRun.id \in polling \/ faults > 0 \/ overtaken \/ status[selected] = "deleted"

Polled(x) == x.to \in {"run", "poll"}
Tells(x, r) == x.shown.id = r /\ x.shown.status = "running"

(* A run that is going on was going on at any time before.                  *)
Current(x) == x.shown.id \in DOMAIN runs /\ runs[x.shown.id].status = "running"
                => x.shown.status = "running"
Fresh(x) == x.shown.status = "running" =>
              x.shown.id \in DOMAIN runs /\ runs[x.shown.id].status = "running"

(* What an answer says, and what its loop knows of the run.                 *)
Honest(x) ==
    /\ Current(x)
    /\ x.to \notin {"runs", "send", "run"} => x.shown = Nothing
    /\ x.to = "run" \/ (x.to = "send" /\ x.ok) => x.shown.id = x.run
    /\ Polled(x) => /\ x.run \in polling /\ Owns(x.agent, x.run)
                    /\ x.ok \/ status[x.agent] = "deleted"
    /\ x.to = "poll" => runs[x.run].status # "running"

(* Answers are in the order in which they were made.                        *)
InOrder ==
    \A i, j \in DOMAIN answers :
        /\ i < j /\ answers[i].shown.id = answers[j].shown.id
        /\ answers[j].shown.status = "running"
        => answers[i].shown.status = "running"

(* A loop has one request under way.                                        *)
OneLoop ==
    \A i, j \in DOMAIN answers :
        /\ Polled(answers[i]) /\ Polled(answers[j])
        /\ answers[i].run = answers[j].run
        => i = j

(* An answer that still has a run going on when its loop has found it ended *)
(* was overtaken by that.                                                   *)
LateIsSeen ==
    \A i, j \in DOMAIN answers :
        /\ answers[j].to = "poll" /\ ~Polled(answers[i])
        /\ Tells(answers[i], answers[j].run)
        => overtaken

AllHonest == \A i \in DOMAIN answers : Honest(answers[i])
Queue == AllHonest /\ InOrder /\ OneLoop /\ LateIsSeen

Born == \A r \in DOMAIN runs : status[runs[r].agent] # "absent"

EndIsShown ==
    \A j \in DOMAIN answers :
        /\ answers[j].to = "poll" /\ activeRun.id = answers[j].run
        /\ activeRun.status = "running"
        => overtaken

Genuine == activeRun.status = "running" => activeRun.id # 0

Following == Queue /\ Born /\ EndIsShown /\ RunIsPolled /\ Genuine

(* What the server never takes back.                                        *)
ServerMoves ==
    /\ RunsStay
    /\ \A r \in DOMAIN runs : runs'[r].status = "running" => runs[r].status = "running"
    /\ \A a \in Agents : status[a] = "deleted" => status'[a] = "deleted"

LEMMA HonestStands ==
  ASSUME Inv, Inv', NEW x \in Sound, Honest(x), ServerMoves, Polled(x) => x.run \in polling'
  PROVE  Honest(x)'
<1>1. 0 \notin DOMAIN runs'
  BY DEF Inv, ServerTypes
<1>2. Current(x)'
  BY <1>1 DEF Honest, Current, ServerMoves, RunsStay, Sound, Owns, Nothing
<1>3. Polled(x) => x.agent \in Agents /\ Owns(x.agent, x.run)'
  <2>1. Polled(x) => Owns(x.agent, x.run) /\ x.run \in DOMAIN runs
    BY DEF Honest, Owns
  <2>2. Polled(x) => runs[x.run].agent \in Agents
    BY <2>1, RunIsRecord DEF Inv
  <2>. QED
    BY <2>1, <2>2, SoundStands DEF ServerMoves, Owns
<1>4. Polled(x) => x.ok \/ status'[x.agent] = "deleted"
  BY <1>3 DEF Honest, ServerMoves
<1>5. x.to = "poll" => runs'[x.run].status # "running"
  BY DEF Honest, Polled, Owns, ServerMoves
<1>. QED
  BY <1>2, <1>3, <1>4, <1>5 DEF Honest, Polled

(* Of two answers, what matters of the order and of the loops.              *)
Alike(x, z) == /\ x.shown = z.shown /\ x.run = z.run /\ (Polled(x) <=> Polled(z))
               /\ x.to = "poll" <=> z.to = "poll"

(* The answers follow the ones there were, in their order, but for those at *)
(* the end, which are new.                                                  *)
Continues(f, new) ==
    /\ \A k \in DOMAIN answers' \ new :
         f[k] \in DOMAIN answers /\ Alike(answers'[k], answers[f[k]])
    /\ \A k, l \in DOMAIN answers' \ new : k < l => f[k] < f[l]
    /\ \A k \in DOMAIN answers' \ new, n \in DOMAIN answers' \cap new : k < n

(* A new one is fresh, and fits the others.                                 *)
Fits(n) ==
    /\ answers'[n].shown.status = "running" =>
         answers'[n].shown.id \in DOMAIN runs' /\ runs'[answers'[n].shown.id].status = "running"
    /\ \A k \in DOMAIN answers' :
         /\ k # n /\ Polled(answers'[n]) /\ Polled(answers'[k]) =>
              answers'[k].run # answers'[n].run
         /\ answers'[n].to = "poll" /\ ~Polled(answers'[k])
            /\ Tells(answers'[k], answers'[n].run) => overtaken'

LEMMA QueueStep ==
  ASSUME Inv, Inv', Queue, overtaken => overtaken', AllHonest',
         NEW f, NEW N, Continues(f, N), \A n \in DOMAIN answers' \cap N : Fits(n)
  PROVE  Queue'
<1>. USE DEF Continues, Fits
<1>1. DOMAIN answers' = 1..Len(answers') /\ Len(answers') \in Nat /\ DOMAIN answers = 1..Len(answers)
      /\ Len(answers) \in Nat
  BY DEF Inv
<1>2. InOrder'
  <2> SUFFICES ASSUME NEW i \in DOMAIN answers', NEW j \in DOMAIN answers', i < j,
                      answers'[i].shown.id = answers'[j].shown.id,
                      answers'[j].shown.status = "running"
               PROVE  answers'[i].shown.status = "running"
    BY DEF InOrder
  <2>1. i \in N => j \in N
    BY <1>1
  <2>2. CASE j \in N
    BY <2>2 DEF AllHonest, Honest, Current
  <2>3. CASE j \notin N
    <3>1. /\ f[i] \in DOMAIN answers /\ f[j] \in DOMAIN answers /\ f[i] < f[j]
          /\ Alike(answers'[i], answers[f[i]]) /\ Alike(answers'[j], answers[f[j]])
      BY <2>1, <2>3
    <3>. QED
      BY <3>1 DEF Queue, InOrder, Alike
  <2>. QED
    BY <2>2, <2>3
<1>3. OneLoop'
  <2> SUFFICES ASSUME NEW i \in DOMAIN answers', NEW j \in DOMAIN answers',
                      Polled(answers'[i]), Polled(answers'[j]),
                      answers'[i].run = answers'[j].run
               PROVE  i = j
    BY DEF OneLoop, Polled
  <2>1. CASE i \notin N /\ j \notin N
    <3>1. /\ f[i] \in DOMAIN answers /\ f[j] \in DOMAIN answers
          /\ Alike(answers'[i], answers[f[i]]) /\ Alike(answers'[j], answers[f[j]])
      BY <2>1
    <3>2. /\ Polled(answers[f[i]]) /\ Polled(answers[f[j]])
          /\ answers[f[i]].run = answers[f[j]].run
      BY <3>1 DEF Alike
    <3>3. f[i] = f[j]
      BY <3>1, <3>2 DEF Queue, OneLoop
    <3>. QED
      BY <1>1, <2>1, <3>3
  <2>. QED
    BY <2>1
<1>4. LateIsSeen'
  <2> SUFFICES ASSUME NEW i \in DOMAIN answers', NEW j \in DOMAIN answers',
                      answers'[j].to = "poll", ~Polled(answers'[i]),
                      Tells(answers'[i], answers'[j].run)
               PROVE  overtaken'
    BY DEF LateIsSeen, Polled, Tells
  <2>1. CASE i \notin N /\ j \notin N
    <3>1. /\ f[i] \in DOMAIN answers /\ f[j] \in DOMAIN answers
          /\ Alike(answers'[i], answers[f[i]]) /\ Alike(answers'[j], answers[f[j]])
      BY <2>1
    <3>. QED
      BY <3>1 DEF Queue, LateIsSeen, Alike, Tells
  <2>2. CASE j \in N
    BY <2>2
  <2>3. CASE i \in N /\ j \notin N
    <3>1. runs'[answers'[j].run].status # "running"
      BY DEF AllHonest, Honest
    <3>. QED
      BY <2>3, <3>1 DEF Tells
  <2>. QED
    BY <2>1, <2>2, <2>3
<1>. QED
  BY <1>2, <1>3, <1>4 DEF Queue

LEMMA ServerStep ==
  ASSUME Inv, Inv', Born, [Next]_vars PROVE ServerMoves /\ Born'
<1>1. CASE UNCHANGED <<status, runs>>
  BY <1>1 DEF ServerMoves, RunsStay, Born
<1>2. ASSUME NEW a \in Agents, NEW ending \in {"completed", "failed", "cancelled"},
             runs' = runs \/ runs' = Ended(a, ending),
             \A b \in Agents : /\ status[b] = "deleted" => status'[b] = "deleted"
                               /\ status'[b] = "absent" => status[b] = "absent"
      PROVE  ServerMoves /\ Born'
  <2>1. /\ DOMAIN runs' = DOMAIN runs
        /\ \A r \in DOMAIN runs : runs'[r].agent = runs[r].agent
    BY <1>2, EndedRuns DEF Inv
  <2>2. \A r \in DOMAIN runs : runs'[r].status = "running" => runs[r].status = "running"
    <3> SUFFICES ASSUME NEW r \in DOMAIN runs, runs' = Ended(a, ending),
                        runs'[r].status = "running"
                 PROVE  runs[r].status = "running"
      BY <1>2
    <3>1. runs[r] \in RunRecords
      BY RunIsRecord DEF Inv
    <3>. QED
      BY <3>1 DEF Ended, RunRecords
  <2>3. \A r \in DOMAIN runs : runs[r].agent \in Agents
    BY RunIsRecord DEF Inv
  <2>. QED
    BY <1>2, <2>1, <2>2, <2>3 DEF ServerMoves, RunsStay, Born
<1>3. ASSUME NEW a \in Agents, RunEnds(a) PROVE ServerMoves /\ Born'
  <2>1. PICK ending \in {"completed", "failed"} : runs' = Ended(a, ending)
    BY <1>3 DEF RunEnds
  <2>2. status[a] = "busy" /\ status' = [status EXCEPT ![a] = "ready"]
    BY <1>3 DEF RunEnds
  <2>3. \A b \in Agents : /\ status[b] = "deleted" => status'[b] = "deleted"
                          /\ status'[b] = "absent" => status[b] = "absent"
    BY <2>2 DEF Inv, ServerTypes, Lists
  <2>. QED
    BY <1>2, <2>1, <2>3
<1>4. ASSUME NEW a \in Agents, NEW what \in Operations, Control(what, a)
      PROVE  ServerMoves /\ Born'
  <2>1. runs' = runs \/ runs' = Ended(a, "cancelled")
    BY <1>4 DEF Control
  <2>2. status' = status \/ /\ status' \in {[status EXCEPT ![a] = new] :
                                               new \in {"stopped", "deleted", "ready"}}
                            /\ what = "create" \/ a \in Known(status)
    BY <1>4 DEF Control
  <2>3. what = "create" => status[a] = "absent"
    BY <1>4 DEF Control
  <2>4. \A b \in Agents : /\ status[b] = "deleted" => status'[b] = "deleted"
                          /\ status'[b] = "absent" => status[b] = "absent"
    BY <2>2, <2>3 DEF Inv, ServerTypes, Lists, Known
  <2>. QED
    BY <1>2, <2>1, <2>4
(* A run is added for an Agent that was there.                              *)
<1>5. ASSUME NEW a \in Agents, status[a] = "ready", status' = [status EXCEPT ![a] = "busy"],
             runs' = Append(runs, [agent |-> a, status |-> "running"])
      PROVE  ServerMoves /\ Born'
  <2> DEFINE new == [agent |-> a, status |-> "running"]
  <2>1. runs \in Seq(RunRecords) /\ new \in RunRecords /\ new.agent = a /\ runs' = Append(runs, new)
    BY <1>5 DEF Inv, ServerTypes, RunRecords, RunStatuses
  <2>. HIDE DEF new
  <2>2. /\ DOMAIN runs = 1..Len(runs) /\ DOMAIN runs' = 1..Len(runs) + 1 /\ Len(runs) \in Nat
        /\ runs'[Len(runs) + 1] = new /\ \A r \in DOMAIN runs : runs'[r] = runs[r]
    BY <2>1
  <2>3. \A b \in Agents : /\ status[b] = "deleted" => status'[b] = "deleted"
                          /\ status'[b] = "absent" => status[b] = "absent"
    BY <1>5 DEF Inv, ServerTypes, Lists
  <2>4. \A r \in DOMAIN runs : runs[r].agent \in Agents
    BY RunIsRecord DEF Inv
  <2>5. Born'
    <3> SUFFICES ASSUME NEW r \in DOMAIN runs' PROVE status'[runs'[r].agent] # "absent"
      BY DEF Born
    <3>1. CASE r \in DOMAIN runs
      BY <2>2, <2>3, <2>4, <3>1 DEF Born
    <3>2. CASE r = Len(runs) + 1
      BY <1>5, <2>1, <2>2, <2>3, <3>2
    <3>. QED
      BY <2>2, <3>1, <3>2
  <2>. QED
    BY <2>2, <2>3, <2>5 DEF ServerMoves, RunsStay
<1>6. ASSUME NEW a \in Agents, RunBegins(a) PROVE ServerMoves /\ Born'
  BY <1>5, <1>6 DEF RunBegins
<1>7. CASE Send
  <2>1. selected \in Agents
    BY <1>7 DEF Send, Inv, ShownTypes, Known
  <2>2. CASE status[selected] # "ready"
    BY <1>1, <1>7, <2>2 DEF Send, server
  <2>3. CASE status[selected] = "ready"
    <3>1. /\ runs' = Append(runs, [agent |-> selected, status |-> "running"])
          /\ status' = [status EXCEPT ![selected] = "busy"]
      BY <1>7, <2>3 DEF Send
    <3>. QED
      BY <1>5, <2>1, <2>3, <3>1
  <2>. QED
    BY <2>2, <2>3
<1>8. CASE Unlock \/ \E a \in Agents : Choose(a)
  BY <1>1, <1>8 DEF Unlock, Choose, server
<1>9. ASSUME NEW i \in DOMAIN answers, Arrives(i) \/ Fails(i) \/ RunsReadLater(i)
      PROVE  ServerMoves /\ Born'
  BY <1>1, <1>9 DEF Arrives, AuthAnswers, VisitAnswers, VisitShowsRun, PollAnswers, PollEnds,
     SendAnswers, ControlAnswers, ListArrives, Fails, RunsReadLater, server
<1>10. CASE (\E r \in 1..MaxRuns : PollAsks(r)) \/ UNCHANGED vars
  BY <1>1, <1>10 DEF PollAsks, vars, server
<1>. QED
  BY <1>3, <1>4, <1>7, <1>8, <1>9, <1>10, <1>6 DEF Next, Operation, Arrival

(* What an answer that is made now can say of a run.                        *)
LEMMA AnswerSays ==
  ASSUME Inv, NEW to, NEW a \in Agents \cup {0}, NEW r \in Nat, to = "run" => r \in DOMAIN runs,
         NEW ok, NEW y, y = Answer(to, a, r, ok)
  PROVE  /\ y.to = to /\ y.agent = a /\ y.run = r /\ y.ok = ok
         /\ Current(y) /\ Fresh(y)
         /\ to \notin {"runs", "send", "run"} => y.shown = Nothing
         /\ to = "run" => y.shown.id = r
<1>1. y.to = to /\ y.agent = a /\ y.run = r /\ y.ok = ok
  BY DEF Answer
<1>2. /\ "run" \in Topics(to) => y.shown = IF to = "run" THEN Shown(r) ELSE LatestRun(a)
      /\ "run" \notin Topics(to) => y.shown = Nothing
  BY DEF Answer
<1>3. /\ to \notin {"runs", "send", "run"} => "run" \notin Topics(to)
      /\ to = "run" => "run" \in Topics(to)
  BY DEF Topics
<1>4. 0 \notin DOMAIN runs /\ Nothing.id = 0 /\ Nothing.status = "none"
  BY DEF Inv, ServerTypes, Nothing
<1>5. y.shown = Nothing \/ \E k \in DOMAIN runs : y.shown = Shown(k)
  <2>1. LatestRun(a) = Nothing \/ \E k \in DOMAIN runs : LatestRun(a) = Shown(k)
    <3>1. CASE RunsOf(a) = {}
      BY <3>1 DEF LatestRun
    <3>2. CASE RunsOf(a) # {}
      <4>1. RunsOf(a) \in SUBSET (1..Len(runs)) /\ Len(runs) \in Nat
        BY DEF RunsOf, Inv, ServerTypes
      <4>2. Max(RunsOf(a)) \in RunsOf(a)
        BY <3>2, <4>1, LargestIsIn
      <4>3. LatestRun(a) = Shown(Max(RunsOf(a)))
        BY <3>2 DEF LatestRun
      <4>. QED
        BY <4>2, <4>3 DEF RunsOf
    <3>. QED
      BY <3>1, <3>2
  <2>. QED
    BY <1>2, <2>1
<1>6. Current(y) /\ Fresh(y)
  <2>1. CASE y.shown = Nothing
    BY <1>4, <2>1 DEF Current, Fresh
  <2>2. ASSUME NEW k \in DOMAIN runs, y.shown = Shown(k) PROVE Current(y) /\ Fresh(y)
    <3>1. y.shown.id = k /\ y.shown.status = runs[k].status
      BY <2>2 DEF Shown
    <3>. QED
      BY <3>1 DEF Current, Fresh
  <2>. QED
    BY <1>5, <2>1, <2>2
<1>7. to = "run" => y.shown.id = r
  BY <1>2, <1>3 DEF Shown
<1>. QED
  BY <1>1, <1>2, <1>3, <1>6, <1>7

(* Of a run that the server has, and whose Agent was deleted if it is gone. *)
LEMMA ReadIsHonest ==
  ASSUME Inv, Born, NEW to \in Calls \ {"send"}, NEW a \in Agents \cup {0}, NEW r \in Nat,
         NEW y, y = Read(to, a, r),
         to \in {"run", "poll"} => r \in polling /\ Owns(a, r),
         to = "poll" => runs[r].status # "running"
  PROVE  Honest(y) /\ Fresh(y) /\ y.to = to /\ y.run = r
<1> DEFINE ok == a = 0 \/ a \in Known(status)
<1>1. y = Answer(to, a, r, ok)
  BY DEF Read
<1>. HIDE DEF ok
<1>2. /\ y.to = to /\ y.agent = a /\ y.run = r /\ y.ok = ok /\ Current(y) /\ Fresh(y)
      /\ to \notin {"runs", "send", "run"} => y.shown = Nothing
      /\ to = "run" => y.shown.id = r
  BY <1>1, AnswerSays DEF Owns
<1>3. to \in {"run", "poll"} => ok \/ status[a] = "deleted"
  <2>1. to \in {"run", "poll"} => a \in Agents /\ status[a] # "absent"
    <3>1. to \in {"run", "poll"} => r \in DOMAIN runs /\ runs[r].agent = a
      BY DEF Owns
    <3>. QED
      BY <3>1, RunIsRecord DEF Inv, Born
  <2>. QED
    BY <2>1 DEF ok, Known
<1>. QED
  BY <1>2, <1>3 DEF Honest, Polled

(* The answers are honest after a step if what they were before, or are     *)
(* made by it, is.                                                          *)
LEMMA AllHonestStep ==
  ASSUME Inv, Inv', ServerMoves,
         \A l \in DOMAIN answers' : \E x : /\ x = answers'[l]
                                           /\ \/ /\ x \in Sound /\ Honest(x)
                                                 /\ Polled(x) => x.run \in polling'
                                              \/ Honest(x)'
  PROVE  AllHonest'
<1> SUFFICES ASSUME NEW l \in DOMAIN answers' PROVE Honest(answers[l])'
  BY DEF AllHonest
<1>1. PICK x : /\ x = answers'[l]
               /\ \/ /\ x \in Sound /\ Honest(x)
                     /\ Polled(x) => x.run \in polling'
                  \/ Honest(x)'
  OBVIOUS
<1>2. Honest(x)'
  BY <1>1, HonestStands
<1>. QED
  BY <1>1, <1>2 DEF Honest, Current, Polled, Owns

(* The answers stay as they are.                                            *)
LEMMA SameQueue ==
  ASSUME Inv, Inv', Queue, ServerMoves, answers' = answers, polling \subseteq polling',
         overtaken => overtaken'
  PROVE  Queue'
<1>1. AllHonest'
  BY Present, AllHonestStep DEF Queue, AllHonest, Honest
<1>. QED
  BY <1>1 DEF Queue, InOrder, OneLoop, LateIsSeen

(* One more request.                                                        *)
LEMMA AppendQueue ==
  ASSUME Inv, Inv', Queue, ServerMoves, NEW y, Requests(y),
         polling \subseteq polling', overtaken => overtaken', Honest(y)', Fresh(y)',
         Polled(y) => \A k \in DOMAIN answers : ~(Polled(answers[k]) /\ answers[k].run = y.run),
         y.to # "poll"
  PROVE  Queue'
<1>1. /\ DOMAIN answers = 1..Len(answers) /\ Len(answers) \in Nat
      /\ DOMAIN answers' = 1..Len(answers) + 1 /\ answers'[Len(answers) + 1] = y
      /\ \A k \in DOMAIN answers : answers'[k] = answers[k]
  BY AppendIs DEF Requests
<1>2. Len(answers') = Len(answers) + 1
  BY <1>1 DEF Inv
<1>3. AllHonest'
  <2>1. \A k \in DOMAIN answers : /\ answers[k] \in Sound /\ Honest(answers[k])
                                  /\ Polled(answers[k]) => answers[k].run \in polling'
    BY Present DEF Queue, AllHonest, Honest
  <2>. QED
    BY <1>1, <2>1, AllHonestStep
<1> DEFINE f == [k \in DOMAIN answers |-> k]
           n == Len(answers) + 1
<1>4. \A k \in DOMAIN answers' \ {n} : k \in DOMAIN answers /\ f[k] = k
  BY <1>1
<1>5. \A k \in DOMAIN answers' \ {n} :
        f[k] \in DOMAIN answers /\ Alike(answers'[k], answers[f[k]])
  BY <1>1, <1>4 DEF Alike
<1>6. n \in DOMAIN answers' => Fits(n)
  BY <1>1 DEF Fresh, Fits
<1>7. \A k, l \in DOMAIN answers' \ {n} : k < l => f[k] < f[l]
  BY <1>4
<1>8. \A k \in DOMAIN answers' \ {n}, m \in DOMAIN answers' \cap {n} : k < m
  BY <1>1
<1>. HIDE DEF f, n
<1>9. Continues(f, {n})
  BY <1>5, <1>7, <1>8 DEF Continues
<1>10. \A m \in DOMAIN answers' \cap {n} : Fits(m)
  BY <1>6
<1>. QED
  BY <1>3, <1>9, <1>10, QueueStep

(* Requests are made that say nothing that matters of a loop.               *)
LEMMA ConcatQueue ==
  ASSUME Inv, Inv', Queue, ServerMoves, NEW more \in Seq(Sound), answers' = answers \o more,
         polling \subseteq polling', overtaken => overtaken',
         \A m \in DOMAIN more : Honest(more[m])' /\ Fresh(more[m])' /\ ~Polled(more[m])
  PROVE  Queue'
<1>1. /\ DOMAIN answers = 1..Len(answers) /\ Len(answers) \in Nat /\ answers \in Seq(Sound)
      /\ DOMAIN more = 1..Len(more) /\ Len(more) \in Nat
  BY DEF Inv
<1>2. /\ answers' \in Seq(Sound) /\ Len(answers') = Len(answers) + Len(more)
      /\ \A k \in 1..Len(answers) + Len(more) :
           answers'[k] = IF k <= Len(answers) THEN answers[k] ELSE more[k - Len(answers)]
  BY <1>1, ConcatIs
<1>3. DOMAIN answers' = 1..Len(answers) + Len(more)
  BY <1>2
<1> DEFINE f == [k \in Nat |-> k]
           N == Len(answers) + 1..Len(answers) + Len(more)
<1>4. ASSUME NEW k \in DOMAIN answers' \ N
      PROVE  k \in DOMAIN answers /\ f[k] = k /\ answers'[k] = answers[k]
  BY <1>1, <1>2, <1>3
<1>5. ASSUME NEW n \in DOMAIN answers' \cap N
      PROVE  \E m \in DOMAIN more : answers'[n] = more[m]
  <2>1. n - Len(answers) \in DOMAIN more
    BY <1>1
  <2>2. answers'[n] = more[n - Len(answers)]
    BY <1>1, <1>2
  <2>. QED
    BY <2>1, <2>2
<1>6. \A k \in DOMAIN answers' \ N, n \in DOMAIN answers' \cap N : k < n
  BY <1>1, <1>3
<1>. HIDE DEF f, N
<1>7. AllHonest'
  <2>1. \A k \in DOMAIN answers : /\ answers[k] \in Sound /\ Honest(answers[k])
                                  /\ Polled(answers[k]) => answers[k].run \in polling'
    BY Present DEF Queue, AllHonest, Honest
  <2>. QED
    BY <1>4, <1>5, <2>1, AllHonestStep
<1>8. \A k \in DOMAIN answers' \ N :
        f[k] \in DOMAIN answers /\ Alike(answers'[k], answers[f[k]])
  BY <1>4 DEF Alike
<1>9. \A k, l \in DOMAIN answers' \ N : k < l => f[k] < f[l]
  BY <1>4
<1>10. ASSUME NEW n \in DOMAIN answers' \cap N
       PROVE  Fits(n)
  <2>1. /\ ~Polled(answers'[n])
        /\ answers'[n].shown.status = "running" =>
             answers'[n].shown.id \in DOMAIN runs' /\ runs'[answers'[n].shown.id].status = "running"
    BY <1>5 DEF Fresh
  <2>. QED
    BY <2>1 DEF Fits, Polled
<1>11. Continues(f, N)
  BY <1>6, <1>8, <1>9 DEF Continues
<1>. QED
  BY <1>7, <1>10, <1>11, QueueStep

(* An answer is taken, and requests are made: one, or such as say nothing   *)
(* that matters of a loop.                                                  *)
LEMMA TakenQueue ==
  ASSUME Inv, Inv', Queue, ServerMoves, NEW i \in DOMAIN answers, overtaken => overtaken',
         NEW s \in Seq(Sound), Len(s) = Len(answers),
         \A k \in DOMAIN answers : Alike(s[k], answers[k]) /\ Honest(s[k]),
         \A k \in DOMAIN answers \ {i} : Polled(answers[k]) => answers[k].run \in polling',
         NEW more \in Seq(Sound), answers' = Taken(s, i, more),
         \A m \in DOMAIN more :
            /\ Honest(more[m])' /\ Fresh(more[m])'
            /\ Polled(more[m]) =>
                 /\ Len(more) = 1
                 /\ \A k \in DOMAIN answers \ {i} :
                      ~(Polled(answers[k]) /\ answers[k].run = more[m].run)
            /\ more[m].to = "poll" =>
                 \A k \in DOMAIN answers \ {i} :
                    ~Polled(answers[k]) /\ Tells(answers[k], more[m].run) => overtaken'
  PROVE  Queue'
<1>1. /\ DOMAIN answers = 1..Len(answers) /\ Len(answers) \in Nat /\ i \in 1..Len(answers)
      /\ DOMAIN s = 1..Len(answers) /\ DOMAIN more = 1..Len(more) /\ Len(more) \in Nat
  BY DEF Inv
<1>2. /\ answers' \in Seq(Sound) /\ Len(answers') = Len(answers) - 1 + Len(more)
      /\ \A k \in 1..Len(answers') :
           answers'[k] = IF k < i THEN s[k] ELSE IF k < Len(answers) THEN s[k + 1]
                         ELSE more[k - Len(answers) + 1]
  <2>1. answers \in Seq(Sound)
    BY DEF Inv
  <2>. QED
    BY <2>1, TakenAlike
<1>3. DOMAIN answers' = 1..Len(answers')
  BY <1>2
<1> DEFINE f == [k \in Nat |-> IF k < i THEN k ELSE k + 1]
           N == Len(answers)..Len(answers')
<1>4. ASSUME NEW k \in DOMAIN answers' \ N
      PROVE  f[k] \in DOMAIN answers \ {i} /\ answers'[k] = s[f[k]]
  <2>1. k < Len(answers) /\ k \in Nat /\ k \in 1..Len(answers')
    BY <1>1, <1>2, <1>3, <1>4
  <2>2. CASE k < i
    BY <1>1, <1>2, <2>1, <2>2
  <2>3. CASE ~(k < i)
    BY <1>1, <1>2, <2>1, <2>3
  <2>. QED
    BY <2>2, <2>3
<1>5. ASSUME NEW n \in DOMAIN answers' \cap N
      PROVE  /\ \E m \in DOMAIN more : answers'[n] = more[m]
             /\ Len(more) = 1 => \A k \in DOMAIN answers' : k # n => k \notin N
  <2>1. n \in Nat /\ n >= Len(answers) /\ n <= Len(answers) - 1 + Len(more)
    BY <1>1, <1>2, <1>3
  <2>2. n - Len(answers) + 1 \in DOMAIN more
    BY <1>1, <2>1
  <2>3. answers'[n] = more[n - Len(answers) + 1]
    <3>1. ~(n < i) /\ ~(n < Len(answers)) /\ n \in 1..Len(answers')
      BY <1>1, <1>3, <2>1
    <3>. QED
      BY <1>2, <3>1
  <2>4. Len(more) = 1 => \A k \in DOMAIN answers' : k # n => k \notin N
    BY <1>1, <1>2, <2>1
  <2>. QED
    BY <2>2, <2>3, <2>4
<1>6. ASSUME NEW k \in DOMAIN answers' \ N, NEW l \in DOMAIN answers' \ N, k < l
      PROVE  f[k] < f[l]
  <2>1. k \in Nat /\ l \in Nat /\ i \in Nat
    BY <1>1, <1>3
  <2>2. f[k] = (IF k < i THEN k ELSE k + 1) /\ f[l] = (IF l < i THEN l ELSE l + 1)
    BY <2>1
  <2>. HIDE DEF f
  <2>. QED
    BY <1>6, <2>1, <2>2
<1>7. \A k \in DOMAIN answers' \ N, n \in DOMAIN answers' \cap N : k < n
  BY <1>1, <1>2, <1>3
<1>. HIDE DEF f, N
<1>8. \A k \in DOMAIN answers' \ N :
        f[k] \in DOMAIN answers /\ Alike(answers'[k], answers[f[k]])
  BY <1>4
<1>9. AllHonest'
  <2>1. \A k \in DOMAIN answers \ {i} : /\ s[k] \in Sound /\ Honest(s[k])
                                        /\ Polled(s[k]) => s[k].run \in polling'
    BY <1>1 DEF Alike
  <2>. QED
    BY <1>4, <1>5, <2>1, AllHonestStep
<1>10. ASSUME NEW n \in DOMAIN answers' \cap N PROVE Fits(n)
  <2>. PICK m \in DOMAIN more : answers'[n] = more[m]
    BY <1>5
  <2>. PICK y : y = more[m]
    OBVIOUS
  <2>1. y.shown.status = "running" =>
          y.shown.id \in DOMAIN runs' /\ runs'[y.shown.id].status = "running"
    BY DEF Fresh
  <2>2. ASSUME NEW k \in DOMAIN answers', k # n, Polled(y)
        PROVE  \E j \in DOMAIN answers \ {i} : Alike(answers'[k], answers[j])
    <3>1. k \notin N
      BY <1>5, <2>2
    <3>. QED
      BY <1>4, <3>1
  <2>3. ASSUME NEW k \in DOMAIN answers', k # n, Polled(y), Polled(answers'[k])
        PROVE  answers'[k].run # y.run
    BY <2>2, <2>3 DEF Alike
  <2>4. ASSUME NEW k \in DOMAIN answers', y.to = "poll", ~Polled(answers'[k]),
               Tells(answers'[k], y.run)
        PROVE  overtaken'
    <3>1. Polled(y) /\ k # n
      BY <2>4 DEF Polled
    <3>. QED
      BY <2>2, <2>4, <3>1 DEF Alike, Tells
  <2>. QED
    BY <2>1, <2>3, <2>4 DEF Fits
<1>11. Continues(f, N)
  BY <1>6, <1>7, <1>8 DEF Continues
<1>. QED
  BY <1>9, <1>10, <1>11, QueueStep

(* The answers of which one is taken or fails.                              *)
LEMMA TakenFrom ==
  ASSUME Inv, Queue, NEW i \in DOMAIN answers, NEW more,
         Takes(i, more) \/ FailsAnd(i, more)
  PROVE  \E s \in Seq(Sound) :
            /\ Len(s) = Len(answers) /\ answers' = Taken(s, i, more)
            /\ \A k \in DOMAIN answers : Alike(s[k], answers[k]) /\ Honest(s[k])
<1>1. CASE Takes(i, more)
  BY <1>1 DEF Takes, Taken, Inv, Queue, AllHonest, Alike
<1>2. CASE FailsAnd(i, more)
  <2>. PICK s : s = Dropped(i)
    OBVIOUS
  <2>1. s \in Seq(Sound) /\ Len(s) = Len(answers) /\ answers' = Taken(s, i, more)
    BY <1>2, DroppedIs DEF FailsAnd
  <2>2. ASSUME NEW k \in DOMAIN answers PROVE Alike(s[k], answers[k]) /\ Honest(s[k])
    <3>1. /\ s[k].to = answers[k].to /\ s[k].run = answers[k].run
          /\ s[k].shown = answers[k].shown /\ s[k].agent = answers[k].agent
          /\ answers[k].to # "runs" => s[k].ok = answers[k].ok
      BY DroppedTo
    <3>2. Honest(answers[k])
      BY DEF Queue, AllHonest
    <3>3. s[k].to = "runs" => ~Polled(s[k]) /\ s[k].to # "send"
      BY DEF Polled
    <3>4. Alike(s[k], answers[k]) /\ (Polled(s[k]) <=> Polled(answers[k]))
      BY <3>1 DEF Alike, Polled
    <3>5. Current(s[k])
      BY <3>1, <3>2 DEF Honest, Current
    <3>. QED
      BY <3>1, <3>2, <3>3, <3>4, <3>5 DEF Honest
  <2>. QED
    BY <2>1, <2>2
<1>. QED
  BY <1>1, <1>2

(* One is taken, and at most one request is made.                           *)
LEMMA TakesQueue ==
  ASSUME Inv, Inv', Queue, ServerMoves, NEW i \in DOMAIN answers,
         \A k \in DOMAIN answers \ {i} : Polled(answers[k]) => answers[k].run \in polling',
         NEW y, NEW more \in Seq(Sound), more = <<>> \/ more = <<y>>, Takes(i, more),
         Honest(y)', Fresh(y)',
         Polled(y) => \A k \in DOMAIN answers \ {i} :
                         ~(Polled(answers[k]) /\ answers[k].run = y.run),
         y.to = "poll" => \A k \in DOMAIN answers \ {i} :
                             ~Polled(answers[k]) /\ Tells(answers[k], y.run) => overtaken'
  PROVE  Queue'
<1>1. PICK s \in Seq(Sound) :
         /\ Len(s) = Len(answers) /\ answers' = Taken(s, i, more)
         /\ \A k \in DOMAIN answers : Alike(s[k], answers[k]) /\ Honest(s[k])
  BY TakenFrom
<1>2. overtaken => overtaken'
  BY DEF Takes
<1>3. \A m \in DOMAIN more : more[m] = y /\ Len(more) = 1
  OBVIOUS
<1>. QED
  BY <1>1, <1>2, <1>3, TakenQueue

(* A request that says nothing of a loop.                                   *)
Asks(x) == \E to \in Calls \ {"send", "run", "poll"}, a \in Agents \cup {0}, r \in Nat :
              x = Read(to, a, r)

LEMMA AsksIsHonest ==
  ASSUME Inv, Born, NEW x, Asks(x) PROVE Honest(x) /\ Fresh(x) /\ ~Polled(x)
<1>1. PICK to \in Calls \ {"send", "run", "poll"}, a \in Agents \cup {0}, r \in Nat :
         x = Read(to, a, r)
  BY DEF Asks
<1>2. Honest(x) /\ Fresh(x) /\ x.to = to
  BY <1>1, ReadIsHonest
<1>. QED
  BY <1>2 DEF Polled

LEMMA VisitAsks ==
  ASSUME Inv, NEW a \in Agents \cup {0}
  PROVE  Visit(a) \in Seq(Sound) /\ \A m \in DOMAIN Visit(a) : Asks(Visit(a)[m])
<1>1. NextVisit \in Nat /\ {"visit", "runs"} \subseteq Calls \ {"send", "run", "poll"}
  BY VisitHasNumber DEF Calls
<1>2. PICK s : s = Visit(a)
  OBVIOUS
<1>3. PICK n : n = NextVisit
  OBVIOUS
<1>4. \A m \in DOMAIN s : s[m].to \in {"visit", "runs"} /\ s[m] = Read(s[m].to, a, n)
  BY <1>2, <1>3, VisitMore
<1>5. ASSUME NEW m \in DOMAIN s PROVE Asks(s[m])
  <2>1. PICK x : x = s[m]
    OBVIOUS
  <2>2. x.to \in Calls \ {"send", "run", "poll"} /\ x = Read(x.to, a, n) /\ n \in Nat
    BY <1>1, <1>3, <1>4, <1>5, <2>1
  <2>3. Asks(x)
    BY <2>2 DEF Asks
  <2>. QED
    BY <2>1, <2>3
<1>. QED
  BY <1>2, <1>5, VisitMore

(* What is left when one is taken or fails, and only such requests are made.*)
LEMMA AskedQueue ==
  ASSUME Inv, Inv', Queue, Born, ServerMoves, UNCHANGED server, NEW i \in DOMAIN answers,
         \A k \in DOMAIN answers \ {i} : Polled(answers[k]) => answers[k].run \in polling',
         NEW more \in Seq(Sound), \A m \in DOMAIN more : Asks(more[m]),
         Takes(i, more) \/ FailsAnd(i, more), overtaken => overtaken'
  PROVE  /\ Queue'
         /\ \A l \in DOMAIN answers' : Polled(answers'[l]) =>
              \E k \in DOMAIN answers \ {i} : Alike(answers'[l], answers[k])
<1>1. PICK s \in Seq(Sound) :
         /\ Len(s) = Len(answers) /\ answers' = Taken(s, i, more)
         /\ \A k \in DOMAIN answers : Alike(s[k], answers[k]) /\ Honest(s[k])
  BY TakenFrom
<1>2. \A m \in DOMAIN more : /\ Honest(more[m]) /\ Fresh(more[m]) /\ ~Polled(more[m])
  BY AsksIsHonest
<1>3. ASSUME NEW m \in DOMAIN more PROVE Honest(more[m])' /\ Fresh(more[m])'
  BY <1>2 DEF Honest, Fresh, Current, Polled, Owns, server
<1>4. Queue'
  BY <1>1, <1>2, <1>3, TakenQueue DEF Polled
<1>5. DOMAIN s = DOMAIN answers
  BY <1>1 DEF Inv
<1>6. \A l \in DOMAIN answers' : \/ \E k \in DOMAIN s \ {i} : answers'[l] = s[k]
                                 \/ \E m \in DOMAIN more : answers'[l] = more[m]
  <2>1. i \in DOMAIN s
    BY <1>5
  <2>. QED
    BY <1>1, <2>1, TakenStay
<1>. QED
  BY <1>1, <1>2, <1>4, <1>5, <1>6

(* The selected Agent's own run is shown.                                   *)
LEMMA ShownOfSelected ==
  ASSUME Inv, Genuine, activeRun.status = "running"
  PROVE  Owns(selected, activeRun.id) /\ selected \in Agents
<1>1. Owns(selected, activeRun.id)
  BY DEF Genuine, Inv, ShownTypes
<1>. QED
  BY <1>1, RunIsRecord DEF Owns, Inv

(* Nothing new is shown, no loop ends, and no last read is made.            *)
LEMMA ClientStands ==
  ASSUME Inv, Inv', Following, ServerMoves, overtaken => overtaken', faults' \in {faults, faults + 1},
         polling \subseteq polling',
         (activeRun' = activeRun /\ selected' = selected) \/ activeRun' = Nothing,
         \A l \in DOMAIN answers' : answers'[l].to = "poll" =>
            \E k \in DOMAIN answers : answers[k].to = "poll" /\ answers[k].run = answers'[l].run
  PROVE  EndIsShown' /\ RunIsPolled' /\ Genuine'
<1>1. CASE activeRun' = Nothing
  BY <1>1 DEF EndIsShown, RunIsPolled, Genuine, Nothing
<1>2. CASE activeRun' = activeRun /\ selected' = selected
  <2>1. EndIsShown'
    BY <1>2 DEF Following, EndIsShown
  <2>2. RunIsPolled'
    <3>1. faults > 0 => faults' > 0
      BY DEF Inv, ClientTypes
    <3>. QED
      BY <1>2, <3>1, ShownOfSelected DEF Following, RunIsPolled, ServerMoves
  <2>. QED
    BY <1>2, <2>1, <2>2 DEF Following, Genuine
<1>. QED
  BY <1>1, <1>2

LEMMA OneTaken ==
  ASSUME Inv, NEW i \in DOMAIN answers, NEW y, NEW more \in Seq(Sound),
         more = <<>> \/ more = <<y>>, Takes(i, more)
  PROVE  /\ \A l \in DOMAIN answers' : \/ \E k \in DOMAIN answers \ {i} : answers'[l] = answers[k]
                                       \/ answers'[l] = y
         /\ overtaken => overtaken'
<1>1. \A m \in DOMAIN more : more[m] = y
  OBVIOUS
<1>2. \A l \in DOMAIN answers' : \/ \E k \in DOMAIN answers \ {i} : answers'[l] = answers[k]
                                 \/ \E m \in DOMAIN more : answers'[l] = more[m]
  BY OthersStay
<1>3. \A l \in DOMAIN answers' : \/ \E k \in DOMAIN answers \ {i} : answers'[l] = answers[k]
                                 \/ answers'[l] = y
  BY <1>1, <1>2
<1>4. overtaken => overtaken'
  BY DEF Takes
<1>. QED
  BY <1>3, <1>4

(* The answers that ask for nothing of a run, and show nothing of it.       *)
LEMMA OtherTaken ==
  ASSUME Inv, Inv', Following, ServerMoves, UNCHANGED <<polling, server>>,
         faults' \in {faults, faults + 1}, NEW i \in DOMAIN answers, ~Polled(answers[i]),
         NEW more \in Seq(Sound), \A m \in DOMAIN more : Asks(more[m]),
         Takes(i, more) \/ FailsAnd(i, more), overtaken => overtaken',
         (activeRun' = activeRun /\ selected' = selected) \/ activeRun' = Nothing
  PROVE  Queue' /\ EndIsShown' /\ RunIsPolled' /\ Genuine'
<1>1. \A k \in DOMAIN answers : Polled(answers[k]) => answers[k].run \in polling'
  BY DEF Following, Queue, AllHonest, Honest
<1>2. /\ Queue'
      /\ \A l \in DOMAIN answers' : Polled(answers'[l]) =>
           \E k \in DOMAIN answers \ {i} : Alike(answers'[l], answers[k])
  BY <1>1, AskedQueue DEF Following
<1>3. \A l \in DOMAIN answers' : answers'[l].to = "poll" =>
        \E k \in DOMAIN answers : answers[k].to = "poll" /\ answers[k].run = answers'[l].run
  BY <1>2 DEF Alike, Polled
<1>. QED
  BY <1>2, <1>3, ClientStands

LEMMA FollowingOthers ==
  ASSUME Inv, Inv', Following, [Next]_vars, NEW i \in DOMAIN answers,
         AuthAnswers(i) \/ VisitAnswers(i) \/ ControlAnswers(i) \/ ListArrives(i)
  PROVE  Following'
<1>1. ServerMoves /\ Born'
  BY ServerStep DEF Following
<1>2. /\ UNCHANGED <<polling, server>> /\ faults' = faults /\ ~Polled(answers[i])
  BY DEF AuthAnswers, VisitAnswers, ControlAnswers, ListArrives, loops, counts, server, Polled,
     Operations
<1>3. SUFFICES \E more \in Seq(Sound) :
                  /\ Takes(i, more) /\ \A m \in DOMAIN more : Asks(more[m])
                  /\ (activeRun' = activeRun /\ selected' = selected) \/ activeRun' = Nothing
  <2>. PICK more \in Seq(Sound) :
          /\ Takes(i, more) /\ \A m \in DOMAIN more : Asks(more[m])
          /\ (activeRun' = activeRun /\ selected' = selected) \/ activeRun' = Nothing
    BY <1>3
  <2>1. faults' \in {faults, faults + 1} /\ (overtaken => overtaken')
    BY <1>2 DEF Takes
  <2>2. Queue' /\ EndIsShown' /\ RunIsPolled' /\ Genuine'
    BY <1>1, <1>2, <2>1, OtherTaken
  <2>. QED
    BY <1>1, <2>2 DEF Following
<1>4. ASSUME NEW to \in {"bootstrap", "control"}, NEW a \in Agents \cup {0},
             to = "bootstrap" => a = 0, NEW more \in {<<>>, <<Read(to, a, 0)>>}
      PROVE  more \in Seq(Sound) /\ \A m \in DOMAIN more : Asks(more[m])
  <2>. PICK y : y = Read(to, a, 0)
    OBVIOUS
  <2>1. to \in Calls \ {"send", "run", "poll"} /\ 0 \in Nat
    BY DEF Calls
  <2>2. y \in Sound /\ Asks(y)
    BY <1>4, <2>1, ReadIsSound DEF Asks
  <2>3. more = <<>> \/ more = <<y>>
    OBVIOUS
  <2>. QED
    BY <2>2, <2>3, OneMore, NoMore
<1>5. CASE AuthAnswers(i)
  <2>1. PICK more \in {<<>>, <<Read("bootstrap", 0, 0)>>} :
          Takes(i, more) /\ activeRun' = activeRun /\ selected' = selected
    BY <1>5 DEF AuthAnswers
  <2>2. more \in Seq(Sound) /\ \A m \in DOMAIN more : Asks(more[m])
    BY <1>4
  <2>. QED
    BY <2>1, <2>2
<1>6. CASE VisitAnswers(i)
  <2>1. Takes(i, <<>>) /\ activeRun' = activeRun /\ selected' = selected
    BY <1>6 DEF VisitAnswers
  <2>. QED
    BY <2>1, NoMore
<1>7. CASE ControlAnswers(i)
  <2> DEFINE a == IF answers[i].to = "create" THEN answers[i].agent ELSE 0
  <2>1. PICK more \in {<<Read("control", a, 0)>>} :
          Takes(i, more) /\ activeRun' = activeRun /\ selected' = selected
    BY <1>7 DEF ControlAnswers
  <2>2. a \in Agents \cup {0}
    BY Present DEF AnswerRecords
  <2>. HIDE DEF a
  <2>3. more \in Seq(Sound) /\ \A m \in DOMAIN more : Asks(more[m])
    BY <1>4, <2>2
  <2>. QED
    BY <2>1, <2>3
<1>8. CASE ListArrives(i)
  <2> DEFINE x == answers[i]
             next == IF x.agent = 0 THEN Kept(x.list) ELSE x.agent
  <2>1. /\ x.to \in {"bootstrap", "control", "catch"} /\ x.ok
        /\ Takes(i, Visit(next)) /\ Selects(next)
    BY <1>8 DEF ListArrives
  <2>2. x.list \in Lists
    BY <2>1, Present DEF Sound, Topics, Operations
  <2>3. next \in Agents \cup {0}
    BY <2>1, <2>2, Present, KeptIsKnown DEF Sound, Known, AnswerRecords
  <2>. HIDE DEF next, x
  <2>4. Visit(next) \in Seq(Sound) /\ \A m \in DOMAIN Visit(next) : Asks(Visit(next)[m])
    BY <2>3, VisitAsks
  <2>5. (activeRun' = activeRun /\ selected' = selected) \/ activeRun' = Nothing
    BY <2>1 DEF Selects
  <2>. QED
    BY <2>1, <2>4, <2>5
<1>. QED
  BY <1>5, <1>6, <1>7, <1>8

(* The runs of a visit are read only now.                                   *)
LEMMA FollowingLater ==
  ASSUME Inv, Inv', Following, [Next]_vars, NEW i \in DOMAIN answers, RunsReadLater(i)
  PROVE  Following'
<1>1. ServerMoves /\ Born'
  BY ServerStep DEF Following
<1>. PICK y : y = Read("runs", answers[i].agent, answers[i].run)
  OBVIOUS
<1>2. /\ answers[i].to = "runs" /\ answers' = Taken(answers, i, <<y>>)
      /\ UNCHANGED <<status, runs, polling, activeRun, selected, faults, overtaken>>
  BY DEF RunsReadLater, Taken, server, loops, counts
<1>3. PICK more : more = <<y>>
  OBVIOUS
<1>4. /\ more \in Seq(Sound) /\ answers' = Taken(answers, i, more)
      /\ Len(more) = 1 /\ \A m \in DOMAIN more : more[m] = y
  <2>1. y \in Sound
    BY <1>2, LaterIsSound
  <2>. QED
    BY <1>2, <1>3, <2>1
<1>5. Honest(y) /\ Fresh(y) /\ ~Polled(y)
  <2>1. Asks(y)
    BY Present DEF Asks, Calls, AnswerRecords
  <2>. QED
    BY <2>1, AsksIsHonest DEF Following
<1>6. Honest(y)' /\ Fresh(y)'
  BY <1>2, <1>5 DEF Honest, Fresh, Current, Polled, Owns
<1>7. \A k \in DOMAIN answers : /\ Alike(answers[k], answers[k]) /\ Honest(answers[k])
                                /\ Polled(answers[k]) => answers[k].run \in polling'
  BY <1>2 DEF Following, Queue, AllHonest, Honest, Alike
<1>8. answers \in Seq(Sound) /\ Queue
  BY DEF Inv, Following
<1>9. Queue'
  <2>1. \A m \in DOMAIN more : /\ Honest(more[m])' /\ Fresh(more[m])'
                               /\ ~Polled(more[m]) /\ more[m].to # "poll"
    BY <1>4, <1>5, <1>6 DEF Polled
  <2>. QED
    BY <1>1, <1>2, <1>4, <1>7, <1>8, <2>1, TakenQueue
<1>10. \A l \in DOMAIN answers' : answers'[l].to = "poll" =>
        \E k \in DOMAIN answers : answers[k].to = "poll" /\ answers[k].run = answers'[l].run
  <2>1. \A l \in DOMAIN answers' : \/ \E k \in DOMAIN answers \ {i} : answers'[l] = answers[k]
                                   \/ \E m \in DOMAIN more : answers'[l] = more[m]
    BY <1>4, <1>8, TakenStay
  <2>. QED
    BY <1>4, <1>5, <2>1 DEF Polled
<1>11. EndIsShown' /\ RunIsPolled' /\ Genuine'
  BY <1>1, <1>2, <1>10, ClientStands
<1>. QED
  BY <1>1, <1>9, <1>11 DEF Following

(* A run is shown: by the visit of its Agent or by sendMessage.             *)
LEMMA FollowingShown ==
  ASSUME Inv, Inv', Following, [Next]_vars, NEW i \in DOMAIN answers,
         VisitShowsRun(i) \/ SendAnswers(i)
  PROVE  Following'
<1>1. ServerMoves /\ Born'
  BY ServerStep DEF Following
<1> DEFINE x == answers[i]
<1>2. x \in Sound /\ Honest(x) /\ ~Polled(x)
  BY Present DEF Following, Queue, AllHonest, VisitShowsRun, SendAnswers, Polled
<1>3. /\ Takes(i, <<>>) /\ UNCHANGED <<status, runs, selected, faults>>
      /\ polling \subseteq polling'
      /\ \/ activeRun' = activeRun
         \/ activeRun' = x.shown /\ (x.shown.status = "running" => x.shown.id \in polling')
  <2>1. CASE VisitShowsRun(i)
    BY <2>1 DEF VisitShowsRun, GoingOn, server, counts
  <2>2. CASE SendAnswers(i)
    BY <1>2, <2>2 DEF SendAnswers, server, counts, Honest
  <2>. QED
    BY <2>1, <2>2
<1>. HIDE DEF x
<1>4. /\ \A l \in DOMAIN answers' : \E k \in DOMAIN answers \ {i} : answers'[l] = answers[k]
      /\ overtaken => overtaken'
  BY <1>3, NoMore, OthersStay DEF Takes
<1>5. Queue'
  <2>1. PICK y : y = Read("bootstrap", 0, 0)
    OBVIOUS
  <2>2. Honest(y) /\ Fresh(y) /\ y.to = "bootstrap"
    BY <2>1, ReadIsHonest DEF Following, Calls
  <2>3. Honest(y)' /\ Fresh(y)' /\ ~Polled(y) /\ y.to # "poll"
    BY <1>3, <2>2 DEF Honest, Fresh, Current, Polled, Owns
  <2>4. \A k \in DOMAIN answers : Polled(answers[k]) => answers[k].run \in polling'
    BY <1>3 DEF Following, Queue, AllHonest, Honest
  <2>. QED
    BY <1>1, <1>3, <2>3, <2>4, NoMore, TakesQueue DEF Following
<1>6. CASE activeRun' = activeRun
  <2>1. EndIsShown' /\ RunIsPolled' /\ Genuine'
    BY <1>1, <1>3, <1>4, <1>6, ClientStands
  <2>. QED
    BY <1>1, <1>5, <2>1 DEF Following
<1>7. CASE activeRun' = x.shown /\ (x.shown.status = "running" => x.shown.id \in polling')
  <2>1. Genuine'
    <3>1. 0 \notin DOMAIN runs
      BY DEF Inv, ServerTypes
    <3>. QED
      BY <1>2, <1>7, <3>1, ShownIsOwn DEF Genuine
  <2>2. RunIsPolled'
    BY <1>7 DEF RunIsPolled
  <2>3. EndIsShown'
    BY <1>2, <1>4, <1>7 DEF EndIsShown, Following, Queue, LateIsSeen, Tells, x
  <2>. QED
    BY <1>1, <1>5, <2>1, <2>2, <2>3 DEF Following
<1>. QED
  BY <1>3, <1>6, <1>7

(* An answer to a poll: the loop goes on, or reads once more.               *)
LEMMA FollowingPoll ==
  ASSUME Inv, Inv', Following, [Next]_vars, NEW i \in DOMAIN answers, PollAnswers(i)
  PROVE  Following'
<1>1. ServerMoves /\ Born'
  BY ServerStep DEF Following
<1>. PICK x : x = answers[i]
  OBVIOUS
<1>. PICK y : y = Read("poll", x.agent, x.run)
  OBVIOUS
<1>2. /\ x \in Sound /\ x \in AnswerRecords /\ Honest(x) /\ x.to = "run" /\ x.shown.id = x.run
      /\ x.run \in polling /\ Owns(x.agent, x.run) /\ x.run # 0
  <2>1. 0 \notin DOMAIN runs
    BY DEF Inv, ServerTypes
  <2>. QED
    BY <2>1, Present DEF Following, Queue, AllHonest, PollAnswers, Honest, Polled, Owns
<1>3. /\ UNCHANGED <<status, runs, polling, selected, faults>>
      /\ Takes(i, IF x.shown.status = "running" THEN <<>> ELSE <<y>>)
      /\ activeRun' = IF x.agent = selected THEN x.shown ELSE activeRun
  BY DEF PollAnswers, ForSelected, LastRead, server, loops, counts
<1>4. y \in Sound
  BY <1>2, ReadIsSound DEF Calls, AnswerRecords, Sound
<1>5. \A k \in DOMAIN answers \ {i} : ~(Polled(answers[k]) /\ answers[k].run = x.run)
  BY <1>2 DEF Following, Queue, OneLoop, Polled
<1>6. \A k \in DOMAIN answers : Polled(answers[k]) => answers[k].run \in polling'
  BY <1>3 DEF Following, Queue, AllHonest, Honest
<1>7. CASE x.shown.status = "running"
  <2>1. Takes(i, <<>>)
    BY <1>3, <1>7
  <2>2. Queue'
    <3>1. PICK z : z = Read("bootstrap", 0, 0)
      OBVIOUS
    <3>2. Honest(z) /\ Fresh(z) /\ z.to = "bootstrap"
      BY <3>1, ReadIsHonest DEF Following, Calls
    <3>3. Honest(z)' /\ Fresh(z)' /\ ~Polled(z) /\ z.to # "poll"
      BY <1>3, <3>2 DEF Honest, Fresh, Current, Polled, Owns
    <3>. QED
      BY <1>1, <1>6, <2>1, <3>3, NoMore, TakesQueue DEF Following
  <2>3. /\ \A l \in DOMAIN answers' : \E k \in DOMAIN answers \ {i} : answers'[l] = answers[k]
        /\ overtaken => overtaken'
    BY <2>1, NoMore, OthersStay DEF Takes
  <2>4. CASE activeRun' = activeRun
    <3>1. EndIsShown' /\ RunIsPolled' /\ Genuine'
      BY <1>1, <1>3, <2>3, <2>4, ClientStands
    <3>. QED
      BY <1>1, <2>2, <3>1 DEF Following
  <2>5. CASE activeRun' = x.shown
    <3>1. RunIsPolled' /\ Genuine'
      BY <1>2, <1>3, <2>5 DEF RunIsPolled, Genuine
    <3>2. EndIsShown'
      BY <1>2, <1>5, <2>3, <2>5 DEF EndIsShown, Polled
    <3>. QED
      BY <1>1, <2>2, <3>1, <3>2 DEF Following
  <2>. QED
    BY <1>3, <2>4, <2>5
<1>8. CASE x.shown.status # "running"
  <2>1. Takes(i, <<y>>) /\ <<y>> \in Seq(Sound)
    BY <1>3, <1>4, <1>8
  <2>2. runs[x.run].status # "running"
    BY <1>2, <1>8 DEF Honest, Current, Owns
  <2>3. Honest(y) /\ Fresh(y) /\ y.to = "poll" /\ y.run = x.run
    BY <1>2, <2>2, ReadIsHonest DEF Following, Calls, Sound, AnswerRecords
  <2>4. Honest(y)' /\ Fresh(y)' /\ y.shown = Nothing
    BY <1>3, <2>3 DEF Honest, Fresh, Current, Polled, Owns
  <2>5. ASSUME NEW k \in DOMAIN answers \ {i}, ~Polled(answers[k]), Tells(answers[k], x.run)
        PROVE  overtaken'
    <3>1. DOMAIN answers = 1..Len(answers) /\ Len(answers) \in Nat
      BY DEF Inv
    <3>2. ~(i < k)
      BY <1>2, <1>8, <2>5 DEF Following, Queue, InOrder, Tells
    <3>3. k \in 1..i - 1
      BY <3>1, <3>2
    <3>4. Honest(answers[k]) /\ answers[k].shown # Nothing
      BY <2>5 DEF Following, Queue, AllHonest, Tells, Nothing
    <3>5. "run" \in Topics(answers[k].to) /\ Topics(answers[i].to) = {"run"}
      BY <1>2, <3>4 DEF Honest, Topics
    <3>6. Overtakes(i, Topics(answers[i].to))
      BY <3>3, <3>5 DEF Overtakes
    <3>. QED
      BY <2>1, <3>6 DEF Takes
  <2>6. Queue'
    <3>1. <<y>> = <<>> \/ <<y>> = <<y>>
      OBVIOUS
    <3>2. PICK more : more = <<y>>
      OBVIOUS
    <3>3. more \in Seq(Sound) /\ Takes(i, more) /\ (more = <<>> \/ more = <<y>>)
      BY <2>1, <3>2
    <3>4. /\ Polled(y) => \A k \in DOMAIN answers \ {i} :
                            ~(Polled(answers[k]) /\ answers[k].run = y.run)
          /\ y.to = "poll" => \A k \in DOMAIN answers \ {i} :
                                ~Polled(answers[k]) /\ Tells(answers[k], y.run) => overtaken'
      BY <1>5, <2>3, <2>5
    <3>. QED
      BY <1>1, <1>6, <2>4, <3>3, <3>4, TakesQueue DEF Following
  <2>7. /\ \A l \in DOMAIN answers' : \/ \E k \in DOMAIN answers \ {i} : answers'[l] = answers[k]
                                      \/ answers'[l] = y
        /\ overtaken => overtaken'
    <3>1. PICK more : more = <<y>>
      OBVIOUS
    <3>2. more \in Seq(Sound) /\ Takes(i, more) /\ (more = <<>> \/ more = <<y>>)
      BY <2>1, <3>1
    <3>. QED
      BY <3>2, OneTaken
  <2>8. CASE x.agent = selected
    <3>1. activeRun'.status # "running"
      BY <1>3, <1>8, <2>8
    <3>2. EndIsShown' /\ RunIsPolled' /\ Genuine'
      BY <3>1 DEF EndIsShown, RunIsPolled, Genuine
    <3>. QED
      BY <1>1, <2>6, <3>2 DEF Following
  <2>9. CASE x.agent # selected
    <3>1. activeRun' = activeRun
      BY <1>3, <2>9
    <3>2. RunIsPolled' /\ Genuine'
      BY <1>3, <2>7, <3>1 DEF Following, RunIsPolled, Genuine
    <3>3. activeRun.status = "running" => activeRun.id # x.run
      BY <1>2, <2>9, ShownOfSelected DEF Following, Owns
    <3>4. EndIsShown'
      BY <2>3, <2>7, <3>1, <3>3 DEF Following, EndIsShown
    <3>. QED
      BY <1>1, <2>6, <3>2, <3>4 DEF Following
  <2>. QED
    BY <2>8, <2>9
<1>. QED
  BY <1>7, <1>8

(* A loop ends, and its run is not the one that is shown as going on, or    *)
(* one of the three things happened.                                        *)
LEMMA LoopEnds ==
  ASSUME Inv, Inv', Following, ServerMoves, Born', UNCHANGED <<status, runs>>,
         NEW i \in DOMAIN answers, Polled(answers[i]), polling' = polling \ {answers[i].run},
         faults' \in {faults, faults + 1},
         NEW more \in Seq(Sound), \A m \in DOMAIN more : Asks(more[m]),
         Takes(i, more) \/ FailsAnd(i, more), overtaken => overtaken',
         (activeRun' = activeRun /\ selected' = selected) \/ activeRun' = Nothing,
         activeRun.status = "running" /\ activeRun.id = answers[i].run
            => overtaken \/ faults' > 0 \/ status[selected] = "deleted"
  PROVE  Following'
<1>1. \A k \in DOMAIN answers \ {i} : Polled(answers[k]) => answers[k].run \in polling'
  BY DEF Following, Queue, AllHonest, Honest, OneLoop
<1>2. UNCHANGED server /\ Queue /\ Born
  BY DEF server, Following
<1>3. /\ Queue'
      /\ \A l \in DOMAIN answers' : Polled(answers'[l]) =>
           \E k \in DOMAIN answers \ {i} : Alike(answers'[l], answers[k])
  BY <1>1, <1>2, AskedQueue
<1>4. CASE activeRun' = Nothing
  <2>1. EndIsShown' /\ RunIsPolled' /\ Genuine'
    BY <1>4 DEF EndIsShown, RunIsPolled, Genuine, Nothing
  <2>. QED
    BY <1>3, <2>1 DEF Following
<1>5. CASE activeRun' = activeRun /\ selected' = selected
  <2>1. \A l \in DOMAIN answers' : answers'[l].to = "poll" =>
          \E k \in DOMAIN answers : answers[k].to = "poll" /\ answers[k].run = answers'[l].run
    BY <1>3 DEF Alike, Polled
  <2>2. EndIsShown' /\ Genuine'
    BY <1>5, <2>1 DEF Following, EndIsShown, Genuine
  <2>3. RunIsPolled'
    <3>1. faults > 0 => faults' > 0
      BY DEF Inv, ClientTypes
    <3>. QED
      BY <1>5, <3>1 DEF Following, RunIsPolled
  <2>. QED
    BY <1>3, <2>2, <2>3 DEF Following
<1>. QED
  BY <1>4, <1>5

(* The last read of a loop arrives.                                         *)
LEMMA FollowingEnd ==
  ASSUME Inv, Inv', Following, [Next]_vars, NEW i \in DOMAIN answers, PollEnds(i)
  PROVE  Following'
<1>1. ServerMoves /\ Born'
  BY ServerStep DEF Following
<1>. PICK next : next = Kept(answers[i].list)
  OBVIOUS
<1>. PICK more : more = Visit(next)
  OBVIOUS
<1>2. /\ answers[i].to = "poll" /\ Selects(next) /\ Takes(i, more)
      /\ polling' = polling \ {answers[i].run} /\ UNCHANGED <<status, runs, faults>>
  BY DEF PollEnds, server, counts
<1>3. next \in Agents \cup {0}
  <2>1. answers[i].list \in Lists
    BY <1>2, Present DEF Sound, Topics, Operations
  <2>. QED
    BY <2>1, KeptIsKnown DEF Known
<1>4. more \in Seq(Sound) /\ \A m \in DOMAIN more : Asks(more[m])
  BY <1>3, VisitAsks
<1>5. (activeRun' = activeRun /\ selected' = selected) \/ activeRun' = Nothing
  BY <1>2 DEF Selects
<1>6. activeRun.status = "running" /\ activeRun.id = answers[i].run => overtaken
  BY <1>2 DEF Following, EndIsShown
<1>7. Polled(answers[i]) /\ faults' \in {faults, faults + 1} /\ (overtaken => overtaken')
  BY <1>2 DEF Polled, Takes
<1>. QED
  BY <1>1, <1>2, <1>4, <1>5, <1>6, <1>7, LoopEnds

(* An answer is refused or lost.                                            *)
LEMMA FollowingFailure ==
  ASSUME Inv, Inv', Following, [Next]_vars, NEW i \in DOMAIN answers, Fails(i)
  PROVE  Following'
<1>1. ServerMoves /\ Born'
  BY ServerStep DEF Following
<1>. PICK x : x = answers[i]
  OBVIOUS
<1>2. /\ x \in Sound /\ Honest(x)
      /\ UNCHANGED <<status, runs, selected>>
      /\ (~x.ok /\ faults' = faults) \/ (x.ok /\ faults' = faults + 1)
      /\ activeRun' = activeRun \/ activeRun' = Nothing
      /\ polling' = IF Polled(x) THEN polling \ {x.run} ELSE polling
      /\ overtaken => overtaken'
  BY Present DEF Following, Queue, AllHonest, Fails, Polled, server
<1>3. PICK more \in {<<>>, <<Read("catch", 0, 0)>>} : FailsAnd(i, more)
  BY DEF Fails, FailsAnd, Taken
<1>4. more \in Seq(Sound) /\ \A m \in DOMAIN more : Asks(more[m])
  <2>. PICK y : y = Read("catch", 0, 0)
    OBVIOUS
  <2>1. y \in Sound /\ Asks(y)
    BY ReadIsSound DEF Calls, Asks
  <2>2. more = <<>> \/ more = <<y>>
    OBVIOUS
  <2>. QED
    BY <2>1, <2>2, OneMore, NoMore
<1>5. /\ (activeRun' = activeRun /\ selected' = selected) \/ activeRun' = Nothing
      /\ faults' \in {faults, faults + 1}
  BY <1>2
<1>6. CASE Polled(x)
  <2>1. activeRun.status = "running" /\ activeRun.id = x.run
          => overtaken \/ faults' > 0 \/ status[selected] = "deleted"
    <3> SUFFICES ASSUME activeRun.status = "running", activeRun.id = x.run
                 PROVE  faults' > 0 \/ status[selected] = "deleted"
      OBVIOUS
    <3>1. CASE x.ok
      BY <1>2, <3>1 DEF Inv, ClientTypes
    <3>2. CASE ~x.ok
      <4>1. x.agent = selected
        BY <1>2, <1>6, ShownOfSelected DEF Following, Honest, Owns
      <4>. QED
        BY <1>2, <1>6, <3>2, <4>1 DEF Honest
    <3>. QED
      BY <3>1, <3>2
  <2>2. Polled(answers[i]) /\ polling' = polling \ {answers[i].run}
    BY <1>2, <1>6
  <2>. QED
    BY <1>1, <1>2, <1>3, <1>4, <1>5, <2>1, <2>2, LoopEnds
<1>7. CASE ~Polled(x)
  <2>1. ~Polled(answers[i]) /\ UNCHANGED <<polling, server>>
    BY <1>2, <1>7 DEF server
  <2>2. Queue' /\ EndIsShown' /\ RunIsPolled' /\ Genuine'
    BY <1>1, <1>2, <1>3, <1>4, <1>5, <2>1, OtherTaken
  <2>. QED
    BY <1>1, <2>2 DEF Following
<1>. QED
  BY <1>6, <1>7

(* A request is made.                                                       *)
LEMMA FollowingRequest ==
  ASSUME Inv, Inv', Following, ServerMoves, Born', UNCHANGED <<polling, faults, overtaken>>,
         (activeRun' = activeRun /\ selected' = selected) \/ activeRun' = Nothing,
         NEW y, Requests(y), Honest(y)', Fresh(y)', y.to # "poll",
         y.to = "run" => \A k \in DOMAIN answers : ~(Polled(answers[k]) /\ answers[k].run = y.run)
  PROVE  Following'
<1>1. Queue'
  BY AppendQueue DEF Following, Polled
<1>2. \A l \in DOMAIN answers' : \/ l \in DOMAIN answers /\ answers'[l] = answers[l]
                                 \/ answers'[l] = y
  BY AppendIs DEF Requests
<1>3. EndIsShown' /\ RunIsPolled' /\ Genuine'
  <2>1. faults' \in {faults, faults + 1} /\ polling \subseteq polling'
    OBVIOUS
  <2>2. \A l \in DOMAIN answers' : answers'[l].to = "poll" =>
          \E k \in DOMAIN answers : answers[k].to = "poll" /\ answers[k].run = answers'[l].run
    BY <1>2
  <2>. QED
    BY <2>1, <2>2, ClientStands
<1>. QED
  BY <1>1, <1>3 DEF Following

(* Nothing is asked, and nothing arrives.                                   *)
LEMMA FollowingQuiet ==
  ASSUME Inv, Inv', Following, ServerMoves, Born',
         UNCHANGED <<answers, polling, faults, overtaken, activeRun, selected>>
  PROVE  Following'
<1>1. Queue'
  BY SameQueue DEF Following
<1>2. faults' \in {faults, faults + 1} /\ polling \subseteq polling'
  OBVIOUS
<1>3. \A l \in DOMAIN answers' : answers'[l].to = "poll" =>
        \E k \in DOMAIN answers : answers[k].to = "poll" /\ answers[k].run = answers'[l].run
  OBVIOUS
<1>4. EndIsShown' /\ RunIsPolled' /\ Genuine'
  BY <1>2, <1>3, ClientStands
<1>. QED
  BY <1>1, <1>4 DEF Following

(* An answer that says nothing of a run, or is made of the runs as they     *)
(* stay.                                                                    *)
LEMMA PlainIsHonest ==
  ASSUME Inv, Inv', ServerMoves, NEW to \in Calls \ {"run", "poll"}, NEW a \in Agents \cup {0},
         NEW ok \in BOOLEAN, NEW y, y = Answer(to, a, 0, ok), to = "send" => ~ok,
         runs' = runs \/ to \notin {"runs", "send", "run"}
  PROVE  Honest(y)' /\ Fresh(y)' /\ y.to = to
<1>1. /\ y.to = to /\ y.ok = ok /\ Current(y) /\ Fresh(y)
      /\ to \notin {"runs", "send", "run"} => y.shown = Nothing
  BY AnswerSays
<1>2. Current(y)' /\ Fresh(y)'
  <2>1. CASE runs' = runs
    BY <1>1, <2>1 DEF Current, Fresh
  <2>2. CASE to \notin {"runs", "send", "run"}
    <3>1. y.shown.id = 0 /\ y.shown.status = "none"
      BY <1>1, <2>2 DEF Nothing
    <3>2. 0 \notin DOMAIN runs'
      BY DEF Inv, ServerTypes
    <3>. QED
      BY <3>1, <3>2 DEF Current, Fresh
  <2>. QED
    BY <2>1, <2>2
<1>. QED
  BY <1>1, <1>2 DEF Honest, Polled

(* The answer of sendMessage shows the run that it started.                 *)
LEMMA SentIsHonest ==
  ASSUME NEW a, NEW r, r \in DOMAIN runs', runs'[r].status = "running",
         NEW y, y = Started(a, r)
  PROVE  Honest(y)' /\ Fresh(y)' /\ y.to = "send"
<1>1. y.to = "send" /\ y.run = r /\ y.shown = [id |-> r, status |-> "running"]
  BY StartedSays
<1>. QED
  BY <1>1 DEF Honest, Current, Fresh, Polled

LEMMA FollowingRequests ==
  ASSUME Inv, Inv', Following, [Next]_vars,
         Operation \/ \E r \in 1..MaxRuns : PollAsks(r)
  PROVE  Following'
<1>1. ServerMoves /\ Born'
  BY ServerStep DEF Following
<1>2. ASSUME NEW r \in 1..MaxRuns, PollAsks(r) PROVE Following'
  <2>. PICK a : a = runs[r].agent
    OBVIOUS
  <2>. PICK y : y = Read("run", a, r)
    OBVIOUS
  <2>1. /\ r \in polling /\ Requests(y)
        /\ \A k \in DOMAIN answers : ~(Polled(answers[k]) /\ answers[k].run = r)
        /\ UNCHANGED <<status, runs, polling, faults, overtaken, activeRun, selected>>
    BY <1>2 DEF PollAsks, Requests, Polled, server, loops, counts
  <2>2. Owns(a, r) /\ a \in Agents
    BY <2>1, RunIsRecord DEF Inv, ClientTypes, Owns
  <2>3. Honest(y) /\ Fresh(y) /\ y.to = "run" /\ y.run = r
    <3>1. "run" \in Calls \ {"send"} /\ r \in Nat /\ r # 0 /\ a \in Agents \cup {0}
      BY <2>2, Bounds DEF Calls
    <3>. QED
      BY <2>1, <2>2, <3>1, ReadIsHonest DEF Following
  <2>4. Honest(y)' /\ Fresh(y)'
    BY <2>1, <2>3 DEF Honest, Fresh, Current, Polled, Owns
  <2>5. UNCHANGED <<polling, faults, overtaken>>
    BY <2>1
  <2>6. y.to # "poll" /\ \A k \in DOMAIN answers : ~(Polled(answers[k]) /\ answers[k].run = y.run)
    BY <2>1, <2>3
  <2>7. (activeRun' = activeRun /\ selected' = selected) \/ activeRun' = Nothing
    BY <2>1
  <2>. QED
    BY <1>1, <2>1, <2>4, <2>5, <2>6, <2>7, FollowingRequest
(* The requests of the user that say nothing of a run that is new.          *)
<1>3. ASSUME NEW to \in Calls \ {"run", "poll"}, NEW a \in Agents \cup {0}, NEW ok \in BOOLEAN,
             NEW y, y = Answer(to, a, 0, ok), to = "send" => ~ok, Requests(y),
             runs' = runs \/ to \notin {"runs", "send", "run"},
             UNCHANGED <<polling, faults, overtaken>>,
             (activeRun' = activeRun /\ selected' = selected) \/ activeRun' = Nothing
      PROVE  Following'
  <2>1. Honest(y)' /\ Fresh(y)' /\ y.to = to
    BY <1>1, <1>3, PlainIsHonest
  <2>2. y.to # "poll" /\ y.to # "run"
    BY <2>1
  <2>. QED
    BY <1>1, <1>3, <2>1, <2>2, FollowingRequest
<1>4. CASE Unlock
  <2>1. PICK ok \in BOOLEAN : Requests(Answer("bootstrap", 0, 0, ok))
    BY <1>4 DEF Unlock, Requests
  <2>2. PICK y : y = Answer("bootstrap", 0, 0, ok)
    OBVIOUS
  <2>3. /\ Requests(y) /\ runs' = runs /\ UNCHANGED <<polling, faults, overtaken>>
        /\ activeRun' = activeRun /\ selected' = selected
    BY <1>4, <2>1, <2>2 DEF Unlock, server, loops
  <2>4. "bootstrap" \in Calls \ {"run", "poll"}
    BY DEF Calls
  <2>. QED
    BY <1>3, <2>2, <2>3, <2>4
<1>5. ASSUME NEW a \in Agents, Choose(a) PROVE Following'
  <2>1. /\ Selects(a) /\ answers' = answers \o Visit(a)
        /\ UNCHANGED <<status, runs, polling, faults, overtaken>>
    BY <1>5 DEF Choose, server, loops
  <2>2. CASE a = selected
    <3>1. answers' = answers
      <4>1. Visit(a) = <<>> /\ answers \in Seq(Sound)
        BY <2>2 DEF Visit, Inv
      <4>. QED
        BY <2>1, <4>1
    <3>2. UNCHANGED <<answers, polling, faults, overtaken, activeRun, selected>>
      BY <2>1, <2>2, <3>1 DEF Selects
    <3>. QED
      BY <1>1, <3>2, FollowingQuiet
  <2>3. CASE a # selected
    <3>1. Visit(a) \in Seq(Sound) /\ \A m \in DOMAIN Visit(a) : Asks(Visit(a)[m])
      BY VisitAsks
    <3>. PICK more \in Seq(Sound) : more = Visit(a)
      BY <3>1
    <3>2. ASSUME NEW m \in DOMAIN more
          PROVE  Honest(more[m])' /\ Fresh(more[m])' /\ ~Polled(more[m])
      <4>1. Honest(more[m]) /\ Fresh(more[m]) /\ ~Polled(more[m])
        BY <3>1, AsksIsHonest DEF Following
      <4>. QED
        BY <2>1, <4>1 DEF Honest, Fresh, Current, Polled, Owns
    <3>3. Queue'
      BY <1>1, <2>1, <3>2, ConcatQueue DEF Following
    <3>4. \A l \in DOMAIN answers' : answers'[l].to = "poll" =>
            \E k \in DOMAIN answers : answers[k].to = "poll" /\ answers[k].run = answers'[l].run
      <4>1. /\ answers \in Seq(Sound) /\ Len(answers) \in Nat /\ Len(more) \in Nat
            /\ DOMAIN answers = 1..Len(answers) /\ DOMAIN more = 1..Len(more)
        BY DEF Inv
      <4>2. /\ answers' \in Seq(Sound) /\ Len(answers') = Len(answers) + Len(more)
            /\ \A k \in 1..Len(answers) + Len(more) :
                 answers'[k] = IF k <= Len(answers) THEN answers[k] ELSE more[k - Len(answers)]
        BY <2>1, <4>1, ConcatIs
      <4>3. \A l \in DOMAIN answers' : \/ \E k \in DOMAIN answers : answers'[l] = answers[k]
                                       \/ \E m \in DOMAIN more : answers'[l] = more[m]
        <5> SUFFICES ASSUME NEW l \in DOMAIN answers'
                     PROVE  \/ \E k \in DOMAIN answers : answers'[l] = answers[k]
                            \/ \E m \in DOMAIN more : answers'[l] = more[m]
          OBVIOUS
        <5>1. CASE l <= Len(answers)
          BY <4>1, <4>2, <5>1
        <5>2. CASE ~(l <= Len(answers))
          <6>1. l - Len(answers) \in DOMAIN more /\ answers'[l] = more[l - Len(answers)]
            BY <4>1, <4>2, <5>2
          <6>. QED
            BY <6>1
        <5>. QED
          BY <5>1, <5>2
      <4>. QED
        BY <3>2, <4>3 DEF Polled
    <3>5. activeRun' = Nothing /\ faults' \in {faults, faults + 1} /\ polling \subseteq polling'
      BY <2>1, <2>3 DEF Selects
    <3>6. EndIsShown' /\ RunIsPolled' /\ Genuine'
      BY <1>1, <2>1, <3>4, <3>5, ClientStands
    <3>. QED
      BY <1>1, <3>3, <3>6 DEF Following
  <2>. QED
    BY <2>2, <2>3
<1>6. ASSUME NEW a \in Agents, NEW what \in Operations, Control(what, a) PROVE Following'
  <2>. PICK ok : ok = (what = "create" \/ (a \in Known(status) /\ (what \in {"save", "start"} => status[a] # "busy")))
    OBVIOUS
  <2>1. PICK y : y = Answer(what, a, 0, ok)
    OBVIOUS
  <2>2. /\ Requests(y) /\ UNCHANGED <<polling, faults, overtaken>>
        /\ activeRun' = activeRun /\ selected' = selected
    BY <1>6, <2>1 DEF Control, Requests, loops
  <2>3. what \in Calls \ {"run", "poll"} /\ what \notin {"runs", "send", "run"}
    BY DEF Calls, Operations
  <2>4. ok \in BOOLEAN
    OBVIOUS
  <2>. QED
    BY <1>3, <2>1, <2>2, <2>3, <2>4
<1>7. CASE Send
  <2>1. selected \in Agents /\ activeRun' = activeRun /\ selected' = selected
        /\ UNCHANGED <<polling, faults, overtaken>>
    BY <1>7 DEF Send, Inv, ShownTypes, Known, loops
  <2>2. CASE status[selected] # "ready"
    <3>1. PICK y : y = Answer("send", selected, 0, FALSE)
      OBVIOUS
    <3>2. Requests(y) /\ runs' = runs
      BY <1>7, <2>2, <3>1 DEF Send, Requests, server
    <3>3. "send" \in Calls \ {"run", "poll"} /\ FALSE \in BOOLEAN
      BY DEF Calls
    <3>. QED
      BY <1>3, <2>1, <3>1, <3>2, <3>3
  <2>3. CASE status[selected] = "ready"
    <3>. PICK r : r = Len(runs')
      OBVIOUS
    <3>. PICK y : y = Started(selected, r)
      OBVIOUS
    <3>1. Requests(y) /\ runs' = Append(runs, [agent |-> selected, status |-> "running"])
      BY <1>7, <2>3 DEF Send, Requests, Started
    <3>2. r \in DOMAIN runs' /\ runs'[r].status = "running"
      <4> DEFINE new == [agent |-> selected, status |-> "running"]
      <4>1. runs \in Seq(RunRecords) /\ new \in RunRecords /\ new.status = "running"
        BY <2>1 DEF Inv, ServerTypes, RunRecords, RunStatuses
      <4>2. runs' = Append(runs, new)
        BY <3>1
      <4>. HIDE DEF new
      <4>. QED
        BY <4>1, <4>2
    <3>3. Honest(y)' /\ Fresh(y)' /\ y.to = "send"
      BY <3>2, SentIsHonest
    <3>4. y.to # "poll" /\ y.to # "run"
      BY <3>3
    <3>. QED
      BY <1>1, <2>1, <3>1, <3>3, <3>4, FollowingRequest
  <2>. QED
    BY <2>2, <2>3
<1>. QED
  BY <1>2, <1>4, <1>5, <1>6, <1>7 DEF Operation

LEMMA FollowingStep == ASSUME Inv, Inv', Following, [Next]_vars PROVE Following'
<1>1. ServerMoves /\ Born'
  BY ServerStep DEF Following
<1>2. ASSUME NEW i \in DOMAIN answers, Arrives(i) \/ Fails(i) PROVE Following'
  BY <1>2, FollowingOthers, FollowingShown, FollowingPoll, FollowingEnd, FollowingFailure
     DEF Arrives
<1>3. ASSUME (\E a \in Agents : RunBegins(a) \/ RunEnds(a)) \/ UNCHANGED vars
      PROVE  Following'
  <2>1. UNCHANGED <<answers, polling, faults, overtaken, activeRun, selected>>
    BY <1>3 DEF RunBegins, RunEnds, vars, loops, counts
  <2>. QED
    BY <1>1, <2>1, FollowingQuiet
<1>. QED
  BY <1>2, <1>3, FollowingRequests, FollowingLater DEF Next, Arrival

(* A run that App.tsx shows as going on has a pollRun loop that follows it, *)
(* unless an answer was lost or overtook an older one, or the selected      *)
(* Agent is deleted: whatever is selected and sent meanwhile, the client is *)
(* not left with a run that it shows as running and asks no more about.     *)
(* That a loop ends only when what it shows is the end of its run is what   *)
(* the settled view of ViewSettles rests on.                                *)
THEOREM RunningIsPolled == Spec => []RunIsPolled
<1>1. Inv /\ Init => Following
  <2> SUFFICES ASSUME Inv, Init PROVE Following
    OBVIOUS
  <2>1. /\ runs = <<>> /\ activeRun = Nothing
        /\ answers = <<Read("auth", 0, 0)>>
    BY DEF Init
  <2>2. Born /\ DOMAIN runs = {}
    BY <2>1 DEF Born
  <2>3. PICK y : y = Read("auth", 0, 0)
    OBVIOUS
  <2>4. Honest(y) /\ y.to = "auth"
    BY <2>2, <2>3, ReadIsHonest DEF Calls
  <2>5. DOMAIN answers = {1} /\ answers[1] = y
    BY <2>1, <2>3
  <2>6. y.shown = Nothing /\ Nothing.status = "none"
    BY <2>4 DEF Honest, Nothing
  <2>7. AllHonest /\ InOrder /\ OneLoop /\ LateIsSeen /\ EndIsShown
    BY <2>4, <2>5, <2>6 DEF AllHonest, InOrder, OneLoop, LateIsSeen, EndIsShown, Polled
  <2>8. RunIsPolled /\ Genuine
    BY <2>1, <2>6 DEF RunIsPolled, Genuine
  <2>. QED
    BY <2>2, <2>7, <2>8 DEF Following, Queue
<1>2. Inv /\ Inv' /\ Following /\ [Next]_vars => Following'
  BY FollowingStep
<1>3. Following => RunIsPolled
  BY DEF Following
<1>. QED
  BY <1>1, <1>2, <1>3, Invariance, PTL DEF Spec
=============================================================================
