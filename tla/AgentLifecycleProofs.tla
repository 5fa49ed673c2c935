------------------------ MODULE AgentLifecycleProofs ------------------------
(***************************************************************************)
(* Proofs about AgentLifecycle, for any number of messages and requests.   *)
(* The inductive invariant says what the entries of the queue stand for,   *)
(* that the runs begin in the order they were accepted, the registered one *)
(* last, and what a request that waits still has to rely on.               *)
(***************************************************************************)
EXTENDS AgentLifecycle, SequenceTheorems, FiniteSetTheorems, TLAPS

(* The types, and what the runner and activeExecutions refer to.            *)
Types ==
    /\ up \in BOOLEAN /\ cancelling \in BOOLEAN
    /\ agent \in {"ready", "busy", "stopped", "error", "deleted"}
    /\ run \in [Runs -> {"none", "queued", "running", "completed", "failed",
                         "cancelled", "removed"}]
    /\ workspace \in {"present", "archived"}
    /\ exec \in [Runs -> {"none", "sending", "refused", "begin", "child", "completing",
                          "failing", "cancelling", "ended", "rejected", "lost"}]
    /\ child \in [Runs -> {"none", "alive", "terminated", "stillborn", "closed", "orphan"}]
    /\ cancelled \subseteq Runs /\ expired \subseteq Runs
    /\ control \in [Controls -> {"idle", "settling", "awaiting", "archiving", "storing",
                                 "done", "failed"}]
    /\ kind \in [Controls -> {"none", "stop", "start", "delete"}]
    /\ target \in [Controls -> Runs \cup {None}]
    /\ earlier \in [Controls -> SUBSET Runs]
    /\ faults \in Nat /\ crashes \in Nat /\ faults + crashes <= MaxMishaps

Registered ==
    /\ latest = None \/ (latest \in Runs /\ Executing(latest))
    /\ active = None \/ (active \in Runs /\ exec[active] = "child")

RunOps == {"send", "begin", "finish"}
ControlOps == {"stop", "start", "delete"}
Entries == (RunOps \X Runs) \cup (ControlOps \X Controls)
Closing == {"completing", "failing", "cancelling"}

(* An entry stands for a caller that waits for it: ex, ct, kd are exec,     *)
(* control and kind.                                                        *)
Fits(e, ex, ct, kd) ==
    /\ e[1] = "send" => ex[e[2]] = "sending"
    /\ e[1] = "begin" => ex[e[2]] = "begin"
    /\ e[1] = "finish" => ex[e[2]] \in Closing
    /\ e[1] \in ControlOps => ct[e[2]] = "storing" /\ kd[e[2]] = e[1]

(* Every caller has one entry at most.                                      *)
Sound(q, ex, ct, kd) ==
    /\ q \in Seq(Entries)
    /\ \A i \in DOMAIN q : Fits(q[i], ex, ct, kd)
    /\ \A i, j \in DOMAIN q : q[i] = q[j] => i = j

Queued == Sound(queue, exec, control, kind)

(* In the queue q, run r begins no later than run t.                        *)
Precedes(q, r, t) ==
    \E i, j \in DOMAIN q : i <= j /\ q[i] = <<"begin", r>> /\ q[j] = <<"begin", t>>

(* The registered run is the last one to begin.                             *)
Newest == \A r \in Runs : exec[r] = "begin" => Precedes(queue, r, latest)

(* A run has a process exactly while it is in the runner, which supervises  *)
(* no other.                                                                *)
Supervised ==
    \A r \in Runs : /\ Alive(r) <=> exec[r] = "child"
                    /\ exec[r] = "child" => active = r

(* What is stored of a run that is not over.                                *)
Records ==
    /\ \A r \in Runs :
         /\ exec[r] \in {"none", "sending", "refused"} => run[r] = "none"
         /\ exec[r] = "begin" => run[r] \in {"queued", "removed"}
         /\ exec[r] \in {"child"} \cup Closing => run[r] \in {"running", "removed"}
    /\ ~up => \A r \in Runs : ~Executing(r)

(* The requests and what they ask.                                          *)
AskedOf(c) ==
    /\ control[c] = "idle" => kind[c] = "none"
    /\ kind[c] \in {"none", "start"} => earlier[c] = {}
    /\ control[c] \in {"settling", "awaiting"} => kind[c] \in {"stop", "delete"}
    /\ control[c] = "archiving" => kind[c] = "delete"
    /\ control[c] = "settling" => active \in Runs /\ target[c] = active
    /\ kind[c] = "delete" /\ control[c] \in {"storing", "done"} => workspace = "archived"

Asked == \A c \in Controls : AskedOf(c)

(* A run that a request found and that has not begun is kept from it by the *)
(* entry of cancellationRequests, or begins before the run that is awaited; *)
(* one that has begun is settled before the request waits for anything else.*)
EndingOf(c, r) ==
    /\ exec[r] \notin {"none", "sending"}
    /\ exec[r] = "begin" =>
         /\ control[c] \notin {"archiving", "storing", "done"}
         /\ control[c] \in {"settling", "awaiting"} => cancelling
         /\ control[c] = "awaiting" => Precedes(queue, r, target[c])
    /\ exec[r] = "child" => control[c] \notin {"awaiting", "archiving", "storing", "done"}

Ending == \A c \in Controls : \A r \in earlier[c] : EndingOf(c, r)

Inv == /\ Types /\ Registered /\ Queued /\ Newest /\ Supervised /\ Records /\ Asked /\ Ending
       /\ BusyHasRun /\ DeletedLeavesNothing
-----------------------------------------------------------------------------
(* The queue.                                                               *)

LEMMA AppendFacts ==
  ASSUME NEW q \in Seq(Entries), NEW e \in Entries
  PROVE  /\ Append(q, e) \in Seq(Entries)
         /\ \A i \in DOMAIN q : i \in DOMAIN Append(q, e) /\ Append(q, e)[i] = q[i]
         /\ Len(q) + 1 \in DOMAIN Append(q, e) /\ Append(q, e)[Len(q) + 1] = e
         /\ \A i \in DOMAIN Append(q, e) : i \in DOMAIN q \/ i = Len(q) + 1
         /\ \A i \in DOMAIN q : i < Len(q) + 1
<1>1. DOMAIN q = 1..Len(q) /\ Len(q) \in Nat
  BY LenProperties
<1>2. Append(q, e) \in Seq(Entries) /\ Len(Append(q, e)) = Len(q) + 1
  BY AppendProperties
<1>3. DOMAIN Append(q, e) = 1..Len(q) + 1
  BY <1>2, LenProperties
<1>4. /\ \A i \in 1..Len(q) : Append(q, e)[i] = q[i]
      /\ Append(q, e)[Len(q) + 1] = e
  BY AppendProperties
<1>. QED
  BY <1>1, <1>2, <1>3, <1>4

LEMMA TailFacts ==
  ASSUME NEW q \in Seq(Entries), q # <<>>
  PROVE  /\ Tail(q) \in Seq(Entries)
         /\ 1 \in DOMAIN q /\ Head(q) = q[1] /\ Head(q) \in Entries
         /\ \A i \in DOMAIN Tail(q) : i + 1 \in DOMAIN q /\ Tail(q)[i] = q[i + 1] /\ i + 1 # 1
         /\ \A i \in DOMAIN Tail(q) : i \in Nat
         /\ \A i \in DOMAIN q : /\ i \in Nat
                                /\ i # 1 => i - 1 \in DOMAIN Tail(q) /\ Tail(q)[i - 1] = q[i]
<1>1. DOMAIN q = 1..Len(q) /\ Len(q) \in Nat
  BY LenProperties
<1>2. Len(q) # 0
  BY EmptySeq
<1>3. /\ Tail(q) \in Seq(Entries) /\ Len(Tail(q)) = Len(q) - 1
      /\ \A i \in 1..Len(Tail(q)) : Tail(q)[i] = q[i + 1]
      /\ Head(q) \in Entries
  BY HeadTailProperties
<1>4. DOMAIN Tail(q) = 1..Len(q) - 1
  BY <1>3, LenProperties
<1>. QED
  BY <1>1, <1>2, <1>3, <1>4

LEMMA ConcatFacts ==
  ASSUME NEW q \in Seq(Entries), NEW s \in Seq(Entries)
  PROVE  /\ q \o s \in Seq(Entries)
         /\ \A i \in DOMAIN q : i \in Nat /\ i \in DOMAIN (q \o s) /\ (q \o s)[i] = q[i]
         /\ \A i \in DOMAIN (q \o s) :
              \/ i \in DOMAIN q
              \/ i - Len(q) \in DOMAIN s /\ (q \o s)[i] = s[i - Len(q)]
         /\ \A i \in DOMAIN (q \o s) : i \in Nat
         /\ Len(q) \in Nat
<1>1. DOMAIN q = 1..Len(q) /\ Len(q) \in Nat /\ DOMAIN s = 1..Len(s) /\ Len(s) \in Nat
  BY LenProperties
<1>2. /\ q \o s \in Seq(Entries) /\ Len(q \o s) = Len(q) + Len(s)
      /\ \A i \in 1..Len(q) + Len(s) :
            (q \o s)[i] = IF i <= Len(q) THEN q[i] ELSE s[i - Len(q)]
  BY ConcatProperties
<1>3. DOMAIN (q \o s) = 1..Len(q) + Len(s)
  BY <1>2, LenProperties
<1>. QED
  BY <1>1, <1>2, <1>3

(* A new entry for a caller that had none.                                  *)
LEMMA SoundAppend ==
  ASSUME NEW q, NEW e \in Entries, NEW ex, NEW ct, NEW kd,
         Sound(q, ex, ct, kd), Fits(e, ex, ct, kd), \A i \in DOMAIN q : q[i] # e
  PROVE  Sound(Append(q, e), ex, ct, kd)
<1>1. q \in Seq(Entries)
  BY DEF Sound
<1>. DEFINE p == Append(q, e)
<1>2. \A i \in DOMAIN p : \/ i \in DOMAIN q /\ p[i] = q[i]
                          \/ i = Len(q) + 1 /\ p[i] = e
  BY <1>1, AppendFacts
<1>3. p \in Seq(Entries)
  BY <1>1, AppendFacts
<1>. HIDE DEF p
<1>4. \A i \in DOMAIN p : Fits(p[i], ex, ct, kd)
  BY <1>2 DEF Sound
<1>5. \A i, j \in DOMAIN p : p[i] = p[j] => i = j
  BY <1>2 DEF Sound
<1>. QED
  BY <1>3, <1>4, <1>5 DEF Sound, p

LEMMA SoundTail ==
  ASSUME NEW q, NEW ex, NEW ct, NEW kd, Sound(q, ex, ct, kd), q # <<>>
  PROVE  /\ Sound(Tail(q), ex, ct, kd)
         /\ Head(q) \in Entries /\ Fits(Head(q), ex, ct, kd)
         /\ \A i \in DOMAIN Tail(q) : Tail(q)[i] \in Entries /\ Tail(q)[i] # Head(q)
<1>1. q \in Seq(Entries)
  BY DEF Sound
<1>. DEFINE p == Tail(q)
<1>2. /\ \A i \in DOMAIN p : i \in Nat /\ i + 1 \in DOMAIN q /\ p[i] = q[i + 1] /\ i + 1 # 1
      /\ 1 \in DOMAIN q /\ Head(q) = q[1] /\ Head(q) \in Entries
      /\ p \in Seq(Entries)
  BY <1>1, TailFacts
<1>. HIDE DEF p
<1>3. \A i \in DOMAIN p : Fits(p[i], ex, ct, kd) /\ p[i] # Head(q)
  BY <1>2 DEF Sound
<1>4. \A i, j \in DOMAIN p : p[i] = p[j] => i = j
  <2>. SUFFICES ASSUME NEW i \in DOMAIN p, NEW j \in DOMAIN p, p[i] = p[j] PROVE i = j
    OBVIOUS
  <2>1. i + 1 = j + 1
    BY <1>2 DEF Sound
  <2>. QED
    BY <2>1, <1>2
<1>5. \A i \in DOMAIN p : p[i] \in Entries
  BY <1>2, ElementOfSeq, LenProperties
<1>6. Fits(Head(q), ex, ct, kd)
  BY <1>2 DEF Sound
<1>. QED
  BY <1>2, <1>3, <1>4, <1>5, <1>6 DEF Sound, p

LEMMA SoundConcat ==
  ASSUME NEW q, NEW s, NEW ex, NEW ct, NEW kd, Sound(q, ex, ct, kd), Sound(s, ex, ct, kd),
         \A i \in DOMAIN q : \A j \in DOMAIN s : q[i] # s[j]
  PROVE  Sound(q \o s, ex, ct, kd)
<1>1. q \in Seq(Entries) /\ s \in Seq(Entries)
  BY DEF Sound
<1>. DEFINE p == q \o s
            n == Len(q)
<1>2. /\ p \in Seq(Entries) /\ n \in Nat
      /\ \A i \in DOMAIN p : /\ i \in Nat
                             /\ \/ i \in DOMAIN q /\ p[i] = q[i]
                                \/ i - n \in DOMAIN s /\ p[i] = s[i - n]
  BY <1>1, ConcatFacts
<1>. HIDE DEF p, n
<1>3. \A i \in DOMAIN p : Fits(p[i], ex, ct, kd)
  BY <1>2 DEF Sound
<1>4. \A i, j \in DOMAIN p : p[i] = p[j] => i = j
  <2>. SUFFICES ASSUME NEW i \in DOMAIN p, NEW j \in DOMAIN p, p[i] = p[j] PROVE i = j
    OBVIOUS
  <2>1. CASE i \in DOMAIN q /\ p[i] = q[i] /\ j \in DOMAIN q /\ p[j] = q[j]
    BY <2>1 DEF Sound
  <2>2. CASE i - n \in DOMAIN s /\ p[i] = s[i - n] /\ j - n \in DOMAIN s /\ p[j] = s[j - n]
    <3>1. i - n = j - n
      BY <2>2 DEF Sound
    <3>. QED
      BY <3>1, <1>2
  <2>. QED
    BY <2>1, <2>2, <1>2
<1>. QED
  BY <1>2, <1>3, <1>4 DEF Sound, p

(* What other callers do leaves an entry as it is.                          *)
LEMMA SoundUnder ==
  ASSUME NEW q, NEW ex, NEW ct, NEW kd, NEW ex2, NEW ct2, NEW kd2, Sound(q, ex, ct, kd),
         \A i \in DOMAIN q : q[i][1] \in RunOps => ex2[q[i][2]] = ex[q[i][2]],
         \A i \in DOMAIN q : q[i][1] \in ControlOps => /\ ct2[q[i][2]] = ct[q[i][2]]
                                                       /\ kd2[q[i][2]] = kd[q[i][2]]
  PROVE  Sound(q, ex2, ct2, kd2)
BY DEF Sound, Fits, RunOps, ControlOps

LEMMA NoEntryOfRun ==
  ASSUME NEW q, NEW ex, NEW ct, NEW kd, Sound(q, ex, ct, kd),
         NEW r, ex[r] \notin {"sending", "begin"} \cup Closing
  PROVE  \A i \in DOMAIN q : q[i][1] \in RunOps => q[i][2] # r
BY DEF Sound, Fits, RunOps

LEMMA NoEntryOfControl ==
  ASSUME NEW q, NEW ex, NEW ct, NEW kd, Sound(q, ex, ct, kd), NEW c, ct[c] # "storing"
  PROVE  \A i \in DOMAIN q : q[i][1] \in ControlOps => q[i][2] # c
BY DEF Sound, Fits, ControlOps

LEMMA PrecedesAppend ==
  ASSUME NEW q \in Seq(Entries), NEW e \in Entries, NEW r, NEW t, Precedes(q, r, t)
  PROVE  Precedes(Append(q, e), r, t)
BY AppendFacts DEF Precedes

LEMMA PrecedesConcat ==
  ASSUME NEW q \in Seq(Entries), NEW s \in Seq(Entries), NEW r, NEW t, Precedes(q, r, t)
  PROVE  Precedes(q \o s, r, t)
BY ConcatFacts DEF Precedes

LEMMA PrecedesTail ==
  ASSUME NEW q \in Seq(Entries), q # <<>>, NEW r, NEW t, Precedes(q, r, t),
         Head(q) # <<"begin", r>>
  PROVE  Precedes(Tail(q), r, t)
<1>1. PICK i \in DOMAIN q, j \in DOMAIN q :
        i <= j /\ q[i] = <<"begin", r>> /\ q[j] = <<"begin", t>>
  BY DEF Precedes
<1>2. i # 1
  BY <1>1, TailFacts
<1>3. i \in Nat /\ j \in Nat /\ 1 <= i
  BY LenProperties
<1>4. j # 1
  BY <1>1, <1>2, <1>3
<1>5. /\ i - 1 \in DOMAIN Tail(q) /\ Tail(q)[i - 1] = <<"begin", r>>
      /\ j - 1 \in DOMAIN Tail(q) /\ Tail(q)[j - 1] = <<"begin", t>>
  BY <1>1, <1>2, <1>4, TailFacts
<1>6. i - 1 <= j - 1
  BY <1>1, <1>3
<1>. QED
  BY <1>5, <1>6 DEF Precedes

(* Who begins no earlier than a run that waits to begin waits too.          *)
LEMMA PrecedesWhom ==
  ASSUME NEW q, NEW ex, NEW ct, NEW kd, Sound(q, ex, ct, kd), NEW r, NEW t, Precedes(q, r, t)
  PROVE  /\ r \in Runs /\ t \in Runs /\ ex[r] = "begin" /\ ex[t] = "begin"
         /\ q # <<>> /\ Head(q) = <<"begin", t>> => r = t
<1>1. PICK i \in DOMAIN q, j \in DOMAIN q :
        i <= j /\ q[i] = <<"begin", r>> /\ q[j] = <<"begin", t>>
  BY DEF Precedes
<1>2. q[i] \in Entries /\ q[j] \in Entries
  BY ElementOfSeq, LenProperties DEF Sound
<1>3. Fits(q[i], ex, ct, kd) /\ Fits(q[j], ex, ct, kd)
  BY DEF Sound
<1>4. ASSUME q # <<>>, Head(q) = <<"begin", t>> PROVE r = t
  <2>1. q \in Seq(Entries)
    BY DEF Sound
  <2>2. 1 \in DOMAIN q /\ q[1] = q[j]
    BY <1>1, <1>4, <2>1, TailFacts
  <2>3. j = 1
    BY <2>2 DEF Sound
  <2>4. i \in Nat /\ 1 <= i
    BY <2>1, LenProperties
  <2>5. i = j
    BY <1>1, <2>3, <2>4
  <2>. QED
    BY <1>1, <2>5
<1>. QED
  BY <1>1, <1>2, <1>3, <1>4 DEF Fits, Entries, RunOps, ControlOps

LEMMA WhoBeginsIsQueued ==
  ASSUME NEW q \in Seq(Entries), NEW r, NEW t, Precedes(q, r, t), NEW n \in Runs
  PROVE  Precedes(Append(q, <<"begin", n>>), r, n)
<1>1. PICK i \in DOMAIN q : q[i] = <<"begin", r>>
  BY DEF Precedes
<1>2. <<"begin", n>> \in Entries
  BY DEF Entries, RunOps
<1>3. i < Len(q) + 1 /\ i \in Nat /\ Len(q) \in Nat
  BY <1>2, AppendFacts, TailFacts, LenProperties
<1>4. /\ i \in DOMAIN Append(q, <<"begin", n>>)
      /\ Append(q, <<"begin", n>>)[i] = <<"begin", r>>
      /\ Len(q) + 1 \in DOMAIN Append(q, <<"begin", n>>)
      /\ Append(q, <<"begin", n>>)[Len(q) + 1] = <<"begin", n>>
  BY <1>1, <1>2, AppendFacts
<1>5. i <= Len(q) + 1
  BY <1>3
<1>. QED
  BY <1>4, <1>5 DEF Precedes

LEMMA PrecedesItself ==
  ASSUME NEW q \in Seq(Entries), NEW n \in Runs
  PROVE  Precedes(Append(q, <<"begin", n>>), n, n)
<1>1. <<"begin", n>> \in Entries /\ Len(q) \in Nat
  BY LenProperties DEF Entries, RunOps
<1>. QED
  BY <1>1, AppendFacts DEF Precedes

(* The mutations of the stops that are released together.                   *)
LEMMA StopsAreSound ==
  ASSUME NEW S \in SUBSET Controls, NEW stops \in SetToSeqs(S), NEW ex, NEW ct, NEW kd,
         \A c \in S : ct[c] = "storing" /\ kd[c] = "stop"
  PROVE  LET s == [i \in DOMAIN stops |-> <<"stop", stops[i]>>]
         IN  /\ Sound(s, ex, ct, kd)
             /\ \A i \in DOMAIN s : s[i][1] = "stop" /\ s[i][2] \in S
<1>1. IsFiniteSet(S) /\ Cardinality(S) \in Nat
  BY NumberAssumption, FS_Subset, FS_CardinalityType
<1>2. /\ stops \in [1..Cardinality(S) -> S]
      /\ \A i, j \in 1..Cardinality(S) : i # j => stops[i] # stops[j]
  BY DEF SetToSeqs
<1>. DEFINE s == [i \in DOMAIN stops |-> <<"stop", stops[i]>>]
<1>3. /\ s \in [1..Cardinality(S) -> Entries]
      /\ \A i \in DOMAIN s : s[i] = <<"stop", stops[i]>> /\ stops[i] \in S
      /\ DOMAIN s = 1..Cardinality(S)
  BY <1>2 DEF Entries, ControlOps
<1>4. s \in Seq(Entries)
  BY <1>1, <1>3, SeqDef
<1>. HIDE DEF s
<1>5. \A i \in DOMAIN s : Fits(s[i], ex, ct, kd)
  BY <1>3 DEF Fits
<1>6. \A i, j \in DOMAIN s : s[i] = s[j] => i = j
  BY <1>2, <1>3
<1>7. Sound(s, ex, ct, kd) /\ \A i \in DOMAIN s : s[i][1] = "stop" /\ s[i][2] \in S
  BY <1>3, <1>4, <1>5, <1>6 DEF Sound
<1>. QED
  BY <1>7 DEF s

LEMMA TypesSuffice == Types /\ Registered /\ Queued => TypeOK
<1>. SUFFICES ASSUME Types, Registered, Queued PROVE TypeOK
  OBVIOUS
<1>1. ASSUME NEW i \in DOMAIN queue
      PROVE  LET id == queue[i][2]
             IN  CASE queue[i][1] = "send" -> id \in Runs /\ exec[id] = "sending"
                   [] queue[i][1] = "begin" -> id \in Runs /\ exec[id] = "begin"
                   [] queue[i][1] = "finish" ->
                        id \in Runs /\ exec[id] \in {"completing", "failing", "cancelling"}
                   [] queue[i][1] \in {"stop", "start", "delete"} ->
                        id \in Controls /\ control[id] = "storing" /\ kind[id] = queue[i][1]
  <2>1. queue[i] \in Entries /\ Fits(queue[i], exec, control, kind)
    BY ElementOfSeq, LenProperties DEF Queued, Sound
  <2>2. PICK op, id : /\ queue[i] = <<op, id>>
                      /\ (op \in RunOps /\ id \in Runs) \/ (op \in ControlOps /\ id \in Controls)
    BY <2>1 DEF Entries
  <2>3. queue[i][1] = op /\ queue[i][2] = id
    BY <2>2
  <2>4. /\ op = "send" => exec[id] = "sending"
        /\ op = "begin" => exec[id] = "begin"
        /\ op = "finish" => exec[id] \in Closing
        /\ op \in ControlOps => control[id] = "storing" /\ kind[id] = op
    BY <2>1, <2>3 DEF Fits
  <2>. QED
    BY <2>2, <2>3, <2>4 DEF RunOps, ControlOps, Closing
<1>. QED
  BY <1>1 DEF TypeOK, Types, Registered

(* A mutation at the head of the queue, and those behind it.                *)
LEMMA RunWrites ==
  ASSUME Queued, NEW op \in RunOps, NEW r, Writes(op, r)
  PROVE  /\ r \in Runs /\ queue # <<>> /\ Head(queue) = <<op, r>>
         /\ op = "send" => exec[r] = "sending"
         /\ op = "begin" => exec[r] = "begin"
         /\ op = "finish" => exec[r] \in Closing
         /\ Sound(Tail(queue), exec, control, kind)
         /\ \A i \in DOMAIN Tail(queue) :
              Tail(queue)[i][1] \in RunOps => Tail(queue)[i][2] # r
<1>1. queue # <<>> /\ Head(queue) = <<op, r>>
  BY DEF Writes
<1>2. /\ Sound(Tail(queue), exec, control, kind)
      /\ Head(queue) \in Entries /\ Fits(Head(queue), exec, control, kind)
      /\ \A i \in DOMAIN Tail(queue) : /\ Tail(queue)[i] \in Entries
                                       /\ Tail(queue)[i] # Head(queue)
  BY <1>1, SoundTail DEF Queued
<1>3. r \in Runs
  BY <1>1, <1>2 DEF Entries, RunOps, ControlOps
<1>4. /\ op = "send" => exec[r] = "sending"
      /\ op = "begin" => exec[r] = "begin"
      /\ op = "finish" => exec[r] \in Closing
  BY <1>1, <1>2 DEF Fits
<1>5. ASSUME NEW i \in DOMAIN Tail(queue), Tail(queue)[i][1] \in RunOps,
             Tail(queue)[i][2] = r
      PROVE  FALSE
  <2>1. Fits(Tail(queue)[i], exec, control, kind)
    BY <1>2 DEF Sound
  <2>2. Tail(queue)[i][1] = op
    BY <2>1, <1>4, <1>5 DEF Fits, RunOps, Closing
  <2>3. Tail(queue)[i] = <<Tail(queue)[i][1], Tail(queue)[i][2]>>
    BY <1>2 DEF Entries
  <2>. QED
    BY <2>2, <2>3, <1>1, <1>2, <1>5
<1>. QED
  BY <1>1, <1>2, <1>3, <1>4, <1>5

LEMMA ControlWrites ==
  ASSUME Queued, NEW op \in ControlOps, NEW c, Writes(op, c)
  PROVE  /\ c \in Controls /\ queue # <<>> /\ Head(queue) = <<op, c>>
         /\ control[c] = "storing" /\ kind[c] = op
         /\ Sound(Tail(queue), exec, control, kind)
         /\ \A i \in DOMAIN Tail(queue) :
              Tail(queue)[i][1] \in ControlOps => Tail(queue)[i][2] # c
<1>1. queue # <<>> /\ Head(queue) = <<op, c>>
  BY DEF Writes
<1>2. /\ Sound(Tail(queue), exec, control, kind)
      /\ Head(queue) \in Entries /\ Fits(Head(queue), exec, control, kind)
      /\ \A i \in DOMAIN Tail(queue) : /\ Tail(queue)[i] \in Entries
                                       /\ Tail(queue)[i] # Head(queue)
  BY <1>1, SoundTail DEF Queued
<1>3. c \in Controls
  BY <1>1, <1>2 DEF Entries, RunOps, ControlOps
<1>4. control[c] = "storing" /\ kind[c] = op
  BY <1>1, <1>2 DEF Fits
<1>5. ASSUME NEW i \in DOMAIN Tail(queue), Tail(queue)[i][1] \in ControlOps,
             Tail(queue)[i][2] = c
      PROVE  FALSE
  <2>1. Fits(Tail(queue)[i], exec, control, kind)
    BY <1>2 DEF Sound
  <2>2. Tail(queue)[i][1] = op
    BY <2>1, <1>4, <1>5 DEF Fits
  <2>3. Tail(queue)[i] = <<Tail(queue)[i][1], Tail(queue)[i][2]>>
    BY <1>2 DEF Entries
  <2>. QED
    BY <2>2, <2>3, <1>1, <1>2, <1>5
<1>. QED
  BY <1>1, <1>2, <1>3, <1>4, <1>5

LEMMA ReleaseSound ==
  ASSUME Types, NEW W \in SUBSET Controls, NEW rest, Sound(rest, exec', control, kind'),
         \A c \in W : control[c] # "storing", Release(W, rest)
  PROVE  /\ Queued' /\ rest \in Seq(Entries)
         /\ \E s \in Seq(Entries) : queue' = rest \o s
<1>1. PICK stops \in SetToSeqs({c \in W : kind'[c] = "stop"}) :
        queue' = rest \o [i \in DOMAIN stops |-> <<"stop", stops[i]>>]
  BY DEF Release
<1>2. control' = [c \in Controls |->
                    IF c \notin W THEN control[c]
                    ELSE IF kind'[c] = "stop" THEN "storing" ELSE "archiving"]
  BY DEF Release
<1>3. rest \in Seq(Entries) /\ \A i \in DOMAIN rest : rest[i] \in Entries
  BY ElementOfSeq, LenProperties DEF Sound
<1>4. \A i \in DOMAIN rest : \A c \in W : rest[i][1] \in ControlOps => rest[i][2] # c
  BY NoEntryOfControl
<1>5. \A i \in DOMAIN rest :
        rest[i][1] \in ControlOps => control'[rest[i][2]] = control[rest[i][2]]
  <2>. SUFFICES ASSUME NEW i \in DOMAIN rest, rest[i][1] \in ControlOps
               PROVE  control'[rest[i][2]] = control[rest[i][2]]
    OBVIOUS
  <2>1. rest[i][2] \in Controls
    BY <1>3 DEF Entries, RunOps, ControlOps
  <2>. QED
    BY <2>1, <1>2, <1>4
<1>6. Sound(rest, exec', control', kind')
  BY <1>5, SoundUnder
<1>. DEFINE s == [i \in DOMAIN stops |-> <<"stop", stops[i]>>]
<1>7. /\ Sound(s, exec', control', kind')
      /\ \A i \in DOMAIN s : s[i][1] = "stop" /\ s[i][2] \in {c \in W : kind'[c] = "stop"}
  BY <1>2, StopsAreSound
<1>. HIDE DEF s
<1>8. \A i \in DOMAIN rest : \A j \in DOMAIN s : rest[i] # s[j]
  BY <1>4, <1>7 DEF ControlOps
<1>9. Sound(rest \o s, exec', control', kind')
  BY <1>6, <1>7, <1>8, SoundConcat
<1>10. queue' = rest \o s /\ s \in Seq(Entries)
  BY <1>1, <1>7 DEF s, Sound
<1>. QED
  BY <1>3, <1>9, <1>10 DEF Queued

LEMMA RunMoves ==
  ASSUME NEW q, Sound(q, exec, control, kind), NEW r,
         \A i \in DOMAIN q : q[i][1] \in RunOps => q[i][2] # r,
         \A x \in Runs : x # r => exec'[x] = exec[x]
  PROVE  Sound(q, exec', control, kind)
<1>1. \A i \in DOMAIN q : q[i] \in Entries
  BY ElementOfSeq, LenProperties DEF Sound
<1>2. \A i \in DOMAIN q : q[i][1] \in RunOps => q[i][2] \in Runs
  BY <1>1 DEF Entries, RunOps, ControlOps
<1>. QED
  BY <1>2, SoundUnder

LEMMA ControlsMove ==
  ASSUME NEW q, NEW ex, Sound(q, ex, control, kind), NEW W,
         \A i \in DOMAIN q : q[i][1] \in ControlOps => q[i][2] \notin W,
         \A x \in Controls : x \notin W => control'[x] = control[x] /\ kind'[x] = kind[x]
  PROVE  Sound(q, ex, control', kind')
<1>1. \A i \in DOMAIN q : q[i] \in Entries
  BY ElementOfSeq, LenProperties DEF Sound
<1>2. \A i \in DOMAIN q : q[i][1] \in ControlOps => q[i][2] \in Controls
  BY <1>1 DEF Entries, RunOps, ControlOps
<1>. QED
  BY <1>2, SoundUnder

LEMMA QueuedBySend ==
  ASSUME Types, Queued, NEW r \in Runs, SendMessage(r)
  PROVE  Queued'
<1>1. /\ exec[r] = "none" /\ exec' = [exec EXCEPT ![r] = "sending"]
      /\ queue' = Append(queue, <<"send", r>>) /\ control' = control /\ kind' = kind
  BY DEF SendMessage, controlVars, requestVars
<1>2. \A i \in DOMAIN queue : queue[i][1] \in RunOps => queue[i][2] # r
  BY <1>1, NoEntryOfRun DEF Queued, Closing
<1>3. Sound(queue, exec', control', kind')
  BY <1>1, <1>2, RunMoves DEF Queued, Types
<1>4. /\ <<"send", r>> \in Entries /\ Fits(<<"send", r>>, exec', control', kind')
      /\ \A i \in DOMAIN queue : queue[i] # <<"send", r>>
  <2>1. <<"send", r>> \in Entries
    BY DEF Entries, RunOps
  <2>2. exec'[r] = "sending"
    BY <1>1 DEF Types
  <2>3. Fits(<<"send", r>>, exec', control', kind')
    BY <2>2 DEF Fits, ControlOps
  <2>4. \A i \in DOMAIN queue : queue[i] # <<"send", r>>
    BY <1>2 DEF RunOps
  <2>. QED
    BY <2>1, <2>3, <2>4
<1>. QED
  BY <1>1, <1>3, <1>4, SoundAppend DEF Queued

LEMMA QueuedByCancel ==
  ASSUME Types, Queued, NEW c \in Controls, NEW k \in {"stop", "delete"}, RequestCancel(c, k)
  PROVE  /\ Queued'
         /\ queue' = queue \/ \E s \in Seq(Entries) : queue' = queue \o s
<1>1. control[c] = "idle" /\ kind' = [kind EXCEPT ![c] = k] /\ exec' = exec /\ Cancel(c)
  BY DEF RequestCancel, Arrives
<1>2. \A i \in DOMAIN queue : queue[i][1] \in ControlOps => queue[i][2] \notin {c}
  BY <1>1, NoEntryOfControl DEF Queued
<1>3. CASE \E place, r : Wait({c}, place, r) /\ queue' = queue
  <2>1. \A x \in Controls : x \notin {c} => control'[x] = control[x] /\ kind'[x] = kind[x]
    BY <1>1, <1>3 DEF Wait, Types
  <2>. QED
    BY <1>1, <1>2, <1>3, <2>1, ControlsMove DEF Queued
<1>4. CASE Release({c}, queue)
  <2>1. \A i \in DOMAIN queue :
          queue[i][1] \in ControlOps => kind'[queue[i][2]] = kind[queue[i][2]]
    BY <1>1, <1>2 DEF Types
  <2>2. Sound(queue, exec', control, kind')
    <3>1. /\ Sound(queue, exec, control, kind)
          /\ \A i \in DOMAIN queue :
               queue[i][1] \in RunOps => exec'[queue[i][2]] = exec[queue[i][2]]
          /\ \A i \in DOMAIN queue : queue[i][1] \in ControlOps =>
               /\ control[queue[i][2]] = control[queue[i][2]]
               /\ kind'[queue[i][2]] = kind[queue[i][2]]
      BY <1>1, <2>1 DEF Queued
    <3>. HIDE DEF ControlOps, RunOps
    <3>. QED
      BY <3>1, SoundUnder
  <2>. QED
    BY <1>1, <1>4, <2>2, ReleaseSound
<1>. QED
  BY <1>1, <1>3, <1>4 DEF Cancel

LEMMA QueuedByStart ==
  ASSUME Types, Queued, NEW c \in Controls, RequestStart(c)
  PROVE  Queued'
<1>1. /\ control[c] = "idle" /\ exec' = exec
      /\ control' = [control EXCEPT ![c] = "storing"] /\ kind' = [kind EXCEPT ![c] = "start"]
      /\ queue' = Append(queue, <<"start", c>>)
  BY DEF RequestStart, Arrives
<1>2. \A i \in DOMAIN queue : queue[i][1] \in ControlOps => queue[i][2] \notin {c}
  BY <1>1, NoEntryOfControl DEF Queued
<1>3. Sound(queue, exec', control', kind')
  BY <1>1, <1>2, ControlsMove DEF Queued, Types
<1>4. /\ <<"start", c>> \in Entries /\ Fits(<<"start", c>>, exec', control', kind')
      /\ \A i \in DOMAIN queue : queue[i] # <<"start", c>>
  BY <1>1, <1>2 DEF Entries, ControlOps, Fits, Types
<1>. QED
  BY <1>1, <1>3, <1>4, SoundAppend DEF Queued

LEMMA QueuedByArchive ==
  ASSUME Types, Queued, Asked, NEW c \in Controls, Archive(c)
  PROVE  /\ Queued'
         /\ queue' = queue \/ queue' = Append(queue, <<"delete", c>>)
<1>1. control[c] = "archiving" /\ exec' = exec /\ kind' = kind /\ kind[c] = "delete"
  BY DEF Archive, requestVars, Asked, AskedOf
<1>2. \A i \in DOMAIN queue : queue[i][1] \in ControlOps => queue[i][2] \notin {c}
  BY <1>1, NoEntryOfControl DEF Queued
<1>3. \A x \in Controls : x \notin {c} => control'[x] = control[x] /\ kind'[x] = kind[x]
  BY <1>1 DEF Archive, Types
<1>4. Sound(queue, exec', control', kind')
  BY <1>1, <1>2, <1>3, ControlsMove DEF Queued
<1>5. CASE workspace = "present"
  <2>1. queue' = Append(queue, <<"delete", c>>) /\ control'[c] = "storing"
    BY <1>5 DEF Archive, Types
  <2>2. /\ <<"delete", c>> \in Entries /\ Fits(<<"delete", c>>, exec', control', kind')
        /\ \A i \in DOMAIN queue : queue[i] # <<"delete", c>>
    BY <1>1, <1>2, <2>1 DEF Entries, ControlOps, Fits
  <2>. QED
    BY <1>4, <2>1, <2>2, SoundAppend DEF Queued
<1>6. CASE workspace # "present"
  BY <1>4, <1>6 DEF Archive, Queued
<1>. QED
  BY <1>5, <1>6

LEMMA QueuedByWriteSend ==
  ASSUME Types, Queued, NEW r \in Runs, WriteSend(r)
  PROVE  Queued'
<1>1. Writes("send", r) /\ control' = control /\ kind' = kind
  BY DEF WriteSend, controlVars, requestVars
<1>2. /\ Sound(Tail(queue), exec, control, kind)
      /\ \A i \in DOMAIN Tail(queue) : Tail(queue)[i][1] \in RunOps => Tail(queue)[i][2] # r
  BY <1>1, RunWrites DEF RunOps
<1>3. \A x \in Runs : x # r => exec'[x] = exec[x]
  BY DEF WriteSend, Types
<1>4. Sound(Tail(queue), exec', control', kind')
  BY <1>1, <1>2, <1>3, RunMoves
<1>5. CASE Accepts
  <2>1. exec'[r] = "begin" /\ queue' = Append(Tail(queue), <<"begin", r>>)
    BY <1>5 DEF WriteSend, Types
  <2>2. /\ <<"begin", r>> \in Entries /\ Fits(<<"begin", r>>, exec', control', kind')
        /\ \A i \in DOMAIN Tail(queue) : Tail(queue)[i] # <<"begin", r>>
    BY <1>2, <2>1 DEF Entries, RunOps, Fits, ControlOps
  <2>. QED
    BY <1>4, <2>1, <2>2, SoundAppend DEF Queued
<1>6. CASE ~Accepts
  BY <1>4, <1>6 DEF WriteSend, Queued
<1>. QED
  BY <1>5, <1>6

(* A run that goes on to its last mutation.                                 *)
LEMMA QueuedByAnEnd ==
  ASSUME Types, NEW q, Sound(q, exec, control, kind), NEW r \in Runs, NEW as \in Closing,
         \A i \in DOMAIN q : q[i][1] \in RunOps => q[i][2] # r,
         Finish(r, as, q)
  PROVE  Sound(queue', exec', control, kind)
<1>1. exec' = [exec EXCEPT ![r] = as] /\ queue' = Append(q, <<"finish", r>>)
  BY DEF Finish
<1>2. Sound(q, exec', control, kind)
  BY <1>1, RunMoves DEF Types
<1>3. exec'[r] \in Closing
  BY <1>1 DEF Types
<1>4. /\ <<"finish", r>> \in Entries /\ Fits(<<"finish", r>>, exec', control, kind)
      /\ \A i \in DOMAIN q : q[i] # <<"finish", r>>
  BY <1>3 DEF Entries, RunOps, Fits, ControlOps
<1>. QED
  BY <1>1, <1>2, <1>4, SoundAppend

LEMMA QueuedByWriteBegin ==
  ASSUME Types, Queued, NEW r \in Runs, WriteBegin(r)
  PROVE  Queued'
<1>1. Writes("begin", r) /\ control' = control /\ kind' = kind /\ Invoke(r)
  BY DEF WriteBegin, controlVars, requestVars
<1>2. /\ Sound(Tail(queue), exec, control, kind)
      /\ \A i \in DOMAIN Tail(queue) : Tail(queue)[i][1] \in RunOps => Tail(queue)[i][2] # r
  BY <1>1, RunWrites DEF RunOps
<1>3. CASE \E as \in Closing : Finish(r, as, Tail(queue))
  BY <1>1, <1>2, <1>3, QueuedByAnEnd DEF Queued
<1>4. CASE Spawn(r)
  <2>1. \A x \in Runs : x # r => exec'[x] = exec[x]
    BY <1>4 DEF Spawn, Types
  <2>2. Sound(Tail(queue), exec', control, kind)
    BY <1>2, <2>1, RunMoves
  <2>. QED
    BY <1>1, <1>4, <2>2 DEF Spawn, Queued
<1>. QED
  BY <1>1, <1>3, <1>4 DEF Invoke, Closing

LEMMA QueuedByWriteFinish ==
  ASSUME Types, Queued, NEW r \in Runs, WriteFinish(r)
  PROVE  /\ Queued'
         /\ \E s \in Seq(Entries) : queue' = Tail(queue) \o s
<1>1. /\ Writes("finish", r) /\ kind' = kind /\ exec' = [exec EXCEPT ![r] = "ended"]
      /\ Release(Waiting("awaiting", r), Tail(queue))
  BY DEF WriteFinish
<1>2. /\ Sound(Tail(queue), exec, control, kind)
      /\ \A i \in DOMAIN Tail(queue) : Tail(queue)[i][1] \in RunOps => Tail(queue)[i][2] # r
  BY <1>1, RunWrites DEF RunOps
<1>3. Sound(Tail(queue), exec', control, kind')
  BY <1>1, <1>2, RunMoves DEF Types
<1>4. /\ Waiting("awaiting", r) \in SUBSET Controls
      /\ \A c \in Waiting("awaiting", r) : control[c] # "storing"
  BY DEF Waiting
<1>. QED
  BY <1>1, <1>3, <1>4, ReleaseSound

LEMMA QueuedByWriteControl ==
  ASSUME Types, Queued, NEW c \in Controls, WriteControl(c)
  PROVE  /\ Queued' /\ \E op \in ControlOps : Writes(op, c)
<1>1. PICK op \in ControlOps : Writes(op, c)
  BY DEF WriteControl, ControlOps
<1>2. /\ Sound(Tail(queue), exec, control, kind)
      /\ \A i \in DOMAIN Tail(queue) :
           Tail(queue)[i][1] \in ControlOps => Tail(queue)[i][2] \notin {c}
  BY <1>1, ControlWrites
<1>3. queue' = Tail(queue) /\ exec' = exec /\ kind' = kind
  BY DEF WriteControl, requestVars
<1>4. \A x \in Controls : x \notin {c} => control'[x] = control[x] /\ kind'[x] = kind[x]
  BY <1>3 DEF WriteControl, Types
<1>. QED
  BY <1>1, <1>2, <1>3, <1>4, ControlsMove DEF Queued

(* What a failing write does, by the mutation it fails.                     *)
LEMMA FailureCases ==
  ASSUME Types, Queued, WriteFails
  PROVE  \/ \E id \in Runs : /\ Writes("send", id)
                             /\ exec' = [exec EXCEPT ![id] = "refused"]
                             /\ queue' = Tail(queue)
                             /\ UNCHANGED <<latest, controlVars, earlier>>
         \/ \E id \in Runs : /\ Writes("finish", id) /\ exec[id] = "completing"
                             /\ Finish(id, "failing", Tail(queue))
                             /\ UNCHANGED <<latest, controlVars, earlier>>
         \/ \E id \in Runs : /\ \/ Writes("begin", id)
                                \/ Writes("finish", id) /\ exec[id] # "completing"
                             /\ Reject(id)
         \/ \E id \in Controls : /\ \E op \in ControlOps : Writes(op, id)
                                 /\ control' = [control EXCEPT ![id] = "failed"]
                                 /\ queue' = Tail(queue)
                                 /\ UNCHANGED <<exec, latest, cancelling, target, earlier>>
<1>1. queue # <<>> /\ up
  BY DEF WriteFails
<1>2. Head(queue) \in Entries
  BY <1>1, SoundTail DEF Queued
<1>3. PICK op, id : /\ Head(queue) = <<op, id>>
                    /\ (op \in RunOps /\ id \in Runs) \/ (op \in ControlOps /\ id \in Controls)
  BY <1>2 DEF Entries
<1>4. Head(queue)[1] = op /\ Head(queue)[2] = id /\ Writes(op, id)
  BY <1>1, <1>3 DEF Writes
<1>. QED
  BY <1>3, <1>4 DEF WriteFails, RunOps, ControlOps

LEMMA QueuedByFailure ==
  ASSUME Types, Queued, WriteFails
  PROVE  Queued'
<1>0. kind' = kind
  BY DEF WriteFails
<1>1. ASSUME NEW id \in Runs, NEW op \in RunOps, Writes(op, id)
      PROVE  /\ Sound(Tail(queue), exec, control, kind)
             /\ \A i \in DOMAIN Tail(queue) :
                  Tail(queue)[i][1] \in RunOps => Tail(queue)[i][2] # id
  BY <1>1, RunWrites
<1>2. ASSUME NEW id \in Runs, Writes("send", id), exec' = [exec EXCEPT ![id] = "refused"],
             queue' = Tail(queue), UNCHANGED <<latest, controlVars, earlier>>
      PROVE  Queued'
  <2>1. Sound(Tail(queue), exec', control, kind)
    BY <1>1, <1>2, RunMoves DEF Types, RunOps
  <2>. QED
    BY <1>0, <1>2, <2>1 DEF Queued, controlVars
<1>3. ASSUME NEW id \in Runs, Writes("finish", id), Finish(id, "failing", Tail(queue)),
             UNCHANGED <<latest, controlVars, earlier>>
      PROVE  Queued'
  <2>1. Sound(queue', exec', control, kind)
    BY <1>1, <1>3, QueuedByAnEnd DEF RunOps, Closing
  <2>. QED
    BY <1>0, <1>3, <2>1 DEF Queued, controlVars
<1>4. ASSUME NEW id \in Runs, Writes("begin", id) \/ Writes("finish", id), Reject(id)
      PROVE  Queued'
  <2>1. Sound(Tail(queue), exec', control, kind)
    BY <1>1, <1>4, RunMoves DEF Types, RunOps, Reject
  <2>2. \A i \in DOMAIN Tail(queue) : Tail(queue)[i][1] \in ControlOps =>
                                        Tail(queue)[i][2] \notin Waiting("awaiting", id)
    BY <2>1, NoEntryOfControl DEF Waiting
  <2>3. \A x \in Controls : x \notin Waiting("awaiting", id) =>
                              control'[x] = control[x] /\ kind'[x] = kind[x]
    BY <1>0, <1>4 DEF Reject, ReleaseFailed, Types
  <2>. QED
    BY <1>4, <2>1, <2>2, <2>3, ControlsMove DEF Queued, Reject
<1>5. ASSUME NEW id \in Controls, NEW op \in ControlOps, Writes(op, id),
             control' = [control EXCEPT ![id] = "failed"], queue' = Tail(queue), exec' = exec
      PROVE  Queued'
  <2>1. /\ Sound(Tail(queue), exec, control, kind)
        /\ \A i \in DOMAIN Tail(queue) :
             Tail(queue)[i][1] \in ControlOps => Tail(queue)[i][2] \notin {id}
    BY <1>5, ControlWrites
  <2>2. \A x \in Controls : x \notin {id} => control'[x] = control[x] /\ kind'[x] = kind[x]
    BY <1>0, <1>5 DEF Types
  <2>. QED
    BY <1>5, <2>1, <2>2, ControlsMove DEF Queued
<1>. QED
  BY <1>2, <1>3, <1>4, <1>5, FailureCases

LEMMA QueuedByClose ==
  ASSUME Types, Queued, Supervised, NEW r \in Runs, ChildCloses(r)
  PROVE  /\ Queued'
         /\ \/ queue' = Append(queue, <<"finish", r>>)
            \/ \E s \in Seq(Entries) : queue' = Append(queue, <<"finish", r>>) \o s
<1>1. /\ exec[r] = "child" /\ kind' = kind
      /\ \E outcome \in Outcomes(r) : exec' = [exec EXCEPT ![r] = outcome]
  BY DEF ChildCloses, Supervised, requestVars
<1>2. PICK outcome \in Closing : exec' = [exec EXCEPT ![r] = outcome]
  BY <1>1 DEF Outcomes, Closing
<1>. DEFINE rest == Append(queue, <<"finish", r>>)
            W == Waiting("settling", r)
<1>3. \A i \in DOMAIN queue : queue[i][1] \in RunOps => queue[i][2] # r
  BY <1>1, NoEntryOfRun DEF Queued, Closing
<1>4. Sound(queue, exec', control, kind')
  BY <1>1, <1>2, <1>3, RunMoves DEF Queued, Types
<1>5. /\ <<"finish", r>> \in Entries /\ Fits(<<"finish", r>>, exec', control, kind')
      /\ \A i \in DOMAIN queue : queue[i] # <<"finish", r>>
  BY <1>2, <1>3 DEF Entries, RunOps, Fits, ControlOps, Types
<1>6. Sound(rest, exec', control, kind')
  BY <1>4, <1>5, SoundAppend
<1>7. W \in SUBSET Controls /\ \A c \in W : control[c] # "storing"
  BY DEF Waiting
<1>8. CASE latest = None
  <2>1. Release(W, rest)
    BY <1>8 DEF ChildCloses
  <2>. QED
    BY <1>6, <1>7, <2>1, ReleaseSound
<1>9. CASE latest # None
  <2>1. Wait(W, "awaiting", latest) /\ queue' = rest
    BY <1>9 DEF ChildCloses
  <2>2. \A i \in DOMAIN rest : rest[i][1] \in ControlOps => rest[i][2] \notin W
    BY <1>6, <1>7, NoEntryOfControl
  <2>3. \A x \in Controls : x \notin W => control'[x] = control[x] /\ kind'[x] = kind[x]
    BY <1>1, <2>1 DEF Wait
  <2>4. Sound(rest, exec', control, kind)
    BY <1>1, <1>6
  <2>5. Sound(rest, exec', control', kind')
    BY <2>2, <2>3, <2>4, ControlsMove
  <2>. QED
    BY <2>1, <2>5 DEF Queued
<1>. QED
  BY <1>8, <1>9

LEMMA QueuedStep ==
  Types /\ Queued /\ Supervised /\ Asked /\ [Next]_vars => Queued'
<1>. SUFFICES ASSUME Types, Queued, Supervised, Asked, [Next]_vars PROVE Queued'
  OBVIOUS
<1>1. CASE Crash
  BY <1>1, EmptySeq, LenProperties DEF Crash, Queued, Sound
<1>2. CASE UNCHANGED <<queue, exec, control, kind>>
  BY <1>2 DEF Queued
<1>3. CASE WriteFails
  BY <1>3, QueuedByFailure
<1>. QED
  BY <1>1, <1>2, <1>3, QueuedBySend, QueuedByCancel, QueuedByStart, QueuedByArchive,
     QueuedByWriteSend, QueuedByWriteBegin, QueuedByWriteFinish, QueuedByWriteControl,
     QueuedByClose
     DEF Next, Write, Restart, Expire, vars, requestVars, controlVars
-----------------------------------------------------------------------------
(* Types.                                                                   *)

LEMMA ReleaseTypes ==
  ASSUME Types, NEW W \in SUBSET Controls, NEW rest, Release(W, rest)
  PROVE  /\ control' \in [Controls -> {"idle", "settling", "awaiting", "archiving", "storing",
                                       "done", "failed"}]
         /\ target' \in [Controls -> Runs \cup {None}]
         /\ cancelling' \in BOOLEAN
BY DEF Types, Release

LEMMA WaitTypes ==
  ASSUME Types, NEW W \in SUBSET Controls, NEW place \in {"settling", "awaiting"},
         NEW r \in Runs, Wait(W, place, r)
  PROVE  /\ control' \in [Controls -> {"idle", "settling", "awaiting", "archiving", "storing",
                                       "done", "failed"}]
         /\ target' \in [Controls -> Runs \cup {None}]
BY DEF Types, Wait

LEMMA CancelTypes ==
  ASSUME Types, Registered, NEW c \in Controls, Cancel(c)
  PROVE  /\ control' \in [Controls -> {"idle", "settling", "awaiting", "archiving", "storing",
                                       "done", "failed"}]
         /\ target' \in [Controls -> Runs \cup {None}]
         /\ cancelling' \in BOOLEAN
         /\ child' \in [Runs -> {"none", "alive", "terminated", "stillborn", "closed", "orphan"}]
         /\ cancelled' \subseteq Runs /\ expired' = expired
<1>1. CASE active # None
  <2>1. active \in Runs /\ Wait({c}, "settling", active) /\ Terminate(active)
    BY <1>1 DEF Cancel, Registered
  <2>2. child' \in [Runs -> {"none", "alive", "terminated", "stillborn", "closed", "orphan"}]
    BY <2>1 DEF Terminate, Types
  <2>3. cancelling' = TRUE /\ cancelled' = cancelled \cup {active} /\ expired' = expired
    BY <1>1 DEF Cancel
  <2>. QED
    BY <2>1, <2>2, <2>3, WaitTypes DEF Types
<1>2. CASE active = None
  <2>1. UNCHANGED runnerVars
    BY <1>2 DEF Cancel
  <2>2. CASE latest = None
    BY <1>2, <2>1, <2>2, ReleaseTypes DEF Cancel, runnerVars, Types
  <2>3. CASE latest # None
    BY <1>2, <2>1, <2>3, WaitTypes DEF Cancel, runnerVars, Types, Registered
  <2>. QED
    BY <2>2, <2>3
<1>. QED
  BY <1>1, <1>2

LEMMA ForsakeTypes ==
  ASSUME Types, NEW W, Forsake(W)
  PROVE  earlier' \in [Controls -> SUBSET Runs]
BY DEF Types, Forsake

LEMMA TypesStep == Types /\ Registered /\ Queued /\ [Next]_vars => Types'
<1>. SUFFICES ASSUME Types, Registered, Queued, [Next]_vars PROVE Types'
  OBVIOUS
<1>. USE DEF storeVars, runnerVars, controlVars, requestVars, boundVars
<1>1. ASSUME NEW r \in Runs, SendMessage(r) PROVE Types'
  BY <1>1 DEF SendMessage, Types
<1>2. ASSUME NEW c \in Controls, NEW k \in {"stop", "delete"}, RequestCancel(c, k) PROVE Types'
  <2>1. Cancel(c) /\ {r \in Runs : Executing(r)} \in SUBSET Runs
    BY <1>2 DEF RequestCancel
  <2>. QED
    BY <1>2, <2>1, CancelTypes DEF RequestCancel, Types
<1>3. ASSUME NEW c \in Controls, RequestStart(c) PROVE Types'
  BY <1>3 DEF RequestStart, Types
<1>4. ASSUME NEW c \in Controls, Archive(c) PROVE Types'
  BY <1>4 DEF Archive, Types
<1>5. ASSUME NEW r \in Runs, WriteSend(r) PROVE Types'
  BY <1>5 DEF WriteSend, Types
<1>6. ASSUME NEW r \in Runs, WriteBegin(r) PROVE Types'
  BY <1>6 DEF WriteBegin, Invoke, Finish, Spawn, Types
<1>7. ASSUME NEW r \in Runs, WriteFinish(r) PROVE Types'
  <2>1. /\ Release(Waiting("awaiting", r), Tail(queue)) /\ Forsake(Waiting("awaiting", r))
        /\ Waiting("awaiting", r) \in SUBSET Controls
    BY <1>7 DEF WriteFinish, Waiting
  <2>2. Writes("finish", r) /\ exec[r] \in Closing
    BY <1>7, RunWrites DEF WriteFinish, RunOps
  <2>3. FinalStatus(r) \in {"completed", "cancelled", "failed"}
    BY <2>2 DEF FinalStatus, Closing
  <2>4. AgentAfter(r) \in {"ready", "busy", "stopped", "error", "deleted"}
    BY DEF AgentAfter, Types
  <2>. QED
    BY <1>7, <2>1, <2>3, <2>4, ReleaseTypes, ForsakeTypes DEF WriteFinish, Types
<1>8. ASSUME NEW c \in Controls, WriteControl(c) PROVE Types'
  BY <1>8 DEF WriteControl, Types
<1>9. CASE WriteFails
  <2>1. /\ UNCHANGED <<up, storeVars, workspace, runnerVars, kind, crashes>>
        /\ faults + crashes < MaxMishaps /\ faults' = faults + 1
    BY <1>9 DEF WriteFails
  <2>2. faults' \in Nat /\ crashes' \in Nat /\ faults' + crashes' <= MaxMishaps
    BY <2>1, BoundsAssumption DEF Types
  <2>3. ASSUME NEW id \in Runs, exec' = [exec EXCEPT ![id] = "refused"],
               UNCHANGED <<latest, controlVars, earlier>>
        PROVE  Types'
    BY <2>1, <2>2, <2>3 DEF Types
  <2>4. ASSUME NEW id \in Runs, Finish(id, "failing", Tail(queue)),
               UNCHANGED <<latest, controlVars, earlier>>
        PROVE  Types'
    BY <2>1, <2>2, <2>4 DEF Types, Finish
  <2>5. ASSUME NEW id \in Runs, Reject(id)
        PROVE  Types'
    <3>1. ReleaseFailed(Waiting("awaiting", id)) /\ Forsake(Waiting("awaiting", id))
      BY <2>5 DEF Reject
    <3>2. exec' = [exec EXCEPT ![id] = "rejected"]
      BY <2>5 DEF Reject
    <3>3. /\ control' \in [Controls -> {"idle", "settling", "awaiting", "archiving",
                                        "storing", "done", "failed"}]
          /\ target' \in [Controls -> Runs \cup {None}] /\ cancelling' \in BOOLEAN
      BY <3>1 DEF ReleaseFailed, Types
    <3>. QED
      BY <2>1, <2>2, <3>1, <3>2, <3>3, ForsakeTypes DEF Types
  <2>6. ASSUME NEW id \in Controls, control' = [control EXCEPT ![id] = "failed"],
               UNCHANGED <<exec, latest, cancelling, target, earlier>>
        PROVE  Types'
    BY <2>1, <2>2, <2>6 DEF Types
  <2>. QED
    BY <1>9, <2>3, <2>4, <2>5, <2>6, FailureCases
<1>10. ASSUME NEW r \in Runs, Expire(r) PROVE Types'
  BY <1>10 DEF Expire, Terminate, Types
<1>11. ASSUME NEW r \in Runs, ChildCloses(r) PROVE Types'
  <2>1. \E outcome \in Closing : exec' = [exec EXCEPT ![r] = outcome]
    BY <1>11 DEF ChildCloses, Outcomes, Closing
  <2>2. Waiting("settling", r) \in SUBSET Controls
    BY DEF Waiting
  <2>3. /\ control' \in [Controls -> {"idle", "settling", "awaiting", "archiving", "storing",
                                      "done", "failed"}]
        /\ target' \in [Controls -> Runs \cup {None}] /\ cancelling' \in BOOLEAN
    <3>1. CASE latest = None
      BY <1>11, <2>2, <3>1, ReleaseTypes DEF ChildCloses
    <3>2. CASE latest # None
      BY <1>11, <2>2, <3>2, WaitTypes DEF ChildCloses, Registered, Types
    <3>. QED
      BY <3>1, <3>2
  <2>4. exec' \in [Runs -> {"none", "sending", "refused", "begin", "child", "completing",
                            "failing", "cancelling", "ended", "rejected", "lost"}]
    BY <2>1 DEF Closing, Types
  <2>. QED
    BY <1>11, <2>3, <2>4 DEF ChildCloses, Types
<1>12. CASE Crash
  <2>1. crashes' \in Nat /\ faults' \in Nat /\ faults' + crashes' <= MaxMishaps
    BY <1>12, BoundsAssumption DEF Crash, Types
  <2>2. /\ exec' \in [Runs -> {"none", "sending", "refused", "begin", "child", "completing",
                               "failing", "cancelling", "ended", "rejected", "lost"}]
        /\ child' \in [Runs -> {"none", "alive", "terminated", "stillborn", "closed",
                                "orphan"}]
        /\ control' \in [Controls -> {"idle", "settling", "awaiting", "archiving",
                                      "storing", "done", "failed"}]
    BY <1>12 DEF Crash, Types
  <2>. QED
    BY <1>12, <2>1, <2>2 DEF Crash, Types
<1>13. CASE Restart
  BY <1>13 DEF Restart, Types
<1>14. CASE UNCHANGED vars
  BY <1>14 DEF vars, Types
<1>. QED
  BY <1>1, <1>2, <1>3, <1>4, <1>5, <1>6, <1>7, <1>8, <1>9, <1>10, <1>11, <1>12, <1>13, <1>14
     DEF Next, Write
-----------------------------------------------------------------------------
(* The runner.                                                              *)

LEMMA CancelKeepsProcesses ==
  ASSUME Types, Supervised, NEW c \in Controls, Cancel(c)
  PROVE  active' = active /\ \A r \in Runs : Alive(r)' <=> Alive(r)
BY DEF Cancel, Terminate, runnerVars, Alive, Types

LEMMA RunnerStep ==
  Types /\ Queued /\ Registered /\ Supervised /\ [Next]_vars => Registered' /\ Supervised'
<1>. SUFFICES ASSUME Types, Queued, Registered, Supervised, [Next]_vars
              PROVE  Registered' /\ Supervised'
  OBVIOUS
<1>. USE DEF storeVars, runnerVars, controlVars, requestVars, boundVars
<1>1. ASSUME NEW r \in Runs, SendMessage(r) PROVE Registered' /\ Supervised'
  BY <1>1 DEF SendMessage, Types, Registered, Supervised, Executing, Alive
<1>2. ASSUME NEW c \in Controls, NEW k \in {"stop", "delete"}, RequestCancel(c, k)
      PROVE  Registered' /\ Supervised'
  <2>1. /\ UNCHANGED <<exec, latest, active>>
        /\ \A r \in Runs : Alive(r)' <=> Alive(r)
    BY <1>2, CancelKeepsProcesses DEF RequestCancel
  <2>. QED
    BY <2>1 DEF Registered, Supervised, Executing
<1>3. ASSUME NEW r \in Runs, WriteSend(r) PROVE Registered' /\ Supervised'
  <2>1. exec[r] = "sending"
    BY <1>3, RunWrites DEF WriteSend, RunOps
  <2>. QED
    BY <1>3, <2>1 DEF WriteSend, Types, Registered, Supervised, Executing, Alive
<1>4. ASSUME NEW r \in Runs, WriteBegin(r) PROVE Registered' /\ Supervised'
  <2>1. exec[r] = "begin"
    BY <1>4, RunWrites DEF WriteBegin, RunOps
  <2>2. CASE \E as \in Closing : Finish(r, as, Tail(queue)) /\ UNCHANGED <<active, child>>
    <3>1. PICK as \in Closing : exec' = [exec EXCEPT ![r] = as]
      BY <2>2 DEF Finish
    <3>2. UNCHANGED <<latest, active, child>>
      BY <1>4, <2>2 DEF WriteBegin
    <3>. QED
      BY <2>1, <3>1, <3>2 DEF Closing, Types, Registered, Supervised, Executing, Alive
  <2>3. CASE Spawn(r) /\ active = None
    BY <1>4, <2>1, <2>3, NoneAssumption
       DEF WriteBegin, Spawn, Types, Registered, Supervised, Executing, Alive
  <2>. QED
    BY <1>4, <2>2, <2>3 DEF WriteBegin, Invoke, Closing
<1>5. ASSUME NEW r \in Runs, WriteFinish(r) PROVE Registered' /\ Supervised'
  <2>1. exec[r] \in Closing
    BY <1>5, RunWrites DEF WriteFinish, RunOps
  <2>. QED
    BY <1>5, <2>1
       DEF WriteFinish, Unregister, Closing, Types, Registered, Supervised, Executing, Alive
<1>6. CASE WriteFails
  <2>1. UNCHANGED <<active, child>>
    BY <1>6 DEF WriteFails
  <2>2. ASSUME NEW id \in Runs, exec[id] \in {"sending", "begin"} \cup Closing,
               latest' = latest \/ Unregister(id),
               \/ exec' = [exec EXCEPT ![id] = "refused"] /\ exec[id] = "sending"
               \/ exec' = [exec EXCEPT ![id] = "failing"] /\ exec[id] = "completing"
               \/ exec' = [exec EXCEPT ![id] = "rejected"] /\ Unregister(id)
        PROVE  Registered' /\ Supervised'
    BY <2>1, <2>2 DEF Unregister, Closing, Types, Registered, Supervised, Executing, Alive
  <2>3. \A id \in Runs : /\ Writes("send", id) => exec[id] = "sending"
                         /\ Writes("begin", id) => exec[id] = "begin"
                         /\ Writes("finish", id) => exec[id] \in Closing
    BY RunWrites DEF RunOps
  <2>4. ASSUME UNCHANGED <<exec, latest>> PROVE Registered' /\ Supervised'
    BY <2>1, <2>4 DEF Registered, Supervised, Executing, Alive
  <2>. QED
    BY <1>6, <2>2, <2>3, <2>4, FailureCases DEF Finish, Reject
<1>7. ASSUME NEW r \in Runs, Expire(r) PROVE Registered' /\ Supervised'
  BY <1>7 DEF Expire, Terminate, Types, Registered, Supervised, Executing, Alive
<1>8. ASSUME NEW r \in Runs, ChildCloses(r) PROVE Registered' /\ Supervised'
  <2>1. PICK outcome \in Closing : exec' = [exec EXCEPT ![r] = outcome]
    BY <1>8 DEF ChildCloses, Outcomes, Closing
  <2>2. /\ exec[r] = "child" /\ active' = None /\ latest' = latest
        /\ child' = [child EXCEPT ![r] = "closed"]
    BY <1>8 DEF ChildCloses, Supervised
  <2>. QED
    BY <2>1, <2>2 DEF Closing, Types, Registered, Supervised, Executing, Alive
<1>9. CASE Crash
  BY <1>9 DEF Crash, Types, Registered, Supervised, Executing, Alive
<1>10. CASE UNCHANGED <<exec, latest, active, child>>
  BY <1>10 DEF Registered, Supervised, Executing, Alive
<1>. QED
  BY <1>1, <1>2, <1>3, <1>4, <1>5, <1>6, <1>7, <1>8, <1>9, <1>10
     DEF Next, Write, RequestStart, Archive, WriteControl, Restart, vars
-----------------------------------------------------------------------------
(* The records.                                                             *)

LEMMA RecordsStep ==
  Types /\ Queued /\ Supervised /\ Records /\ [Next]_vars => Records'
<1>. SUFFICES ASSUME Types, Queued, Supervised, Records, [Next]_vars PROVE Records'
  OBVIOUS
<1>. USE DEF storeVars, runnerVars, controlVars, requestVars, boundVars
<1>1. ASSUME NEW r \in Runs, SendMessage(r) PROVE Records'
  BY <1>1 DEF SendMessage, Types, Records, Executing, Closing
<1>2. ASSUME NEW r \in Runs, WriteSend(r) PROVE Records'
  <2>1. exec[r] = "sending" /\ up
    BY <1>2, RunWrites DEF WriteSend, RunOps, Writes
  <2>. QED
    BY <1>2, <2>1 DEF WriteSend, Types, Records, Executing, Closing
<1>3. ASSUME NEW r \in Runs, WriteBegin(r) PROVE Records'
  <2>1. exec[r] = "begin" /\ up
    BY <1>3, RunWrites DEF WriteBegin, RunOps, Writes
  <2>2. PICK as \in {"child"} \cup Closing : exec' = [exec EXCEPT ![r] = as]
    BY <1>3 DEF WriteBegin, Invoke, Finish, Spawn, Closing
  <2>3. /\ exec'[r] = as /\ run'[r] \in {"running", "removed"} /\ up'
        /\ \A other \in Runs : other # r => exec'[other] = exec[other] /\ run'[other] = run[other]
    BY <1>3, <2>1, <2>2 DEF WriteBegin, Stored, Types, Records
  <2>. QED
    BY <2>2, <2>3 DEF Records, Closing
<1>4. ASSUME NEW r \in Runs, WriteFinish(r) PROVE Records'
  <2>1. up
    BY <1>4 DEF WriteFinish, Writes
  <2>. QED
    BY <1>4, <2>1 DEF WriteFinish, Types, Records, Executing, Closing
<1>5. ASSUME NEW c \in Controls, WriteControl(c) PROVE Records'
  <2>1. up
    BY <1>5 DEF WriteControl, Writes
  <2>. QED
    BY <1>5, <2>1 DEF WriteControl, Stored, Types, Records, Executing, Closing
<1>6. CASE WriteFails
  <2>1. UNCHANGED <<up, run>> /\ up
    BY <1>6 DEF WriteFails
  <2>2. ASSUME NEW id \in Runs,
               \/ exec' = [exec EXCEPT ![id] = "refused"] /\ exec[id] = "sending"
               \/ exec' = [exec EXCEPT ![id] = "failing"] /\ exec[id] = "completing"
               \/ exec' = [exec EXCEPT ![id] = "rejected"]
        PROVE  Records'
    BY <2>1, <2>2 DEF Types, Records, Closing
  <2>3. \A id \in Runs : Writes("send", id) => exec[id] = "sending"
    BY RunWrites DEF RunOps
  <2>4. ASSUME UNCHANGED exec PROVE Records'
    BY <2>1, <2>4 DEF Records
  <2>. QED
    BY <1>6, <2>2, <2>3, <2>4, FailureCases DEF Finish, Reject
<1>7. ASSUME NEW r \in Runs, ChildCloses(r) PROVE Records'
  <2>1. PICK outcome \in Closing : exec' = [exec EXCEPT ![r] = outcome]
    BY <1>7 DEF ChildCloses, Outcomes, Closing
  <2>2. exec[r] = "child" /\ run' = run /\ up /\ up' = up
    BY <1>7 DEF ChildCloses, Supervised
  <2>. QED
    BY <2>1, <2>2 DEF Closing, Types, Records
<1>8. CASE Crash
  BY <1>8 DEF Crash, Types, Records, Executing, Closing
<1>9. CASE Restart
  BY <1>9 DEF Restart, Types, Records, Executing, Closing
<1>10. CASE UNCHANGED <<exec, run, up>>
  BY <1>10 DEF Records, Executing
<1>. QED
  BY <1>1, <1>2, <1>3, <1>4, <1>5, <1>6, <1>7, <1>8, <1>9, <1>10
     DEF Next, Write, RequestCancel, RequestStart, Archive, Expire, vars
-----------------------------------------------------------------------------
(* The requests.                                                            *)

LEMMA AskedStep ==
  Types /\ Queued /\ Registered /\ Supervised /\ Asked /\ [Next]_vars => Asked'
<1>. SUFFICES ASSUME Types, Queued, Registered, Supervised, Asked, [Next]_vars,
                     NEW d \in Controls
              PROVE  AskedOf(d)'
  BY DEF Asked
<1>0. AskedOf(d)
  BY DEF Asked
<1>. USE DEF storeVars, runnerVars, controlVars, requestVars, boundVars
<1>1. ASSUME NEW c \in Controls, NEW k \in {"stop", "delete"}, RequestCancel(c, k)
      PROVE  AskedOf(d)'
  <2>1. /\ kind' = [kind EXCEPT ![c] = k] /\ Cancel(c)
        /\ earlier' = [earlier EXCEPT ![c] = {r \in Runs : Executing(r)}]
        /\ active' = active /\ workspace' = workspace
    BY <1>1, CancelKeepsProcesses DEF RequestCancel
  <2>2. CASE d = c
    <3>1. kind'[d] = k
      BY <2>1, <2>2 DEF Types
    <3>2. CASE active # None
      BY <2>1, <2>2, <3>1, <3>2 DEF Cancel, Wait, AskedOf, Registered
    <3>3. CASE active = None /\ latest = None
      BY <2>1, <2>2, <3>1, <3>3 DEF Cancel, Release, AskedOf
    <3>4. CASE active = None /\ latest # None
      BY <2>1, <2>2, <3>1, <3>4 DEF Cancel, Wait, AskedOf
    <3>. QED
      BY <3>2, <3>3, <3>4
  <2>3. CASE d # c
    <3>1. kind'[d] = kind[d] /\ earlier'[d] = earlier[d]
      BY <2>1, <2>3 DEF Types
    <3>2. control'[d] = control[d] /\ target'[d] = target[d]
      BY <2>1, <2>3 DEF Cancel, Wait, Release, Types
    <3>. QED
      BY <1>0, <2>1, <3>1, <3>2 DEF AskedOf
  <2>. QED
    BY <2>2, <2>3
<1>2. ASSUME NEW c \in Controls, RequestStart(c) PROVE AskedOf(d)'
  BY <1>0, <1>2 DEF RequestStart, Arrives, AskedOf, Types
<1>3. ASSUME NEW c \in Controls, Archive(c) PROVE AskedOf(d)'
  BY <1>0, <1>3 DEF Archive, AskedOf, Types
<1>4. ASSUME NEW r \in Runs, WriteBegin(r) PROVE AskedOf(d)'
  <2>1. active' = active \/ active = None
    BY <1>4 DEF WriteBegin, Invoke, Spawn
  <2>. QED
    BY <1>0, <1>4, <2>1, NoneAssumption DEF WriteBegin, AskedOf
<1>5. ASSUME NEW r \in Runs, WriteFinish(r) PROVE AskedOf(d)'
  <2>. DEFINE W == Waiting("awaiting", r)
  <2>1. kind' = kind /\ Release(W, Tail(queue)) /\ Forsake(W) /\ UNCHANGED <<active, workspace>>
    BY <1>5 DEF WriteFinish
  <2>2. earlier'[d] \subseteq earlier[d]
    BY <2>1 DEF Forsake, Types
  <2>3. d \in W => control[d] = "awaiting"
    BY DEF Waiting
  <2>4. control'[d] = IF d \notin W THEN control[d]
                      ELSE IF kind[d] = "stop" THEN "storing" ELSE "archiving"
    BY <2>1 DEF Release
  <2>5. d \notin W => target'[d] = target[d]
    BY <2>1 DEF Release
  <2>. HIDE DEF W
  <2>. QED
    BY <1>0, <2>1, <2>2, <2>3, <2>4, <2>5 DEF AskedOf
<1>6. ASSUME NEW c \in Controls, WriteControl(c) PROVE AskedOf(d)'
  <2>1. control[c] = "storing"
    BY <1>6, ControlWrites DEF WriteControl, ControlOps
  <2>2. /\ UNCHANGED <<kind, earlier, active, target, workspace>>
        /\ d # c => control'[d] = control[d]
        /\ d = c => control'[d] \in {"done", "failed"}
    BY <1>6 DEF WriteControl, Types
  <2>. QED
    BY <1>0, <2>1, <2>2 DEF AskedOf
<1>7. CASE WriteFails
  <2>1. UNCHANGED <<kind, active, workspace>>
    BY <1>7 DEF WriteFails
  <2>2. CASE UNCHANGED <<controlVars, earlier>>
    BY <1>0, <2>1, <2>2 DEF AskedOf
  <2>3. ASSUME NEW id, Reject(id) PROVE AskedOf(d)'
    <3>1. /\ earlier'[d] \subseteq earlier[d]
          /\ control'[d] # control[d] => control'[d] = "failed"
          /\ control'[d] # "failed" => target'[d] = target[d]
      BY <2>3 DEF Reject, Forsake, ReleaseFailed, Types
    <3>. QED
      BY <1>0, <2>1, <3>1 DEF AskedOf
  <2>4. ASSUME NEW id \in Controls, control' = [control EXCEPT ![id] = "failed"],
               UNCHANGED <<target, earlier>>
        PROVE  AskedOf(d)'
    BY <1>0, <2>1, <2>4 DEF AskedOf, Types
  <2>. QED
    BY <1>7, <2>2, <2>3, <2>4, FailureCases
<1>8. ASSUME NEW r \in Runs, ChildCloses(r) PROVE AskedOf(d)'
  <2>. DEFINE W == Waiting("settling", r)
  <2>1. UNCHANGED <<kind, earlier, workspace>> /\ active = r
    BY <1>8 DEF ChildCloses, Supervised
  <2>2. control[d] = "settling" <=> d \in W
    BY <1>0, <2>1 DEF AskedOf, Waiting
  <2>3. CASE d \notin W
    <3>1. control'[d] = control[d]
      BY <1>8, <2>3 DEF ChildCloses, Release, Wait
    <3>. QED
      BY <1>0, <2>1, <2>2, <2>3, <3>1 DEF AskedOf
  <2>4. CASE d \in W
    <3>1. control'[d] = IF latest # None THEN "awaiting"
                        ELSE IF kind[d] = "stop" THEN "storing" ELSE "archiving"
      BY <1>8, <2>1, <2>4 DEF ChildCloses, Release, Wait
    <3>. QED
      BY <1>0, <2>1, <2>2, <2>4, <3>1 DEF AskedOf
  <2>. QED
    BY <2>3, <2>4
<1>9. CASE Crash
  BY <1>0, <1>9 DEF Crash, AskedOf
<1>10. CASE UNCHANGED <<control, kind, earlier, active, target, workspace>>
  BY <1>0, <1>10 DEF AskedOf
<1>. QED
  BY <1>1, <1>2, <1>3, <1>4, <1>5, <1>6, <1>7, <1>8, <1>9, <1>10
     DEF Next, Write, SendMessage, WriteSend, Expire, Restart, vars
-----------------------------------------------------------------------------
(* The order in which runs begin.                                           *)

(* Only an accepted message begins to wait, and only the mutation that      *)
(* begins a run gives it a process.                                         *)
LEMMA ExecMoves ==
  ASSUME Types, Queued, Supervised, [Next]_vars, NEW r \in Runs
  PROVE  /\ exec[r] \notin {"none", "sending"} => exec'[r] \notin {"none", "sending"}
         /\ exec'[r] = "begin" => exec[r] = "begin" \/ (WriteSend(r) /\ Accepts)
         /\ exec'[r] = "child" => \/ exec[r] = "child"
                                  \/ exec[r] = "begin" /\ WriteBegin(r) /\ ~cancelling
<1>. DEFINE Goal == /\ exec[r] \notin {"none", "sending"} => exec'[r] \notin {"none", "sending"}
                    /\ exec'[r] = "begin" => exec[r] = "begin" \/ (WriteSend(r) /\ Accepts)
                    /\ exec'[r] = "child" => \/ exec[r] = "child"
                                             \/ exec[r] = "begin" /\ WriteBegin(r) /\ ~cancelling
<1>. SUFFICES Goal
  OBVIOUS
<1>1. CASE exec'[r] = exec[r]
  BY <1>1
<1>2. ASSUME NEW x \in Runs, SendMessage(x) PROVE Goal
  BY <1>2 DEF SendMessage, Types
<1>3. ASSUME NEW x \in Runs, WriteSend(x) PROVE Goal
  <2>1. x # r => exec'[r] = exec[r]
    BY <1>3 DEF WriteSend, Types
  <2>2. x = r => \/ Accepts /\ exec'[r] = "begin"
                 \/ exec'[r] = "refused"
    BY <1>3 DEF WriteSend, Types
  <2>. QED
    BY <1>1, <1>3, <2>1, <2>2
<1>4. ASSUME NEW x \in Runs, WriteBegin(x) PROVE Goal
  <2>1. x # r => exec'[r] = exec[r]
    BY <1>4 DEF WriteBegin, Invoke, Finish, Spawn, Types
  <2>2. exec[x] = "begin"
    BY <1>4, RunWrites DEF WriteBegin, RunOps
  <2>3. x = r => \/ exec'[r] \in Closing
                 \/ exec'[r] = "child" /\ ~cancelling
    BY <1>4 DEF WriteBegin, Invoke, Finish, Spawn, Closing, Types
  <2>. QED
    BY <1>1, <1>4, <2>1, <2>2, <2>3 DEF Closing
<1>5. ASSUME NEW x \in Runs, WriteFinish(x) PROVE Goal
  BY <1>5 DEF WriteFinish, Types
<1>6. CASE WriteFails
  <2>1. ASSUME NEW x, NEW as \in {"refused", "failing", "rejected"},
               exec' = [exec EXCEPT ![x] = as]
        PROVE  Goal
    BY <2>1 DEF Types
  <2>. QED
    BY <1>1, <1>6, <2>1, FailureCases DEF Finish, Reject
<1>7. ASSUME NEW x \in Runs, ChildCloses(x) PROVE Goal
  <2>1. PICK outcome \in Closing : exec' = [exec EXCEPT ![x] = outcome]
    BY <1>7 DEF ChildCloses, Outcomes, Closing
  <2>. QED
    BY <2>1 DEF Closing, Types
<1>8. CASE Crash
  BY <1>8 DEF Crash, Types, Executing
<1>9. CASE UNCHANGED exec
  BY <1>9
<1>. HIDE DEF Goal
<1>. QED
  BY <1>2, <1>3, <1>4, <1>5, <1>6, <1>7, <1>8, <1>9
     DEF Next, Write, RequestCancel, RequestStart, Archive, WriteControl, Expire, Restart, vars

LEMMA OrderKept ==
  ASSUME Types, Queued, Supervised, Asked, [Next]_vars,
         NEW r, NEW t, Precedes(queue, r, t), exec'[r] = "begin"
  PROVE  Precedes(queue', r, t)
<1>0. r \in Runs /\ exec[r] = "begin" /\ queue \in Seq(Entries)
  <2>1. r \in Runs /\ exec[r] = "begin"
    BY PrecedesWhom DEF Queued
  <2>. QED
    BY <2>1 DEF Queued, Sound
<1>1. ASSUME NEW x \in Runs, SendMessage(x) PROVE Precedes(queue', r, t)
  <2>1. queue' = Append(queue, <<"send", x>>) /\ <<"send", x>> \in Entries
    BY <1>1 DEF SendMessage, Entries, RunOps
  <2>. QED
    BY <1>0, <2>1, PrecedesAppend
<1>2. ASSUME NEW c \in Controls, NEW k \in {"stop", "delete"}, RequestCancel(c, k)
      PROVE  Precedes(queue', r, t)
  BY <1>0, <1>2, QueuedByCancel, PrecedesConcat
<1>3. ASSUME NEW c \in Controls, RequestStart(c) PROVE Precedes(queue', r, t)
  <2>1. queue' = Append(queue, <<"start", c>>) /\ <<"start", c>> \in Entries
    BY <1>3 DEF RequestStart, Entries, ControlOps
  <2>. QED
    BY <1>0, <2>1, PrecedesAppend
<1>4. ASSUME NEW c \in Controls, Archive(c) PROVE Precedes(queue', r, t)
  <2>1. <<"delete", c>> \in Entries
    BY DEF Entries, ControlOps
  <2>. QED
    BY <1>0, <1>4, <2>1, QueuedByArchive, PrecedesAppend
<1>5. ASSUME NEW x \in Runs, ChildCloses(x) PROVE Precedes(queue', r, t)
  <2>1. <<"finish", x>> \in Entries
    BY DEF Entries, RunOps
  <2>2. /\ Append(queue, <<"finish", x>>) \in Seq(Entries)
        /\ Precedes(Append(queue, <<"finish", x>>), r, t)
    BY <1>0, <2>1, PrecedesAppend, AppendFacts
  <2>. QED
    BY <1>5, <2>2, QueuedByClose, PrecedesConcat
<1>6. ASSUME NEW op, NEW x, Writes(op, x), op # "begin" \/ x # r
      PROVE  Tail(queue) \in Seq(Entries) /\ Precedes(Tail(queue), r, t)
  BY <1>0, <1>6, PrecedesTail, TailFacts DEF Writes
<1>7. ASSUME NEW x \in Runs, WriteSend(x) PROVE Precedes(queue', r, t)
  <2>1. /\ queue' = Tail(queue) \/ queue' = Append(Tail(queue), <<"begin", x>>)
        /\ Writes("send", x) /\ <<"begin", x>> \in Entries
    BY <1>7 DEF WriteSend, Entries, RunOps
  <2>. QED
    BY <1>6, <2>1, PrecedesAppend
<1>8. ASSUME NEW x \in Runs, WriteBegin(x) PROVE Precedes(queue', r, t)
  <2>1. x # r
    BY <1>0, <1>8 DEF WriteBegin, Invoke, Finish, Spawn, Types
  <2>2. /\ queue' = Tail(queue) \/ queue' = Append(Tail(queue), <<"finish", x>>)
        /\ Writes("begin", x) /\ <<"finish", x>> \in Entries
    BY <1>8 DEF WriteBegin, Invoke, Finish, Spawn, Entries, RunOps
  <2>. QED
    BY <1>6, <2>1, <2>2, PrecedesAppend
<1>9. ASSUME NEW x \in Runs, WriteFinish(x) PROVE Precedes(queue', r, t)
  <2>1. Writes("finish", x) /\ \E s \in Seq(Entries) : queue' = Tail(queue) \o s
    BY <1>9, QueuedByWriteFinish DEF WriteFinish
  <2>. QED
    BY <1>6, <2>1, PrecedesConcat
<1>10. ASSUME NEW c \in Controls, WriteControl(c) PROVE Precedes(queue', r, t)
  <2>1. queue' = Tail(queue) /\ \E op : op # "begin" /\ Writes(op, c)
    BY <1>10 DEF WriteControl
  <2>. QED
    BY <1>6, <2>1
<1>11. CASE WriteFails
  <2>1. ASSUME NEW x, Writes("send", x), queue' = Tail(queue)
        PROVE  Precedes(queue', r, t)
    BY <1>6, <2>1
  <2>2. ASSUME NEW x \in Runs, Writes("finish", x), Finish(x, "failing", Tail(queue))
        PROVE  Precedes(queue', r, t)
    <3>1. /\ queue' = Append(Tail(queue), <<"finish", x>>)
          /\ <<"finish", x>> \in Entries
      BY <2>2 DEF Finish, Entries, RunOps
    <3>. QED
      BY <1>6, <2>2, <3>1, PrecedesAppend
  <2>3. ASSUME NEW x \in Runs, Writes("begin", x) \/ Writes("finish", x), Reject(x)
        PROVE  Precedes(queue', r, t)
    <3>1. x # r /\ queue' = Tail(queue)
      BY <1>0, <2>3 DEF Reject, Types
    <3>. QED
      BY <1>6, <2>3, <3>1
  <2>4. ASSUME NEW x, NEW op \in ControlOps, Writes(op, x), queue' = Tail(queue)
        PROVE  Precedes(queue', r, t)
    BY <1>6, <2>4 DEF ControlOps
  <2>. QED
    BY <1>11, <2>1, <2>2, <2>3, <2>4, FailureCases
<1>12. CASE Crash
  BY <1>0, <1>12 DEF Crash, Executing
<1>13. CASE UNCHANGED queue
  BY <1>13
<1>. QED
  BY <1>1, <1>2, <1>3, <1>4, <1>5, <1>7, <1>8, <1>9, <1>10, <1>11, <1>12, <1>13
     DEF Next, Write, Expire, Restart, vars

LEMMA NewestStep ==
  Types /\ Queued /\ Supervised /\ Asked /\ Newest /\ [Next]_vars => Newest'
<1>. SUFFICES ASSUME Types, Queued, Supervised, Asked, Newest, [Next]_vars,
                     NEW r \in Runs, exec'[r] = "begin"
              PROVE  Precedes(queue', r, latest')
  BY DEF Newest
<1>1. ASSUME NEW x \in Runs, WriteSend(x), Accepts PROVE Precedes(queue', r, latest')
  <2>1. /\ Writes("send", x) /\ latest' = x
        /\ queue' = Append(Tail(queue), <<"begin", x>>)
    BY <1>1 DEF WriteSend
  <2>2. queue # <<>> /\ Head(queue) = <<"send", x>> /\ Tail(queue) \in Seq(Entries)
    BY <2>1, RunWrites DEF RunOps, Sound
  <2>3. CASE r = x
    BY <2>1, <2>2, <2>3, PrecedesItself
  <2>4. CASE r # x
    <3>1. exec[r] = "begin"
      BY <1>1, <2>4 DEF WriteSend, Types
    <3>2. Precedes(queue, r, latest)
      BY <3>1 DEF Newest
    <3>3. Precedes(Tail(queue), r, latest)
      BY <2>2, <3>2, PrecedesTail DEF Queued, Sound
    <3>. QED
      BY <2>1, <2>2, <3>3, WhoBeginsIsQueued
  <2>. QED
    BY <2>3, <2>4
<1>2. ASSUME ~\E x \in Runs : WriteSend(x) /\ Accepts PROVE Precedes(queue', r, latest')
  <2>1. exec[r] = "begin"
    BY <1>2, ExecMoves
  <2>2. Precedes(queue, r, latest)
    BY <2>1 DEF Newest
  <2>3. latest \in Runs /\ exec[latest] = "begin"
    BY <2>2, PrecedesWhom DEF Queued
  <2>4. CASE latest' = latest
    BY <2>2, <2>4, OrderKept
  <2>5. ASSUME NEW x \in Runs, WriteFinish(x), Unregister(x) PROVE latest' = latest
    <3>1. exec[x] \in Closing
      BY <2>5, RunWrites DEF WriteFinish, RunOps
    <3>. QED
      BY <2>3, <2>5, <3>1 DEF Unregister, Closing
  <2>6. ASSUME NEW x \in Runs, Writes("begin", x) \/ Writes("finish", x), Reject(x)
        PROVE  latest' = latest
    <3>1. CASE Writes("finish", x)
      <4>1. exec[x] \in Closing
        BY <3>1, RunWrites DEF RunOps
      <4>. QED
        BY <2>3, <2>6, <4>1 DEF Reject, Unregister, Closing
    <3>2. CASE Writes("begin", x)
      <4>1. queue # <<>> /\ Head(queue) = <<"begin", x>>
        BY <3>2 DEF Writes
      <4>2. x = latest => r = x
        BY <2>2, <4>1, PrecedesWhom DEF Queued
      <4>3. r # x
        BY <2>6 DEF Reject, Types
      <4>. QED
        BY <2>6, <4>2, <4>3 DEF Reject, Unregister
    <3>. QED
      BY <2>6, <3>1, <3>2
  <2>7. CASE WriteFails
    BY <2>4, <2>6, <2>7, FailureCases DEF Finish
  <2>8. CASE Crash
    BY <2>1, <2>8 DEF Crash, Executing
  <2>. QED
    BY <1>2, <2>4, <2>5, <2>7, <2>8
       DEF Next, Write, SendMessage, RequestCancel, RequestStart, Archive, WriteSend, WriteBegin,
           WriteFinish, WriteControl, Expire, ChildCloses, Restart, vars
<1>. QED
  BY <1>1, <1>2
-----------------------------------------------------------------------------
(* What a request that waits relies on.                                     *)

LEMMA EndingKept ==
  ASSUME Types, Queued, Supervised, Asked, Ending, [Next]_vars,
         NEW c \in Controls, NEW r \in earlier[c],
         \/ control'[c] \in {"idle", "failed"}
         \/ control'[c] = control[c] /\ target'[c] = target[c]
         \/ control[c] \in {"archiving", "storing"} /\ control'[c] \in {"storing", "done"},
         control'[c] # "failed" /\ exec[r] = "begin" /\ cancelling => cancelling'
  PROVE  EndingOf(c, r)'
<1>1. EndingOf(c, r) /\ r \in Runs
  BY DEF Ending, Types
<1>2. exec'[r] \notin {"none", "sending"}
  BY <1>1, ExecMoves DEF EndingOf
<1>3. ASSUME exec'[r] = "begin"
      PROVE  /\ control'[c] \notin {"archiving", "storing", "done"}
             /\ control'[c] \in {"settling", "awaiting"} => cancelling'
             /\ control'[c] = "awaiting" => Precedes(queue', r, target'[c])
  <2>1. exec[r] = "begin"
    BY <1>1, <1>3, ExecMoves, RunWrites DEF EndingOf, WriteSend, RunOps
  <2>2. \A t : Precedes(queue, r, t) => Precedes(queue', r, t)
    BY <1>3, OrderKept
  <2>. QED
    BY <1>1, <1>3, <2>1, <2>2 DEF EndingOf
<1>4. ASSUME exec'[r] = "child"
      PROVE  control'[c] \notin {"awaiting", "archiving", "storing", "done"}
  <2>1. CASE exec[r] = "child"
    BY <1>1, <2>1 DEF EndingOf
  <2>2. CASE exec[r] = "begin" /\ ~cancelling
    BY <1>1, <2>2 DEF EndingOf
  <2>. QED
    BY <1>1, <1>4, <2>1, <2>2, ExecMoves
<1>. QED
  BY <1>2, <1>3, <1>4 DEF EndingOf

LEMMA EndingByCancel ==
  ASSUME Types, Queued, Registered, Newest, Supervised, Asked, Ending, [Next]_vars,
         NEW x \in Controls, NEW k \in {"stop", "delete"}, RequestCancel(x, k),
         NEW c \in Controls, NEW r \in earlier'[c]
  PROVE  EndingOf(c, r)'
<1>1. /\ exec' = exec /\ Cancel(x) /\ active' = active /\ control[x] = "idle"
      /\ earlier' = [earlier EXCEPT ![x] = {y \in Runs : Executing(y)}]
  BY CancelKeepsProcesses DEF RequestCancel, Arrives
<1>2. latest = None => exec[r] # "begin"
  <2>1. ASSUME latest = None, exec[r] = "begin", r \in Runs PROVE FALSE
    BY <2>1, PrecedesWhom, NoneAssumption DEF Newest, Queued
  <2>. QED
    BY <1>1, <2>1 DEF Types
<1>3. CASE c = x
  <2>1. r \in Runs /\ Executing(r)
    BY <1>1, <1>3 DEF Types
  <2>2. exec'[r] \notin {"none", "sending"}
    BY <1>1, <2>1 DEF Executing
  <2>3. exec[r] = "child" => active = r /\ active # None
    BY <2>1, NoneAssumption DEF Supervised
  <2>4. CASE active # None
    <3>1. cancelling' = TRUE /\ control'[c] = "settling"
      BY <1>1, <1>3, <2>4 DEF Cancel, Wait
    <3>. QED
      BY <2>2, <3>1 DEF EndingOf
  <2>5. CASE active = None /\ latest = None
    BY <1>1, <1>2, <2>2, <2>3, <2>5 DEF EndingOf
  <2>6. CASE active = None /\ latest # None
    <3>1. cancelling' = TRUE /\ control'[c] = "awaiting" /\ target'[c] = latest
          /\ queue' = queue
      BY <1>1, <1>3, <2>6 DEF Cancel, Wait
    <3>2. exec[r] = "begin" => Precedes(queue, r, latest)
      BY <2>1 DEF Newest
    <3>. QED
      BY <1>1, <2>2, <2>3, <2>6, <3>1, <3>2 DEF EndingOf
  <2>. QED
    BY <2>4, <2>5, <2>6
<1>4. CASE c # x
  <2>1. r \in earlier[c]
    BY <1>1, <1>4 DEF Types
  <2>2. control'[c] = control[c] /\ target'[c] = target[c]
    BY <1>1, <1>4 DEF Cancel, Wait, Release
  <2>3. exec[r] = "begin" => cancelling' = TRUE
    BY <1>1, <1>2 DEF Cancel
  <2>. QED
    BY <2>1, <2>2, <2>3, EndingKept
<1>. QED
  BY <1>3, <1>4

(* An execution that ends, or is rejected.                                  *)
LEMMA EndingByRelease ==
  ASSUME Types, Queued, Supervised, Asked, Ending, [Next]_vars, NEW x \in Runs,
         LET W == Waiting("awaiting", x)
         IN  /\ Forsake(W) /\ cancelling' = (cancelling /\ W = {})
             /\ \A d \in Controls \ W : control'[d] = control[d] /\ target'[d] = target[d]
             /\ exec[x] # "begin" \/ \A d \in W : control'[d] = "failed",
         NEW c \in Controls, NEW r \in earlier'[c], exec'[r] # "child" \/ exec'[r] = exec[r]
  PROVE  EndingOf(c, r)'
<1>. DEFINE W == Waiting("awaiting", x)
<1>1. r \in earlier[c] /\ (W # {} /\ c \notin W => exec[r] # "begin")
  BY DEF Forsake, Types
<1>2. CASE c \notin W
  <2>1. cancelling => cancelling' \/ exec[r] # "begin"
    BY <1>1, <1>2
  <2>2. control'[c] = control[c] /\ target'[c] = target[c]
    BY <1>2
  <2>. QED
    BY <1>1, <2>1, <2>2, EndingKept
<1>3. CASE c \in W
  <2>1. EndingOf(c, r) /\ r \in Runs /\ control[c] = "awaiting"
    BY <1>1, <1>3 DEF Ending, Types, Waiting
  <2>2. exec'[r] \notin {"none", "sending"}
    BY <2>1, ExecMoves DEF EndingOf
  <2>3. CASE control'[c] = "failed"
    BY <1>1, <2>3, EndingKept
  <2>4. CASE exec[x] # "begin"
    <3>1. ASSUME exec[r] = "begin" PROVE FALSE
      <4>1. Precedes(queue, r, x)
        BY <1>3, <2>1, <3>1 DEF EndingOf, Waiting
      <4>. QED
        BY <2>4, <4>1, PrecedesWhom DEF Queued
    <3>2. exec'[r] # "begin"
      BY <2>1, <3>1, ExecMoves, RunWrites DEF EndingOf, WriteSend, RunOps
    <3>3. exec'[r] # "child"
      BY <2>1 DEF EndingOf
    <3>. QED
      BY <2>2, <3>2, <3>3 DEF EndingOf
  <2>. QED
    BY <1>3, <2>3, <2>4
<1>. QED
  BY <1>2, <1>3

LEMMA EndingByClose ==
  ASSUME Types, Queued, Newest, Supervised, Asked, Ending, [Next]_vars,
         NEW x \in Runs, ChildCloses(x), NEW c \in Controls, NEW r \in earlier'[c]
  PROVE  EndingOf(c, r)'
<1>. DEFINE W == Waiting("settling", x)
<1>1. PICK outcome \in Closing : exec' = [exec EXCEPT ![x] = outcome]
  BY DEF ChildCloses, Outcomes, Closing
<1>2. /\ earlier' = earlier /\ r \in earlier[c] /\ r \in Runs /\ active = x /\ exec[x] = "child"
      /\ latest' = latest
  BY DEF ChildCloses, Supervised, requestVars, Types
<1>3. latest = None => exec[r] # "begin"
  BY <1>2, PrecedesWhom, NoneAssumption DEF Newest, Queued
<1>4. exec'[r] # "child"
  BY <1>1, <1>2 DEF Supervised, Types, Closing
<1>5. exec'[r] \notin {"none", "sending"} /\ (exec'[r] = "begin" => exec[r] = "begin")
  BY <1>1, <1>2 DEF Ending, EndingOf, Types, Closing
<1>6. CASE c \in W /\ latest # None
  <2>1. control'[c] = "awaiting" /\ target'[c] = latest /\ cancelling' = cancelling
    BY <1>6 DEF ChildCloses, Wait
  <2>2. ASSUME exec'[r] = "begin" PROVE cancelling' /\ Precedes(queue', r, target'[c])
    <3>1. exec[r] = "begin" /\ Precedes(queue, r, latest)
      BY <1>2, <1>5, <2>2 DEF Newest
    <3>2. cancelling
      BY <1>2, <1>6, <3>1 DEF Ending, EndingOf, Waiting
    <3>. QED
      BY <2>1, <2>2, <3>1, <3>2, OrderKept
  <2>. QED
    BY <1>4, <1>5, <2>1, <2>2 DEF EndingOf
<1>7. CASE c \in W /\ latest = None
  BY <1>3, <1>4, <1>5, <1>7 DEF EndingOf
<1>8. CASE c \notin W
  <2>1. control'[c] = control[c] /\ target'[c] = target[c]
    BY <1>8 DEF ChildCloses, Release, Wait
  <2>2. exec[r] = "begin" /\ cancelling => cancelling'
    BY <1>3 DEF ChildCloses
  <2>. QED
    BY <1>2, <2>1, <2>2, EndingKept
<1>. QED
  BY <1>6, <1>7, <1>8

LEMMA EndingStep ==
  /\ Types /\ Queued /\ Registered /\ Newest /\ Supervised /\ Asked /\ Ending /\ [Next]_vars
  => Ending'
<1>. SUFFICES ASSUME Types, Queued, Registered, Newest, Supervised, Asked, Ending, [Next]_vars,
                     NEW c \in Controls, NEW r \in earlier'[c]
              PROVE  EndingOf(c, r)'
  BY DEF Ending
<1>. USE DEF storeVars, runnerVars, controlVars, requestVars, boundVars
<1>1. CASE UNCHANGED <<control, target, cancelling, earlier>>
  BY <1>1, EndingKept
<1>2. ASSUME NEW x \in Controls, RequestStart(x) PROVE EndingOf(c, r)'
  <2>1. c # x
    BY <1>2 DEF RequestStart, Arrives, Asked, AskedOf
  <2>2. UNCHANGED <<cancelling, target, earlier>> /\ control'[c] = control[c]
    BY <1>2, <2>1 DEF RequestStart, Types
  <2>. QED
    BY <2>2, EndingKept
<1>3. ASSUME NEW x \in Controls, Archive(x) PROVE EndingOf(c, r)'
  <2>1. /\ UNCHANGED <<cancelling, target, earlier>> /\ control[x] = "archiving"
        /\ c # x => control'[c] = control[c]
        /\ control'[x] \in {"storing", "failed"}
    BY <1>3 DEF Archive, Types
  <2>. QED
    BY <2>1, EndingKept
<1>4. ASSUME NEW x \in Runs, WriteFinish(x) PROVE EndingOf(c, r)'
  <2>. DEFINE W == Waiting("awaiting", x)
  <2>1. exec[x] \in Closing
    BY <1>4, RunWrites DEF WriteFinish, RunOps
  <2>2. /\ Forsake(W) /\ cancelling' = (cancelling /\ W = {})
        /\ \A d \in Controls \ W : control'[d] = control[d] /\ target'[d] = target[d]
    BY <1>4 DEF WriteFinish, Release
  <2>3. exec[x] # "begin"
    BY <2>1 DEF Closing
  <2>4. exec'[r] # "child" \/ exec'[r] = exec[r]
    <3>1. r \in Runs
      BY <2>2 DEF Forsake, Types
    <3>. QED
      BY <1>4, <3>1 DEF WriteFinish, Types
  <2>. QED
    BY <2>2, <2>3, <2>4, EndingByRelease
<1>5. ASSUME NEW x \in Controls, WriteControl(x) PROVE EndingOf(c, r)'
  <2>1. control[x] = "storing"
    BY <1>5, ControlWrites DEF WriteControl, ControlOps
  <2>2. /\ UNCHANGED <<cancelling, target, earlier>>
        /\ c # x => control'[c] = control[c]
        /\ control'[x] \in {"done", "failed"}
    BY <1>5 DEF WriteControl, Types
  <2>. QED
    BY <2>1, <2>2, EndingKept
<1>6. CASE WriteFails
  <2>1. ASSUME NEW x \in Runs, Reject(x) PROVE EndingOf(c, r)'
    <3>. DEFINE W == Waiting("awaiting", x)
    <3>1. /\ Forsake(W) /\ cancelling' = (cancelling /\ W = {})
          /\ \A d \in Controls \ W : control'[d] = control[d] /\ target'[d] = target[d]
          /\ \A d \in W : control'[d] = "failed"
      BY <2>1 DEF Reject, ReleaseFailed, Waiting
    <3>2. exec'[r] # "child" \/ exec'[r] = exec[r]
      <4>1. r \in Runs
        BY <3>1 DEF Forsake, Types
      <4>. QED
        BY <2>1, <4>1 DEF Reject, Types
    <3>. QED
      BY <3>1, <3>2, EndingByRelease
  <2>2. ASSUME NEW x \in Controls, control' = [control EXCEPT ![x] = "failed"],
               UNCHANGED <<cancelling, target, earlier>>
        PROVE  EndingOf(c, r)'
    <3>1. control'[c] = control[c] \/ control'[c] = "failed"
      BY <2>2 DEF Types
    <3>. QED
      BY <2>2, <3>1, EndingKept
  <2>. QED
    BY <1>1, <1>6, <2>1, <2>2, FailureCases
<1>7. CASE Crash
  <2>1. /\ earlier' = earlier /\ control'[c] \in {"idle", "done", "failed"}
        /\ r \in Runs /\ exec'[r] \notin {"begin", "child"}
    BY <1>7 DEF Crash, Executing, Types
  <2>2. exec'[r] \notin {"none", "sending"}
    BY <2>1, ExecMoves DEF Ending, EndingOf
  <2>. QED
    BY <2>1, <2>2 DEF EndingOf
<1>8. ASSUME NEW x \in Controls, NEW k \in {"stop", "delete"}, RequestCancel(x, k)
      PROVE  EndingOf(c, r)'
  BY <1>8, EndingByCancel
<1>9. ASSUME NEW x \in Runs, ChildCloses(x) PROVE EndingOf(c, r)'
  BY <1>9, EndingByClose
<1>. QED
  BY <1>1, <1>2, <1>3, <1>4, <1>5, <1>6, <1>7, <1>8, <1>9
     DEF Next, Write, SendMessage, WriteSend, WriteBegin, Expire, Restart, vars
-----------------------------------------------------------------------------
(* The Agent.                                                               *)

LEMMA BusyStep ==
  Types /\ Queued /\ Supervised /\ BusyHasRun /\ [Next]_vars => BusyHasRun'
<1>. SUFFICES ASSUME Types, Queued, Supervised, BusyHasRun, [Next]_vars,
                     up', agent' = "busy", faults' = 0
              PROVE  \E r \in Runs : Executing(r)'
  BY DEF BusyHasRun
<1>. USE DEF storeVars, runnerVars, controlVars, requestVars, boundVars
<1>1. ASSUME up, agent = "busy", faults = 0,
             \A r \in Runs : Executing(r) => Executing(r)'
      PROVE  \E r \in Runs : Executing(r)'
  BY <1>1 DEF BusyHasRun
<1>2. ASSUME NEW r \in Runs, SendMessage(r) PROVE \E x \in Runs : Executing(x)'
  BY <1>1, <1>2 DEF SendMessage, Executing, Types
<1>3. ASSUME NEW r \in Runs, WriteSend(r) PROVE \E x \in Runs : Executing(x)'
  <2>1. up /\ exec[r] = "sending"
    BY <1>3, RunWrites DEF WriteSend, RunOps, Writes
  <2>2. CASE Accepts
    BY <1>3, <2>2 DEF WriteSend, Executing, Types
  <2>3. CASE ~Accepts
    <3>1. /\ UNCHANGED <<agent, faults>> /\ exec' = [exec EXCEPT ![r] = "refused"]
      BY <1>3, <2>3 DEF WriteSend
    <3>. QED
      BY <1>1, <2>1, <3>1 DEF Executing, Types
  <2>. QED
    BY <2>2, <2>3
<1>4. ASSUME NEW r \in Runs, WriteBegin(r) PROVE \E x \in Runs : Executing(x)'
  BY <1>4 DEF WriteBegin, Invoke, Finish, Spawn, Executing, Types
<1>5. ASSUME NEW r \in Runs, ChildCloses(r) PROVE \E x \in Runs : Executing(x)'
  <2>1. PICK outcome \in Closing : exec' = [exec EXCEPT ![r] = outcome]
    BY <1>5 DEF ChildCloses, Outcomes, Closing
  <2>. QED
    BY <2>1 DEF Executing, Closing, Types
<1>6. ASSUME NEW r \in Runs, WriteFinish(r) PROVE FALSE
  BY <1>6 DEF WriteFinish, AgentAfter
<1>7. ASSUME NEW c \in Controls, WriteControl(c) PROVE \E x \in Runs : Executing(x)'
  <2>1. agent = "busy" /\ up /\ UNCHANGED <<exec, faults>>
    BY <1>7 DEF WriteControl, Writes
  <2>. QED
    BY <1>1, <2>1 DEF Executing
<1>8. CASE WriteFails
  BY <1>8 DEF WriteFails, Types
<1>9. CASE Crash
  BY <1>9 DEF Crash
<1>10. CASE Restart
  BY <1>10 DEF Restart
<1>11. CASE UNCHANGED <<up, agent, faults, exec>>
  BY <1>1, <1>11 DEF Executing
<1>. QED
  BY <1>2, <1>3, <1>4, <1>5, <1>6, <1>7, <1>8, <1>9, <1>10, <1>11
     DEF Next, Write, RequestCancel, RequestStart, Archive, Expire, vars

LEMMA DeletedStep ==
  Types /\ Queued /\ Asked /\ DeletedLeavesNothing /\ [Next]_vars => DeletedLeavesNothing'
<1>. SUFFICES ASSUME Types, Queued, Asked, DeletedLeavesNothing, [Next]_vars,
                     agent' = "deleted"
              PROVE  workspace' = "archived" /\ \A r \in Runs : ~Stored(r)'
  BY DEF DeletedLeavesNothing
<1>. USE DEF storeVars, runnerVars, controlVars, requestVars, boundVars
<1>1. ASSUME agent = "deleted"
      PROVE  workspace = "archived" /\ \A r \in Runs : ~Stored(r)
  BY <1>1 DEF DeletedLeavesNothing
<1>2. ASSUME NEW r \in Runs, WriteSend(r)
      PROVE  workspace' = "archived" /\ \A x \in Runs : ~Stored(x)'
  BY <1>1, <1>2 DEF WriteSend, Stored
<1>3. ASSUME NEW r \in Runs, WriteBegin(r)
      PROVE  workspace' = "archived" /\ \A x \in Runs : ~Stored(x)'
  BY <1>1, <1>3 DEF WriteBegin, Stored, Types
<1>4. ASSUME NEW r \in Runs, WriteFinish(r)
      PROVE  workspace' = "archived" /\ \A x \in Runs : ~Stored(x)'
  <2>1. agent = "deleted"
    BY <1>4 DEF WriteFinish, AgentAfter
  <2>2. UNCHANGED workspace /\ run' = run
    BY <1>1, <1>4, <2>1 DEF WriteFinish, Types
  <2>. QED
    BY <1>1, <2>1, <2>2 DEF Stored
<1>5. ASSUME NEW c \in Controls, WriteControl(c)
      PROVE  workspace' = "archived" /\ \A x \in Runs : ~Stored(x)'
  <2>1. workspace' = workspace
    BY <1>5 DEF WriteControl
  <2>2. CASE Writes("delete", c)
    <3>1. control[c] = "storing" /\ kind[c] = "delete"
      BY <2>2, ControlWrites DEF ControlOps
    <3>2. workspace = "archived"
      BY <3>1 DEF Asked, AskedOf
    <3>3. ~Writes("stop", c) /\ ~Writes("start", c)
      BY <2>2 DEF Writes
    <3>4. run' = [r \in Runs |-> IF Stored(r) THEN "removed" ELSE run[r]]
      BY <1>5, <3>3 DEF WriteControl
    <3>. QED
      BY <2>1, <3>2, <3>4 DEF Stored
  <2>3. CASE ~Writes("delete", c)
    <3>1. agent = "deleted" /\ run' = run
      BY <1>5, <2>3 DEF WriteControl
    <3>. QED
      BY <1>1, <2>1, <3>1 DEF Stored
  <2>. QED
    BY <2>2, <2>3
<1>6. CASE Restart
  BY <1>1, <1>6 DEF Restart, Stored, Types
<1>7. ASSUME NEW c \in Controls, Archive(c)
      PROVE  workspace' = "archived" /\ \A x \in Runs : ~Stored(x)'
  BY <1>1, <1>7 DEF Archive, Stored
<1>8. CASE UNCHANGED <<agent, run, workspace>>
  BY <1>1, <1>8 DEF Stored
<1>. QED
  BY <1>2, <1>3, <1>4, <1>5, <1>6, <1>7, <1>8
     DEF Next, Write, SendMessage, RequestCancel, RequestStart, WriteFails, Expire, ChildCloses,
         Crash, vars

(* The record of a run is written once more after its outcome, at most to   *)
(* remove it.                                                               *)
LEMMA OutcomeStep ==
  Types /\ Queued /\ Records /\ [Next]_vars
  => \A r \in Runs : run[r] \in {"completed", "failed", "cancelled"} =>
                        run'[r] \in {run[r], "removed"}
<1>. SUFFICES ASSUME Types, Queued, Records, [Next]_vars, NEW r \in Runs,
                     run[r] \in {"completed", "failed", "cancelled"}
              PROVE  run'[r] \in {run[r], "removed"}
  OBVIOUS
<1>. USE DEF storeVars, runnerVars, controlVars, requestVars, boundVars
<1>1. ASSUME NEW x \in Runs, WriteSend(x) PROVE run'[r] \in {run[r], "removed"}
  <2>1. exec[x] = "sending"
    BY <1>1, RunWrites DEF WriteSend, RunOps
  <2>2. x # r
    BY <2>1 DEF Records
  <2>. QED
    BY <1>1, <2>2 DEF WriteSend, Types
<1>2. ASSUME NEW x \in Runs, WriteBegin(x) PROVE run'[r] \in {run[r], "removed"}
  <2>1. exec[x] = "begin"
    BY <1>2, RunWrites DEF WriteBegin, RunOps
  <2>2. x # r
    BY <2>1 DEF Records
  <2>. QED
    BY <1>2, <2>2 DEF WriteBegin, Types
<1>3. ASSUME NEW x \in Runs, WriteFinish(x) PROVE run'[r] \in {run[r], "removed"}
  <2>1. exec[x] \in Closing
    BY <1>3, RunWrites DEF WriteFinish, RunOps
  <2>2. x # r
    BY <2>1 DEF Records
  <2>. QED
    BY <1>3, <2>2 DEF WriteFinish, Types
<1>4. ASSUME NEW c \in Controls, WriteControl(c) PROVE run'[r] \in {run[r], "removed"}
  BY <1>4 DEF WriteControl, Types
<1>5. CASE Restart
  BY <1>5 DEF Restart, Types
<1>6. CASE UNCHANGED run
  BY <1>6
<1>. QED
  BY <1>1, <1>2, <1>3, <1>4, <1>5, <1>6
     DEF Next, Write, SendMessage, RequestCancel, RequestStart, Archive, WriteFails, Expire,
         ChildCloses, Crash, vars
-----------------------------------------------------------------------------
LEMMA Initially == Init => Inv
<1>. SUFFICES ASSUME Init PROVE Inv
  OBVIOUS
<1>1. Types
  <2>1. faults \in Nat /\ crashes \in Nat /\ faults + crashes <= MaxMishaps
    BY BoundsAssumption DEF Init
  <2>. QED
    BY <2>1 DEF Init, Types
<1>2. Registered /\ Newest /\ Supervised /\ Records
  BY DEF Init, Registered, Newest, Supervised, Records, Alive, Closing, Executing
<1>3. Asked /\ Ending
  BY DEF Init, Asked, AskedOf, Ending
<1>4. Queued
  BY EmptySeq, LenProperties DEF Init, Queued, Sound
<1>5. BusyHasRun /\ DeletedLeavesNothing
  BY DEF Init, BusyHasRun, DeletedLeavesNothing
<1>. QED
  BY <1>1, <1>2, <1>3, <1>4, <1>5 DEF Inv

(* The invariant is inductive.                                              *)
LEMMA Invariance == Spec => []Inv
<1>1. Inv /\ [Next]_vars => Inv'
  BY TypesStep, QueuedStep, RunnerStep, NewestStep, RecordsStep, AskedStep, EndingStep,
     BusyStep, DeletedStep
     DEF Inv
<1>. QED
  BY <1>1, Initially, PTL DEF Spec

(* TypeOK: activeExecutions, the map of the runner and the queue of the     *)
(* store refer to runs and requests that are really under way.              *)
THEOREM AgentTypeCorrect == Spec => []TypeOK
<1>1. Inv => TypeOK
  BY TypesSuffice DEF Inv
<1>. QED
  BY <1>1, Invariance, PTL

(* OneProcess: the Agent never has two processes, and a cancel finds the    *)
(* one it has, however many runs overlap.                                   *)
THEOREM ProcessesAreExclusive == Spec => []OneProcess
<1>1. Inv => OneProcess
  BY DEF Inv, Supervised, OneProcess
<1>. QED
  BY <1>1, Invariance, PTL

(* StopEndsEarlierRuns: stopAgent and deleteAgent return when the runs they *)
(* found are over, those excepted that another request let begin.           *)
THEOREM StopsEndWhatTheyFound == Spec => []StopEndsEarlierRuns
<1>1. Inv => StopEndsEarlierRuns
  <2>. SUFFICES ASSUME Inv, NEW c \in Controls, control[c] = "done", NEW r \in earlier[c]
                PROVE  ~Alive(r) /\ exec[r] # "begin"
    BY DEF StopEndsEarlierRuns
  <2>1. EndingOf(c, r) /\ r \in Runs
    BY DEF Inv, Ending, Types
  <2>. QED
    BY <2>1 DEF EndingOf, Inv, Supervised
<1>. QED
  BY <1>1, Invariance, PTL

(* BusyHasRun: an Agent that stays busy has a run that will end that.       *)
THEOREM BusyAgentsHaveRuns == Spec => []BusyHasRun
<1>1. Inv => BusyHasRun
  BY DEF Inv
<1>. QED
  BY <1>1, Invariance, PTL

(* DeletedLeavesNothing: deleteAgent is complete, and what ends after it    *)
(* brings nothing back.                                                     *)
THEOREM DeletionIsComplete == Spec => []DeletedLeavesNothing
<1>1. Inv => DeletedLeavesNothing
  BY DEF Inv
<1>. QED
  BY <1>1, Invariance, PTL

(* OutcomeIsFinal: executeRun, a restart and a delete leave the outcome of  *)
(* a run as it is, or remove the run.                                       *)
THEOREM OutcomesStand == Spec => OutcomeIsFinal
<1>1. Inv /\ [Next]_vars => [\A r \in Runs : run[r] \in {"completed", "failed", "cancelled"} =>
                                               run'[r] \in {run[r], "removed"}]_vars
  BY OutcomeStep DEF Inv
<1>. QED
  BY <1>1, Invariance, PTL DEF Spec, OutcomeIsFinal
-----------------------------------------------------------------------------
(* What EverythingEnds rests on: nobody waits for nothing.  Who waits for a *)
(* mutation has it in the queue; a request that waits for a process waits   *)
(* for one that was signalled; one that waits for an execution waits for    *)
(* one that is not over.                                                    *)

In(q, e) == \E i \in DOMAIN q : q[i] = e

RunWaits(r) ==
    /\ exec[r] = "sending" => In(queue, <<"send", r>>)
    /\ exec[r] = "begin" => In(queue, <<"begin", r>>)
    /\ exec[r] \in Closing => In(queue, <<"finish", r>>)

RequestWaits(c) ==
    /\ control[c] = "settling" => child[target[c]] \in {"terminated", "stillborn"}
    /\ control[c] = "awaiting" => target[c] \in Runs /\ Executing(target[c])
    /\ control[c] = "storing" => In(queue, <<kind[c], c>>)

NobodyIsForgotten ==
    /\ \A r \in Runs : RunWaits(r)
    /\ \A c \in Controls : RequestWaits(c)

LEMMA InAppend ==
  ASSUME NEW q \in Seq(Entries), NEW e \in Entries
  PROVE  /\ In(Append(q, e), e)
         /\ \A x : In(q, x) => In(Append(q, e), x)
BY AppendFacts DEF In

LEMMA InTail ==
  ASSUME NEW q \in Seq(Entries), q # <<>>
  PROVE  \A x : In(q, x) /\ x # Head(q) => In(Tail(q), x)
<1>1. ASSUME NEW x, NEW i \in DOMAIN q, q[i] = x, x # Head(q) PROVE In(Tail(q), x)
  <2>1. i # 1
    BY <1>1, TailFacts
  <2>2. i - 1 \in DOMAIN Tail(q) /\ Tail(q)[i - 1] = x
    BY <1>1, <2>1, TailFacts
  <2>. QED
    BY <2>2 DEF In
<1>. QED
  BY <1>1 DEF In

LEMMA InConcat ==
  ASSUME NEW q \in Seq(Entries), NEW s \in Seq(Entries)
  PROVE  \A x : In(q, x) \/ In(s, x) => In(q \o s, x)
<1>1. DOMAIN q = 1..Len(q) /\ Len(q) \in Nat /\ DOMAIN s = 1..Len(s) /\ Len(s) \in Nat
  BY LenProperties
<1>2. /\ q \o s \in Seq(Entries) /\ Len(q \o s) = Len(q) + Len(s)
      /\ \A i \in 1..Len(q) + Len(s) :
            (q \o s)[i] = IF i <= Len(q) THEN q[i] ELSE s[i - Len(q)]
  BY ConcatProperties
<1>3. DOMAIN (q \o s) = 1..Len(q) + Len(s)
  BY <1>2, LenProperties
<1>4. ASSUME NEW x, NEW i \in DOMAIN s, s[i] = x PROVE In(q \o s, x)
  <2>1. /\ Len(q) + i \in 1..Len(q) + Len(s)
        /\ ~(Len(q) + i <= Len(q)) /\ (Len(q) + i) - Len(q) = i
    BY <1>1
  <2>. QED
    BY <1>2, <1>3, <1>4, <2>1 DEF In
<1>. QED
  BY <1>4, ConcatFacts DEF In

(* Every stop that is released gets its mutation.                           *)
LEMMA ReleaseQueues ==
  ASSUME NEW W \in SUBSET Controls, NEW rest \in Seq(Entries), Release(W, rest)
  PROVE  /\ \A x : In(rest, x) => In(queue', x)
         /\ \A c \in W : kind'[c] = "stop" => In(queue', <<"stop", c>>)
<1>. DEFINE S == {c \in W : kind'[c] = "stop"}
<1>1. PICK stops \in SetToSeqs(S) : queue' = rest \o [i \in DOMAIN stops |-> <<"stop", stops[i]>>]
  BY DEF Release
<1>. DEFINE n == Cardinality(S)
            s == [i \in DOMAIN stops |-> <<"stop", stops[i]>>]
<1>2. IsFiniteSet(S) /\ n \in Nat /\ S \subseteq Controls
  BY NumberAssumption, FS_Subset, FS_CardinalityType
<1>3. stops \in [1..n -> S] /\ \A i, j \in 1..n : i # j => stops[i] # stops[j]
  BY <1>1 DEF SetToSeqs
<1>4. IsFiniteSet(1..n) /\ Cardinality(1..n) = n
  BY <1>2, FS_Interval
<1>. HIDE DEF S, n
<1>5. stops \in Injection(1..n, S)
  BY <1>3 DEF Injection, IsInjective
<1>6. stops \in Surjection(1..n, S)
  BY <1>2, <1>4, <1>5, FS_Injection DEF n
<1>7. \A c \in S : \E i \in 1..n : stops[i] = c
  BY <1>6 DEF Surjection
<1>8. s \in [1..n -> Entries]
  BY <1>2, <1>3 DEF Entries, ControlOps
<1>9. s \in Seq(Entries)
  BY <1>2, <1>8, SeqDef
<1>10. \A c \in S : In(s, <<"stop", c>>)
  BY <1>3, <1>7 DEF In
<1>11. queue' = rest \o s
  BY <1>1
<1>. HIDE DEF s
<1>12. \A x : In(rest, x) \/ In(s, x) => In(queue', x)
  BY <1>9, <1>11, InConcat
<1>. QED
  BY <1>10, <1>12 DEF S

(* A caller that does not move, and whose entry stays.                      *)
Keeps(e) == In(queue, e) => In(queue', e)

LEMMA RunStays ==
  ASSUME NEW r, RunWaits(r), exec'[r] = exec[r], \A op \in RunOps : Keeps(<<op, r>>)
  PROVE  RunWaits(r)'
BY DEF RunWaits, Keeps, RunOps, Closing

(* What a mutation of another caller leaves in the queue.                   *)
LEMMA OthersKept ==
  ASSUME Queued, NEW op, NEW id, Writes(op, id)
  PROVE  /\ Tail(queue) \in Seq(Entries)
         /\ \A o, x : (o # op \/ x # id) /\ In(queue, <<o, x>>) => In(Tail(queue), <<o, x>>)
<1>1. queue \in Seq(Entries) /\ queue # <<>> /\ Head(queue) = <<op, id>>
  BY DEF Queued, Sound, Writes
<1>2. \A o, x : o # op \/ x # id => <<o, x>> # Head(queue)
  BY <1>1
<1>. QED
  BY <1>1, <1>2, InTail, TailFacts
(* The callers of sendMessage and executeRun.                               *)
LEMMA RunsWaitStep ==
  Types /\ Queued /\ Supervised /\ Asked /\ (\A r \in Runs : RunWaits(r)) /\ [Next]_vars
    => \A r \in Runs : RunWaits(r)'
<1>. SUFFICES ASSUME Types, Queued, Supervised, Asked, \A x \in Runs : RunWaits(x), [Next]_vars,
                     NEW r \in Runs
              PROVE  RunWaits(r)'
  OBVIOUS
<1>. USE DEF storeVars, runnerVars, controlVars, requestVars, boundVars
<1>0. queue \in Seq(Entries) /\ RunWaits(r)
  BY DEF Queued, Sound
<1>1. ASSUME NEW x \in Runs, SendMessage(x) PROVE RunWaits(r)'
  <2>1. /\ exec' = [exec EXCEPT ![x] = "sending"] /\ queue' = Append(queue, <<"send", x>>)
        /\ <<"send", x>> \in Entries
    BY <1>1 DEF SendMessage, Entries, RunOps
  <2>2. /\ In(queue', <<"send", x>>)
        /\ \A e : In(queue, e) => In(queue', e)
    BY <1>0, <2>1, InAppend
  <2>. QED
    BY <1>0, <2>1, <2>2 DEF Types, RunWaits, Closing
<1>2. ASSUME exec' = exec, \A e : In(queue, e) => In(queue', e) PROVE RunWaits(r)'
  BY <1>0, <1>2 DEF RunWaits
<1>3. ASSUME NEW c \in Controls, NEW k \in {"stop", "delete"}, RequestCancel(c, k)
      PROVE  RunWaits(r)'
  <2>1. exec' = exec
    BY <1>3 DEF RequestCancel
  <2>2. queue' = queue \/ \E s \in Seq(Entries) : queue' = queue \o s
    BY <1>3, QueuedByCancel
  <2>. QED
    BY <1>0, <1>2, <2>1, <2>2, InConcat
<1>4. ASSUME NEW c \in Controls, RequestStart(c) \/ Archive(c) PROVE RunWaits(r)'
  <2>1. /\ exec' = exec
        /\ queue' = queue \/ \E op \in ControlOps : queue' = Append(queue, <<op, c>>)
    BY <1>4, QueuedByArchive DEF RequestStart, Archive, ControlOps
  <2>2. \A op \in ControlOps : <<op, c>> \in Entries
    BY DEF Entries
  <2>. QED
    BY <1>0, <1>2, <2>1, <2>2, InAppend
<1>5. ASSUME NEW x \in Runs, WriteSend(x) PROVE RunWaits(r)'
  <2>1. Writes("send", x) /\ <<"begin", x>> \in Entries
    BY <1>5 DEF WriteSend, Entries, RunOps
  <2>2. CASE Accepts
    <3>1. /\ exec' = [exec EXCEPT ![x] = "begin"]
          /\ queue' = Append(Tail(queue), <<"begin", x>>)
      BY <1>5, <2>2 DEF WriteSend
    <3>2. /\ In(queue', <<"begin", x>>)
          /\ \A o, y : (o # "send" \/ y # x) /\ In(queue, <<o, y>>) => In(queue', <<o, y>>)
      <4>1. Tail(queue) \in Seq(Entries)
        BY <2>1, OthersKept
      <4>2. In(queue', <<"begin", x>>) /\ \A e : In(Tail(queue), e) => In(queue', e)
        BY <2>1, <3>1, <4>1, InAppend
      <4>. QED
        BY <2>1, <4>2, OthersKept
    <3>. QED
      BY <1>0, <3>1, <3>2 DEF Types, RunWaits, Closing
  <2>3. CASE ~Accepts
    <3>1. exec' = [exec EXCEPT ![x] = "refused"] /\ queue' = Tail(queue)
      BY <1>5, <2>3 DEF WriteSend
    <3>2. \A o, y : (o # "send" \/ y # x) /\ In(queue, <<o, y>>) => In(queue', <<o, y>>)
      BY <2>1, <3>1, OthersKept
    <3>. QED
      BY <1>0, <3>1, <3>2 DEF Types, RunWaits, Closing
  <2>. QED
    BY <2>2, <2>3
<1>6. ASSUME NEW x \in Runs, NEW op \in RunOps, Writes(op, x),
             NEW as \in Closing, Finish(x, as, Tail(queue))
      PROVE  RunWaits(r)'
  <2>1. /\ exec' = [exec EXCEPT ![x] = as] /\ queue' = Append(Tail(queue), <<"finish", x>>)
        /\ <<"finish", x>> \in Entries
    BY <1>6 DEF Finish, Entries, RunOps
  <2>2. /\ In(queue', <<"finish", x>>)
        /\ \A o, y : (o # op \/ y # x) /\ In(queue, <<o, y>>) => In(queue', <<o, y>>)
    <3>1. Tail(queue) \in Seq(Entries)
      BY <1>6, OthersKept
    <3>2. In(queue', <<"finish", x>>) /\ \A e : In(Tail(queue), e) => In(queue', e)
      BY <2>1, <3>1, InAppend
    <3>. QED
      BY <1>6, <3>2, OthersKept
  <2>. QED
    BY <1>0, <2>1, <2>2 DEF Types, RunWaits, Closing
<1>7. ASSUME NEW x \in Runs, WriteBegin(x) PROVE RunWaits(r)'
  <2>1. Writes("begin", x) /\ Invoke(x)
    BY <1>7 DEF WriteBegin
  <2>2. CASE \E as \in Closing : Finish(x, as, Tail(queue))
    BY <1>6, <2>1, <2>2 DEF RunOps
  <2>3. CASE Spawn(x)
    <3>1. exec' = [exec EXCEPT ![x] = "child"] /\ queue' = Tail(queue)
      BY <2>3 DEF Spawn
    <3>2. \A o, y : (o # "begin" \/ y # x) /\ In(queue, <<o, y>>) => In(queue', <<o, y>>)
      BY <2>1, <3>1, OthersKept
    <3>. QED
      BY <1>0, <3>1, <3>2 DEF Types, RunWaits, Closing
  <2>. QED
    BY <2>1, <2>2, <2>3 DEF Invoke, Closing
<1>8. ASSUME NEW x \in Runs, WriteFinish(x) PROVE RunWaits(r)'
  <2>1. Writes("finish", x) /\ exec' = [exec EXCEPT ![x] = "ended"]
    BY <1>8 DEF WriteFinish
  <2>2. PICK s \in Seq(Entries) : queue' = Tail(queue) \o s
    BY <1>8, QueuedByWriteFinish
  <2>3. \A o, y : (o # "finish" \/ y # x) /\ In(queue, <<o, y>>) => In(queue', <<o, y>>)
    <3>1. Tail(queue) \in Seq(Entries)
      BY <2>1, OthersKept
    <3>2. \A e : In(Tail(queue), e) => In(queue', e)
      BY <2>2, <3>1, InConcat
    <3>. QED
      BY <2>1, <3>2, OthersKept
  <2>. QED
    BY <1>0, <2>1, <2>3 DEF Types, RunWaits, Closing
<1>9. ASSUME NEW c \in Controls, NEW op \in ControlOps, Writes(op, c),
             exec' = exec, queue' = Tail(queue)
      PROVE  RunWaits(r)'
  <2>1. \A o, y : o # op /\ In(queue, <<o, y>>) => In(queue', <<o, y>>)
    BY <1>9, OthersKept
  <2>2. \A o \in RunOps : o # op
    BY DEF RunOps, ControlOps
  <2>. QED
    BY <1>0, <1>9, <2>1, <2>2 DEF RunWaits, RunOps
<1>10. ASSUME NEW c \in Controls, WriteControl(c) PROVE RunWaits(r)'
  <2>1. (\E op \in ControlOps : Writes(op, c)) /\ exec' = exec /\ queue' = Tail(queue)
    BY <1>10, QueuedByWriteControl DEF WriteControl
  <2>. QED
    BY <1>9, <2>1
<1>11. CASE WriteFails
  <2>1. ASSUME NEW x \in Runs, NEW op \in RunOps, Writes(op, x), queue' = Tail(queue),
               NEW as \in {"refused", "rejected"}, exec' = [exec EXCEPT ![x] = as]
        PROVE  RunWaits(r)'
    <3>1. \A o, y : (o # op \/ y # x) /\ In(queue, <<o, y>>) => In(queue', <<o, y>>)
      BY <2>1, OthersKept
    <3>. QED
      BY <1>0, <2>1, <3>1 DEF Types, RunWaits, Closing
  <2>. QED
    BY <1>6, <1>9, <1>11, <2>1, FailureCases DEF Reject, RunOps, Closing
<1>12. ASSUME NEW x \in Runs, ChildCloses(x) PROVE RunWaits(r)'
  <2>1. PICK outcome \in Closing : exec' = [exec EXCEPT ![x] = outcome]
    BY <1>12 DEF ChildCloses, Outcomes, Closing
  <2>2. <<"finish", x>> \in Entries /\ Append(queue, <<"finish", x>>) \in Seq(Entries)
    BY <1>0, AppendFacts DEF Entries, RunOps
  <2>3. \A e : In(queue, e) \/ e = <<"finish", x>> => In(queue', e)
    <3>1. \A e : In(queue, e) \/ e = <<"finish", x>> => In(Append(queue, <<"finish", x>>), e)
      BY <1>0, <2>2, InAppend
    <3>2. \/ queue' = Append(queue, <<"finish", x>>)
          \/ \E s \in Seq(Entries) : queue' = Append(queue, <<"finish", x>>) \o s
      BY <1>12, QueuedByClose
    <3>3. \A e : In(Append(queue, <<"finish", x>>), e) => In(queue', e)
      BY <2>2, <3>2, InConcat
    <3>. QED
      BY <3>1, <3>3
  <2>. QED
    BY <1>0, <2>1, <2>3 DEF Types, RunWaits, Closing
<1>13. CASE Crash
  BY <1>13 DEF Crash, Types, RunWaits, Closing, Executing
<1>14. CASE UNCHANGED <<exec, queue>>
  BY <1>2, <1>14
<1>. QED
  BY <1>1, <1>3, <1>4, <1>5, <1>7, <1>8, <1>10, <1>11, <1>12, <1>13, <1>14
     DEF Next, Write, Expire, Restart, vars

(* The requests to stop, start or delete.                                   *)
LEMMA RequestStays ==
  ASSUME NEW c, RequestWaits(c), control'[c] = control[c], target'[c] = target[c],
         kind'[c] = kind[c],
         control[c] = "settling" => child'[target[c]] = child[target[c]],
         control[c] = "awaiting" /\ Executing(target[c]) => Executing(target[c])',
         control[c] = "storing" => Keeps(<<kind[c], c>>)
  PROVE  RequestWaits(c)'
BY DEF RequestWaits, Keeps, Executing

LEMMA RequestsWaitStep ==
  ASSUME Types, Queued, Registered, Supervised, Asked,
         \A c \in Controls : RequestWaits(c), [Next]_vars
  PROVE  \A c \in Controls : RequestWaits(c)'
<1>. SUFFICES ASSUME NEW d \in Controls PROVE RequestWaits(d)'
  OBVIOUS
<1>. USE DEF storeVars, runnerVars, controlVars, requestVars, boundVars
<1>0. queue \in Seq(Entries) /\ RequestWaits(d) /\ AskedOf(d)
  BY DEF Queued, Sound, Asked
<1>1. ASSUME NEW x \in Runs, SendMessage(x) PROVE RequestWaits(d)'
  <2>1. /\ exec' = [exec EXCEPT ![x] = "sending"] /\ exec[x] = "none"
        /\ queue' = Append(queue, <<"send", x>>) /\ <<"send", x>> \in Entries
        /\ UNCHANGED <<control, target, kind, child>>
    BY <1>1 DEF SendMessage, Entries, RunOps
  <2>2. \A e : In(queue, e) => In(queue', e)
    BY <1>0, <2>1, InAppend
  <2>3. \A t \in Runs : Executing(t) => Executing(t)'
    BY <2>1 DEF Executing, Types
  <2>4. control[d] = "awaiting" => target[d] \in Runs
    BY <1>0 DEF RequestWaits
  <2>. QED
    BY <1>0, <2>1, <2>2, <2>3, <2>4, RequestStays DEF Keeps
<1>2. ASSUME NEW c \in Controls, NEW k \in {"stop", "delete"}, RequestCancel(c, k)
      PROVE  RequestWaits(d)'
  <2>1. exec' = exec /\ latest' = latest /\ kind' = [kind EXCEPT ![c] = k] /\ Cancel(c)
    BY <1>2 DEF RequestCancel
  <2>2. queue' = queue \/ \E s \in Seq(Entries) : queue' = queue \o s
    BY <1>2, QueuedByCancel
  <2>3. \A e : In(queue, e) => In(queue', e)
    BY <1>0, <2>2, InConcat
  <2>4. active # None => /\ active \in Runs /\ Alive(active)
                         /\ child'[active] \in {"terminated", "stillborn"}
    <3>1. active # None => active \in Runs /\ Alive(active)
      BY DEF Registered, Supervised
    <3>2. active # None => child' = [child EXCEPT ![active] =
                                       IF @ = "alive" THEN "terminated" ELSE @]
      BY <2>1 DEF Cancel, Terminate
    <3>. QED
      BY <3>1, <3>2 DEF Alive, Types
  <2>5. CASE d = c
    <3>1. kind'[d] = k
      BY <2>1, <2>5 DEF Types
    <3>2. CASE active # None
      <4>1. control'[d] = "settling" /\ target'[d] = active
        BY <2>1, <2>5, <3>2 DEF Cancel, Wait
      <4>. QED
        BY <2>4, <3>2, <4>1 DEF RequestWaits
    <3>3. CASE active = None /\ latest # None
      <4>1. control'[d] = "awaiting" /\ target'[d] = latest
        BY <2>1, <2>5, <3>3 DEF Cancel, Wait
      <4>. QED
        BY <2>1, <3>3, <4>1 DEF RequestWaits, Registered, Executing
    <3>4. CASE active = None /\ latest = None
      <4>1. Release({c}, queue)
        BY <2>1, <3>4 DEF Cancel
      <4>2. control'[d] = IF kind'[d] = "stop" THEN "storing" ELSE "archiving"
        BY <2>5, <4>1 DEF Release
      <4>3. kind'[d] = "stop" => In(queue', <<"stop", d>>)
        BY <1>0, <2>5, <4>1, ReleaseQueues
      <4>. QED
        BY <4>2, <4>3 DEF RequestWaits
    <3>. QED
      BY <3>2, <3>3, <3>4
  <2>6. CASE d # c
    <3>1. kind'[d] = kind[d] /\ control'[d] = control[d] /\ target'[d] = target[d]
      BY <2>1, <2>6 DEF Types, Cancel, Wait, Release
    <3>2. control[d] = "settling" => child'[target[d]] \in {"terminated", "stillborn"}
      BY <1>0, <2>4, NoneAssumption DEF AskedOf
    <3>. QED
      BY <1>0, <2>1, <2>3, <3>1, <3>2 DEF RequestWaits, Executing
  <2>. QED
    BY <2>5, <2>6
<1>3. ASSUME NEW c \in Controls, NEW op \in ControlOps, queue' = Append(queue, <<op, c>>),
             control' = [control EXCEPT ![c] = "storing"], kind'[c] = op,
             d # c => kind'[d] = kind[d], UNCHANGED <<exec, child, target>>
      PROVE  RequestWaits(d)'
  <2>1. <<op, c>> \in Entries
    BY DEF Entries
  <2>2. In(queue', <<op, c>>) /\ \A e : In(queue, e) => In(queue', e)
    BY <1>0, <1>3, <2>1, InAppend
  <2>. QED
    BY <1>0, <1>3, <2>2 DEF RequestWaits, Executing, Types
<1>4. ASSUME NEW c \in Controls, RequestStart(c) PROVE RequestWaits(d)'
  BY <1>3, <1>4 DEF RequestStart, ControlOps, Types
<1>5. ASSUME NEW c \in Controls, Archive(c) PROVE RequestWaits(d)'
  <2>1. kind[c] = "delete" /\ UNCHANGED <<exec, child, target, kind>>
    BY <1>5 DEF Archive, Asked, AskedOf
  <2>2. CASE workspace = "present"
    BY <1>3, <1>5, <2>1, <2>2 DEF Archive, ControlOps
  <2>3. CASE workspace # "present"
    <3>1. control' = [control EXCEPT ![c] = "failed"] /\ queue' = queue
      BY <1>5, <2>3 DEF Archive
    <3>. QED
      BY <1>0, <2>1, <3>1 DEF RequestWaits, Executing, Types
  <2>. QED
    BY <2>2, <2>3
<1>6. ASSUME NEW op \in RunOps, NEW x \in Runs, Writes(op, x),
             \A e : In(Tail(queue), e) => In(queue', e),
             UNCHANGED <<control, target, kind>>,
             control[d] = "settling" => child'[target[d]] = child[target[d]],
             \A t \in Runs : Executing(t) => Executing(t)'
      PROVE  RequestWaits(d)'
  <2>1. \A o, y : o # op /\ In(queue, <<o, y>>) => In(Tail(queue), <<o, y>>)
    BY <1>6, OthersKept
  <2>2. control[d] = "storing" => kind[d] \notin RunOps
    BY <1>0 DEF AskedOf, RunOps, Types
  <2>3. control[d] = "storing" /\ In(queue, <<kind[d], d>>) => In(queue', <<kind[d], d>>)
    BY <1>6, <2>1, <2>2
  <2>. QED
    BY <1>0, <1>6, <2>3 DEF RequestWaits, Executing
<1>7. ASSUME NEW x \in Runs, WriteSend(x) PROVE RequestWaits(d)'
  <2>1. /\ Writes("send", x) /\ exec[x] = "sending"
        /\ UNCHANGED <<control, target, kind, child>>
        /\ \E as \in {"begin", "refused"} : exec' = [exec EXCEPT ![x] = as]
    BY <1>7, RunWrites DEF WriteSend, RunOps
  <2>2. \A e : In(Tail(queue), e) => In(queue', e)
    <3>1. Tail(queue) \in Seq(Entries) /\ <<"begin", x>> \in Entries
      BY <2>1, OthersKept DEF Entries, RunOps
    <3>2. queue' = Tail(queue) \/ queue' = Append(Tail(queue), <<"begin", x>>)
      BY <1>7 DEF WriteSend
    <3>. QED
      BY <3>1, <3>2, InAppend
  <2>3. \A t \in Runs : Executing(t) => Executing(t)'
    BY <2>1 DEF Executing, Types
  <2>. QED
    BY <1>6, <2>1, <2>2, <2>3 DEF RunOps
<1>8. ASSUME NEW x \in Runs, WriteBegin(x) PROVE RequestWaits(d)'
  <2>1. /\ Writes("begin", x) /\ exec[x] = "begin" /\ Invoke(x)
        /\ UNCHANGED <<control, target, kind>>
    BY <1>8, RunWrites DEF WriteBegin, RunOps
  <2>2. PICK as \in {"child"} \cup Closing : exec' = [exec EXCEPT ![x] = as]
    BY <2>1 DEF Invoke, Finish, Spawn, Closing
  <2>3. \A e : In(Tail(queue), e) => In(queue', e)
    <3>1. Tail(queue) \in Seq(Entries) /\ <<"finish", x>> \in Entries
      BY <2>1, OthersKept DEF Entries, RunOps
    <3>2. queue' = Tail(queue) \/ queue' = Append(Tail(queue), <<"finish", x>>)
      BY <2>1 DEF Invoke, Finish, Spawn
    <3>. QED
      BY <3>1, <3>2, InAppend
  <2>4. \A t \in Runs : Executing(t) => Executing(t)'
    BY <2>2 DEF Executing, Closing, Types
  <2>5. control[d] = "settling" => child'[target[d]] = child[target[d]]
    <3>1. control[d] = "settling" => target[d] \in Runs /\ exec[target[d]] = "child"
      BY <1>0, NoneAssumption DEF AskedOf, Registered
    <3>2. \A t \in Runs : t # x => child'[t] = child[t]
      BY <2>1 DEF Invoke, Spawn, Types
    <3>. QED
      BY <2>1, <3>1, <3>2
  <2>. QED
    BY <1>6, <2>1, <2>3, <2>4, <2>5 DEF RunOps
<1>9. ASSUME NEW x \in Runs, WriteFinish(x) PROVE RequestWaits(d)'
  <2>. DEFINE W == Waiting("awaiting", x)
  <2>1. /\ Writes("finish", x) /\ exec' = [exec EXCEPT ![x] = "ended"]
        /\ kind' = kind /\ child' = child /\ Release(W, Tail(queue))
    BY <1>9 DEF WriteFinish
  <2>2. /\ Tail(queue) \in Seq(Entries) /\ W \in SUBSET Controls
        /\ \A o, y : o # "finish" /\ In(queue, <<o, y>>) => In(Tail(queue), <<o, y>>)
    BY <2>1, OthersKept DEF Waiting
  <2>3. CASE d \in W
    <3>1. control'[d] = IF kind'[d] = "stop" THEN "storing" ELSE "archiving"
      BY <2>1, <2>3 DEF Release
    <3>2. kind'[d] = "stop" => In(queue', <<"stop", d>>)
      BY <2>1, <2>2, <2>3, ReleaseQueues
    <3>. QED
      BY <3>1, <3>2 DEF RequestWaits
  <2>4. CASE d \notin W
    <3>1. control'[d] = control[d] /\ target'[d] = target[d]
      BY <2>1, <2>4 DEF Release
    <3>2. control[d] = "storing" => Keeps(<<kind[d], d>>)
      <4>1. control[d] = "storing" => kind[d] # "finish"
        BY <1>0 DEF Types
      <4>2. \A e : In(Tail(queue), e) => In(queue', e)
        BY <2>1, <2>2, ReleaseQueues
      <4>. QED
        BY <2>2, <4>1, <4>2 DEF Keeps
    <3>3. control[d] = "awaiting" => target[d] # x /\ target[d] \in Runs
      BY <1>0, <2>4 DEF Waiting, RequestWaits
    <3>4. control[d] = "awaiting" /\ Executing(target[d]) => Executing(target[d])'
      BY <2>1, <3>1, <3>3 DEF Executing, Types
    <3>. QED
      BY <1>0, <2>1, <3>1, <3>2, <3>4, RequestStays
  <2>. QED
    BY <2>3, <2>4
<1>10. ASSUME NEW c \in Controls, NEW op \in ControlOps, Writes(op, c),
              NEW as \in {"done", "failed"}, control' = [control EXCEPT ![c] = as],
              queue' = Tail(queue), UNCHANGED <<exec, child, target, kind>>
       PROVE  RequestWaits(d)'
  <2>1. \A o, y : y # c /\ In(queue, <<o, y>>) => In(queue', <<o, y>>)
    BY <1>10, OthersKept
  <2>2. CASE d = c
    BY <1>10, <2>2 DEF RequestWaits, Types
  <2>3. CASE d # c
    BY <1>0, <1>10, <2>1, <2>3 DEF RequestWaits, Executing, Types
  <2>. QED
    BY <2>2, <2>3
<1>11. ASSUME NEW c \in Controls, WriteControl(c) PROVE RequestWaits(d)'
  <2>1. /\ \E op \in ControlOps : Writes(op, c)
        /\ \E as \in {"done", "failed"} : control' = [control EXCEPT ![c] = as]
        /\ queue' = Tail(queue) /\ UNCHANGED <<exec, child, target, kind>>
    BY <1>11, QueuedByWriteControl DEF WriteControl
  <2>. QED
    BY <1>10, <2>1
<1>12. CASE WriteFails
  <2>0. kind' = kind /\ child' = child
    BY <1>12 DEF WriteFails
  <2>1. ASSUME NEW x \in Runs, Writes("send", x), exec' = [exec EXCEPT ![x] = "refused"],
               queue' = Tail(queue), UNCHANGED controlVars
        PROVE  RequestWaits(d)'
    <3>1. exec[x] = "sending"
      BY <2>1, RunWrites DEF RunOps
    <3>2. \A t \in Runs : Executing(t) => Executing(t)'
      BY <2>1, <3>1 DEF Executing, Types
    <3>. QED
      BY <1>6, <2>0, <2>1, <3>2 DEF RunOps
  <2>2. ASSUME NEW x \in Runs, Writes("finish", x), Finish(x, "failing", Tail(queue)),
               UNCHANGED controlVars
        PROVE  RequestWaits(d)'
    <3>1. /\ exec' = [exec EXCEPT ![x] = "failing"]
          /\ queue' = Append(Tail(queue), <<"finish", x>>)
          /\ Tail(queue) \in Seq(Entries) /\ <<"finish", x>> \in Entries
      BY <2>2, OthersKept DEF Finish, Entries, RunOps
    <3>2. \A t \in Runs : Executing(t) => Executing(t)'
      BY <3>1 DEF Executing, Types
    <3>3. \A e : In(Tail(queue), e) => In(queue', e)
      BY <3>1, InAppend
    <3>. QED
      BY <1>6, <2>0, <2>2, <3>2, <3>3 DEF RunOps
  <2>3. ASSUME NEW x \in Runs, NEW op \in {"begin", "finish"}, Writes(op, x), Reject(x)
        PROVE  RequestWaits(d)'
    <3>. DEFINE W == Waiting("awaiting", x)
    <3>1. exec' = [exec EXCEPT ![x] = "rejected"] /\ queue' = Tail(queue) /\ ReleaseFailed(W)
      BY <2>3 DEF Reject
    <3>2. CASE d \in W
      BY <3>1, <3>2 DEF ReleaseFailed, RequestWaits
    <3>3. CASE d \notin W
      <4>1. control'[d] = control[d] /\ target'[d] = target[d]
        BY <3>1, <3>3 DEF ReleaseFailed
      <4>2. control[d] = "storing" => Keeps(<<kind[d], d>>)
        <5>1. kind[d] # op
          BY <1>0 DEF Types
        <5>2. \A o, y : o # op /\ In(queue, <<o, y>>) => In(queue', <<o, y>>)
          BY <2>3, <3>1, OthersKept
        <5>. QED
          BY <5>1, <5>2 DEF Keeps
      <4>3. control[d] = "awaiting" => target[d] # x /\ target[d] \in Runs
        BY <1>0, <3>3 DEF Waiting, RequestWaits
      <4>4. control[d] = "awaiting" /\ Executing(target[d]) => Executing(target[d])'
        BY <3>1, <4>1, <4>3 DEF Executing, Types
      <4>. QED
        BY <1>0, <2>0, <4>1, <4>2, <4>4, RequestStays
    <3>. QED
      BY <3>2, <3>3
  <2>. QED
    BY <1>10, <1>12, <2>0, <2>1, <2>2, <2>3, FailureCases
<1>13. ASSUME NEW x \in Runs, Expire(x) PROVE RequestWaits(d)'
  <2>1. /\ child[x] = "alive" /\ child' = [child EXCEPT ![x] = IF @ = "alive" THEN "terminated" ELSE @]
        /\ UNCHANGED <<control, target, kind, exec, queue>>
    BY <1>13 DEF Expire, Terminate
  <2>. QED
    BY <1>0, <2>1 DEF RequestWaits, Executing, Types
<1>14. ASSUME NEW x \in Runs, ChildCloses(x) PROVE RequestWaits(d)'
  <2>. DEFINE W == Waiting("settling", x)
              rest == Append(queue, <<"finish", x>>)
  <2>1. PICK outcome \in Closing : exec' = [exec EXCEPT ![x] = outcome]
    BY <1>14 DEF ChildCloses, Outcomes, Closing
  <2>2. kind' = kind /\ latest' = latest /\ active = x /\ W \in SUBSET Controls
    BY <1>14 DEF ChildCloses, Supervised, Waiting
  <2>3. rest \in Seq(Entries) /\ \A e : In(queue, e) => In(rest, e)
    <3>1. <<"finish", x>> \in Entries
      BY DEF Entries, RunOps
    <3>. QED
      BY <1>0, <3>1, InAppend, AppendFacts
  <2>4. \A t \in Runs : Executing(t) => Executing(t)'
    BY <2>1 DEF Executing, Closing, Types
  <2>5. CASE latest = None
    <3>1. Release(W, rest)
      BY <1>14, <2>5 DEF ChildCloses
    <3>2. /\ \A e : In(rest, e) => In(queue', e)
          /\ \A c \in W : kind'[c] = "stop" => In(queue', <<"stop", c>>)
      BY <2>2, <2>3, <3>1, ReleaseQueues
    <3>3. CASE d \in W
      <4>1. control'[d] = IF kind'[d] = "stop" THEN "storing" ELSE "archiving"
        BY <3>1, <3>3 DEF Release
      <4>. QED
        BY <3>2, <3>3, <4>1 DEF RequestWaits
    <3>4. CASE d \notin W
      <4>1. control'[d] = control[d] /\ target'[d] = target[d] /\ control[d] # "settling"
        BY <1>0, <2>2, <3>1, <3>4 DEF Release, Waiting, AskedOf
      <4>2. In(queue, <<kind[d], d>>) => In(queue', <<kind[d], d>>)
        BY <2>3, <3>2
      <4>. QED
        BY <1>0, <2>2, <2>4, <4>1, <4>2 DEF RequestWaits, Executing
    <3>. QED
      BY <3>3, <3>4
  <2>6. CASE latest # None
    <3>1. Wait(W, "awaiting", latest) /\ queue' = rest
      BY <1>14, <2>6 DEF ChildCloses
    <3>2. CASE d \in W
      <4>1. control'[d] = "awaiting" /\ target'[d] = latest
        BY <3>1, <3>2 DEF Wait
      <4>2. latest \in Runs /\ Executing(latest)'
        BY <2>2, <2>4, <2>6 DEF Registered, Executing
      <4>. QED
        BY <2>2, <4>1, <4>2 DEF RequestWaits, Executing
    <3>3. CASE d \notin W
      <4>1. control'[d] = control[d] /\ target'[d] = target[d] /\ control[d] # "settling"
        BY <1>0, <2>2, <3>1, <3>3 DEF Wait, Waiting, AskedOf
      <4>2. In(queue, <<kind[d], d>>) => In(queue', <<kind[d], d>>)
        BY <2>3, <3>1
      <4>. QED
        BY <1>0, <2>2, <2>4, <4>1, <4>2 DEF RequestWaits, Executing
    <3>. QED
      BY <3>2, <3>3
  <2>. QED
    BY <2>5, <2>6
<1>15. CASE Crash
  BY <1>15 DEF Crash, RequestWaits
<1>16. CASE UNCHANGED <<control, target, kind, exec, queue, child>>
  BY <1>0, <1>16 DEF RequestWaits, Executing
<1>. QED
  BY <1>1, <1>2, <1>4, <1>5, <1>7, <1>8, <1>9, <1>11, <1>12, <1>13, <1>14, <1>15, <1>16
     DEF Next, Write, Restart, vars

(* NobodyIsForgotten: every message, run and request that is not over has   *)
(* something to come that takes it further: its mutation in the queue of    *)
(* the store, a process of its own, a process that was signalled, or an     *)
(* execution that is not over.  No wake-up is lost between the maps of      *)
(* AgentService, the runner and the queue.                                  *)
THEOREM NoWakeUpIsLost == Spec => []NobodyIsForgotten
<1>1. Init => NobodyIsForgotten
  BY DEF Init, NobodyIsForgotten, RunWaits, RequestWaits, Closing
<1>2. Inv /\ NobodyIsForgotten /\ [Next]_vars => NobodyIsForgotten'
  BY RunsWaitStep, RequestsWaitStep DEF Inv, NobodyIsForgotten
<1>. QED
  BY <1>1, <1>2, Invariance, PTL DEF Spec
=============================================================================
