------------------------- MODULE GeminiConversations -------------------------
(***************************************************************************)
(* The Gemini adapter: requests in Codex's format, each of which may name  *)
(* a previous response, answered by a service that has no memory.  The     *)
(* adapter keeps the transcript of every response it gave, in its process. *)
(* Codex names a call by its id only, the service wants the function's     *)
(* name.  Texts, schemas, arguments and the stream of events are left out. *)
(***************************************************************************)
EXTENDS Integers, SequencesExt

CONSTANTS MaxRequests, \* bound on requests
          CallIds,     \* ids of function calls the service makes up
          Functions,   \* names of functions
          MaxRestarts,
          None

ASSUME BoundsAssumption == MaxRequests \in Nat /\ MaxRestarts \in Nat

(* Numbered as they come; a response has the id of its request. *)
Requests == 1..MaxRequests

(* What a transcript is made of.                                            *)
Messages == [role : {"user", "system", "assistant", "tool"},
             calls : SUBSET ((CallIds \cup Requests) \X Functions),
             id : CallIds \cup Requests \cup {None},
             name : Functions \cup {"unknown_function", None}]

(* No response, no id and no name is none of them.                          *)
ASSUME NoneAssumption == None \notin CallIds \cup Requests /\ None \notin Seq(Messages)

VARIABLES
    conversations, \* the transcripts in memory, by response
    pc,            \* of every request: "idle", "fetching", "answered", "refused", "lost"
    previous,      \* the previous_response_id it names
    sent,          \* the messages it sends to the service
    answer,        \* the calls in the assistant message it answers with
    born,          \* the process that served it
    restarts

vars == <<conversations, pc, previous, sent, answer, born, restarts>>

Init == /\ conversations = [r \in Requests |-> None]
        /\ pc = [r \in Requests |-> "idle"]
        /\ previous = [r \in Requests |-> None]
        /\ sent = [r \in Requests |-> <<>>]
        /\ answer = [r \in Requests |-> {}]
        /\ born = [r \in Requests |-> 0]
        /\ restarts = 0
-----------------------------------------------------------------------------
Said(role) == [role |-> role, calls |-> {}, id |-> None, name |-> None]
Assistant(calls) == [Said("assistant") EXCEPT !.calls = calls]
Result(id, name) == [Said("tool") EXCEPT !.id = id, !.name = name]

(* Mutant: the names of the last turn only. *)
FunctionNamesOfLast(messages) ==
    [id \in {c[1] : c \in IF messages = <<>> THEN {} ELSE Last(messages).calls} |->
        (CHOOSE c \in Last(messages).calls : c[1] = id)[2]]

(* functionNames, and toolNames, which has the same: a later call with the  *)
(* id of an earlier one takes its place.                                    *)
FunctionNames(messages) ==
    LET Calls(i) == messages[i].calls
        ids == UNION {{c[1] : c \in Calls(i)} : i \in DOMAIN messages}
        Turn(id) == Max({i \in DOMAIN messages : \E c \in Calls(i) : c[1] = id})
    IN  [id \in ids |-> (CHOOSE c \in Calls(Turn(id)) : c[1] = id)[2]]

(* inputMessages: the user's words, or what a call returned.                *)
Input(item, names) ==
    IF item = None THEN Said("user")
    ELSE Result(item, IF item \in DOMAIN names THEN names[item] ELSE "unknown_function")

Prior(p) == IF p = None \/ conversations[p] = None THEN <<>> ELSE conversations[p]

(* 404, 400 and 401: nothing is read or sent. *)
Refuse(r) ==
    /\ pc[r] = "idle" /\ \A q \in 1..r - 1 : pc[q] # "idle"
    /\ pc' = [pc EXCEPT ![r] = "refused"]
    /\ UNCHANGED <<conversations, previous, sent, answer, born, restarts>>

(* The instructions come with every request, after what is prior.           *)
Begin(r, p, item) ==
    /\ pc[r] = "idle" /\ \A q \in 1..r - 1 : pc[q] # "idle"
    /\ p # None => pc[p] = "answered"
    /\ pc' = [pc EXCEPT ![r] = "fetching"]
    /\ previous' = [previous EXCEPT ![r] = p]
    /\ sent' = [sent EXCEPT ![r] =
                  Prior(p) \o <<Said("system"), Input(item, FunctionNames(Prior(p)))>>]
    /\ born' = [born EXCEPT ![r] = restarts]
    /\ UNCHANGED <<conversations, answer, restarts>>

(* Mutant: what the assistant said is not remembered. *)
TranscriptAsSent(r, calls) == sent[r]

Transcript(r, calls) == Append(sent[r], Assistant(calls))

(* nativeAssistant: a call without an id gets a fresh one, here r.  Of the  *)
(* calls an answer may have there is one at most.                           *)
Respond(r, calls) ==
    /\ pc[r] = "fetching"
    /\ pc' = [pc EXCEPT ![r] = "answered"]
    /\ answer' = [answer EXCEPT ![r] = calls]
    /\ conversations' = [conversations EXCEPT ![r] = Transcript(r, calls)]
    /\ UNCHANGED <<previous, sent, born, restarts>>

(* The service fails or has no content: its status or 502, nothing kept.    *)
Fail(r) ==
    /\ pc[r] = "fetching"
    /\ pc' = [pc EXCEPT ![r] = "refused"]
    /\ UNCHANGED <<conversations, previous, sent, answer, born, restarts>>

Restart ==
    /\ restarts < MaxRestarts /\ restarts' = restarts + 1
    /\ conversations' = [r \in Requests |-> None]
    /\ pc' = [r \in Requests |-> IF pc[r] = "fetching" THEN "lost" ELSE pc[r]]
    /\ UNCHANGED <<previous, sent, answer, born>>

Next == \/ \E r \in Requests :
             \/ Refuse(r) \/ Fail(r)
             \/ \E p \in Requests \cup {None} : \E item \in CallIds \cup {p, None} : Begin(r, p, item)
             \/ Respond(r, {})
             \/ \E id \in CallIds \cup {r}, name \in Functions : Respond(r, {<<id, name>>})
        \/ Restart

Spec == Init /\ [][Next]_vars
-----------------------------------------------------------------------------
(* What a response was sent, and its answer.                                *)
Told(p) == Append(sent[p], Assistant(answer[p]))

(* Types, and what is remembered of a response is what was sent for it and  *)
(* the answer, whichever requests branch off it.                            *)
TypeOK ==
    /\ \A r \in Requests :
         /\ pc[r] \in {"idle", "fetching", "answered", "refused", "lost"}
         /\ previous[r] \in Requests \cup {None}
         /\ Range(sent[r]) \subseteq Messages
         /\ born[r] \in 0..restarts
         /\ conversations[r] \in {None, Told(r)}
    /\ restarts \in 0..MaxRestarts

(* The messages begin with all that was told, and their last, if it has the *)
(* id of calls in there, has the name of the function last called by it.    *)
Continues(messages, told) ==
    LET said == Last(messages)
        calls == {i \in DOMAIN told : \E c \in told[i].calls : c[1] = said.id}
    IN  /\ IsPrefix(told, messages)
        /\ calls # {} => <<said.id, said.name>> \in told[Max(calls)].calls

(* As long as the process lives, a request that follows a response is sent  *)
(* with everything that led to it, and the result of a call with the name   *)
(* of the function the service last called by that id.                      *)
ContextIsWhole ==
    \A r \in Requests : LET p == previous[r] IN
        p # None /\ born[r] = born[p] => Continues(sent[r], Told(p))
=============================================================================
