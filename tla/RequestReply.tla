---------------------------- MODULE RequestReply ----------------------------
(***************************************************************************)
(* Requests between actors.  A caller registers a slot under a fresh token *)
(* in the publisher's map, publishes its request and waits; the bridge of  *)
(* every actor that listens to the subject hands the request to its actor, *)
(* whose reply goes to the publisher's shared inbox.  One goroutine routes *)
(* the replies, by their token, to the slots.                              *)
(*                                                                         *)
(* The server delivers a message at most once to each subscription, in the *)
(* order of publishing, and may lose it.  A request answered by two actors *)
(* has two replies.                                                        *)
(***************************************************************************)
EXTENDS Integers, Sequences, FiniteSets, SequencesExt

CONSTANTS
    Actor,         \* the actors that may listen to the subject
    MaxRequests    \* bound: calls of Request and Send, each in a goroutine of its own

Request == 1 .. MaxRequests
NoReply == [of |-> 0, by |-> ""]

VARIABLES
    pc,          \* how far each call is
    token,       \* its token; tokens are counted from 1
    respNext,    \* the last token given
    respWait,    \* [token -> request] of the slots that wait
    slot,        \* the channels, of capacity one
    result,      \* "" while the call waits, "reply", "error" or "timeout"
    answer,      \* the reply it returned
    bridges,     \* each actor's bridge: "new", "on" or "off"
    pending,     \* the requests on their way to each actor, with their ReplyTo
    inbox,       \* the replies on their way to the publisher, with their token
    routing      \* routeReply, between its lock and the channel: reply and request

calls   == <<pc, token, respNext, result, answer>>
network == <<bridges, pending, inbox>>
vars    == <<calls, respWait, slot, network, routing>>

Init ==
    /\ pc = [r \in Request |-> "new"] /\ token = [r \in Request |-> 0]
    /\ respNext = 0 /\ respWait = <<>> /\ slot = [r \in Request |-> <<>>]
    /\ result = [r \in Request |-> ""] /\ answer = [r \in Request |-> NoReply]
    /\ bridges = [a \in Actor |-> "new"] /\ pending = [a \in Actor |-> <<>>]
    /\ inbox = <<>> /\ routing = <<>>

Without(t) == [u \in DOMAIN respWait \ {t} |-> respWait[u]]

-----------------------------------------------------------------------------
(* Request. *)

(* awaitReply: the first call subscribes the inbox; when that failed, every *)
(* call fails, which is the error case here.                                *)
FirstFree(n) == Cardinality(DOMAIN respWait) + 1

NextToken(n) == n + 1

AwaitReply(r) ==
    /\ pc[r] = "new" /\ \A q \in Request : q < r => pc[q] # "new"
    /\ respNext' = NextToken(respNext)
    /\ token' = [token EXCEPT ![r] = respNext']
    /\ respWait' = [u \in DOMAIN respWait \cup {respNext'} |->
                       IF u = respNext' THEN r ELSE respWait[u]]
    /\ pc' = [pc EXCEPT ![r] = "registered"]
    /\ UNCHANGED <<slot, result, answer, network, routing>>

Return(r, how) ==
    /\ result' = [result EXCEPT ![r] = how]
    /\ pc' = [pc EXCEPT ![r] = "releasing"]

Deliver(r, replyTo, to) ==
    pending' = [a \in Actor |-> IF a \in to THEN Append(pending[a], [of |-> r, replyTo |-> replyTo])
                                            ELSE pending[a]]

Listening == {a \in Actor : bridges[a] = "on"}

(* An unregistered type or a closed connection is an error. *)
Publish(r) ==
    /\ pc[r] = "registered"
    /\ \/ Return(r, "error") /\ UNCHANGED pending
       \/ /\ pc' = [pc EXCEPT ![r] = "waiting"] /\ UNCHANGED result
          /\ \E to \in SUBSET Listening : Deliver(r, token[r], to)
    /\ UNCHANGED <<token, respNext, answer, respWait, slot, bridges, inbox, routing>>

(* Send has no reply address, and waits for nothing. *)
Send(r) ==
    /\ pc[r] = "new" /\ \A q \in Request : q < r => pc[q] # "new"
    /\ pc' = [pc EXCEPT ![r] = "done"]
    /\ \E to \in SUBSET Listening : Deliver(r, 0, to)
    /\ UNCHANGED <<token, respNext, result, answer, respWait, slot, bridges, inbox, routing>>

(* A reply of a type the caller's registry does not know is an error. *)
Receive(r) ==
    /\ pc[r] = "waiting" /\ slot[r] # <<>>
    /\ slot' = [slot EXCEPT ![r] = <<>>]
    /\ \/ Return(r, "error") /\ UNCHANGED answer
       \/ Return(r, "reply") /\ answer' = [answer EXCEPT ![r] = Head(slot[r])]
    /\ UNCHANGED <<token, respNext, respWait, network, routing>>

Timeout(r) ==
    /\ pc[r] = "waiting" /\ Return(r, "timeout")
    /\ UNCHANGED <<token, respNext, answer, respWait, slot, network, routing>>

(* The deferred release. *)
AfterTimeout(r) == IF result[r] = "timeout" THEN Without(token[r]) ELSE respWait

Latest(r) == Without(respNext)

Released(r) == Without(token[r])

Release(r) ==
    /\ pc[r] = "releasing"
    /\ pc' = [pc EXCEPT ![r] = "done"]
    /\ respWait' = Released(r)
    /\ UNCHANGED <<token, respNext, result, answer, slot, network, routing>>

-----------------------------------------------------------------------------
(* routeReply: it looks the token up and removes it under the lock, and    *)
(* sends outside of it.                                                    *)
StillWaiting(t) == respWait

Taken(t) == Without(t)

Route ==
    /\ inbox # <<>> /\ routing = <<>>
    /\ LET m == Head(inbox)
       IN  /\ routing' = IF m.token \in DOMAIN respWait THEN <<m.reply, respWait[m.token]>> ELSE <<>>
           /\ respWait' = Taken(m.token)
    /\ inbox' = Tail(inbox)
    /\ UNCHANGED <<calls, slot, bridges, pending>>

HandOver ==
    /\ routing # <<>> /\ slot[routing[2]] = <<>>
    /\ slot' = [slot EXCEPT ![routing[2]] = <<routing[1]>>]
    /\ routing' = <<>>
    /\ UNCHANGED <<calls, respWait, network>>

-----------------------------------------------------------------------------
(* An actor and its bridge.  It drops what its registry cannot decode.  An *)
(* actor answers a request at most once, or not at all.                    *)
AddSubject(a) ==
    /\ bridges[a] = "new" /\ bridges' = [bridges EXCEPT ![a] = "on"]
    /\ UNCHANGED <<calls, respWait, slot, pending, inbox, routing>>

Stop(a) ==
    /\ bridges[a] = "on" /\ bridges' = [bridges EXCEPT ![a] = "off"]
    /\ pending' = [pending EXCEPT ![a] = <<>>]
    /\ UNCHANGED <<calls, respWait, slot, inbox, routing>>

Replied(a, m) == Append(inbox, [token |-> m.replyTo, reply |-> [of |-> m.of, by |-> a]])

Handle(a) ==
    /\ bridges[a] = "on" /\ pending[a] # <<>>
    /\ LET m == Head(pending[a])
       IN  \/ UNCHANGED inbox
           \/ m.replyTo # 0 /\ inbox' = Replied(a, m)
    /\ pending' = [pending EXCEPT ![a] = Tail(@)]
    /\ UNCHANGED <<calls, respWait, slot, bridges, routing>>

-----------------------------------------------------------------------------
Goes(r) == Publish(r) \/ Receive(r) \/ Timeout(r) \/ Release(r)

Next ==
    \/ \E r \in Request : AwaitReply(r) \/ Send(r) \/ Goes(r)
    \/ Route \/ HandOver
    \/ \E a \in Actor : AddSubject(a) \/ Stop(a) \/ Handle(a)

Spec == Init /\ [][Next]_vars

-----------------------------------------------------------------------------
(* Properties. *)

(* A call returns the reply to its own request, although replies to calls  *)
(* that timed out still arrive at the shared inbox.                        *)
OwnReply == \A r \in Request : result[r] = "reply" => answer[r].of = r

(* "Buffered 1, and removed from the map: never blocks" (publisher.go:143): *)
(* a second reply, or one to a call that timed out, never holds up the      *)
(* goroutine that routes the replies of all callers.                        *)
RouterNeverBlocks == routing # <<>> => slot[routing[2]] = <<>>

(* "Register for the reply before publishing, so it cannot be missed": as  *)
(* long as a call waits and has no reply, one that comes finds it.         *)
ReplyFound ==
    \A r \in Request :
        pc[r] = "waiting" /\ slot[r] = <<>> /\ (routing # <<>> => routing[2] # r)
            => token[r] \in DOMAIN respWait /\ respWait[token[r]] = r

(* However a call ended, nothing of it stays in the map. *)
NothingLeft == \A t \in DOMAIN respWait : pc[respWait[t]] # "done"

(* Calls, their timeouts and the routing of late and double replies leave  *)
(* every caller with its own reply and the map without a trace of the      *)
(* calls that ended (publisher.go:127).                                    *)
RepliesSafe == OwnReply /\ RouterNeverBlocks /\ ReplyFound /\ NothingLeft
=============================================================================
