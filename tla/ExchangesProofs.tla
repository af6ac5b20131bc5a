--------------------------- MODULE ExchangesProofs ---------------------------
(***************************************************************************)
(* Proofs about the exchanges between actors: approvals, for any set of    *)
(* requests and panes; requests, for any set of actors and any number of   *)
(* calls; and the trees of sub-agents of a run, of any number of agents.   *)
(***************************************************************************)
EXTENDS Exchanges, SequenceTheorems, TLAPS

-----------------------------------------------------------------------------
(* Approvals: the inductive invariant. *)

(* The responses that repeat an answer that was given. *)
Given(r) == {given[r][i] : i \in DOMAIN given[r]}
Valid    == {m \in Response : m.decision \in Given(m.id)}

(* What is on its way, in a channel, or returned was given to its request. *)
Genuine ==
    /\ given \in [Request -> Seq(Decision)]
    /\ bridge \in Seq(Valid) /\ queue \in [Request -> Seq(Valid)]
    /\ DOMAIN slot = Request
    /\ \A r \in Request : slot[r] # <<>> => Head(slot[r]) \in Given(r)
    /\ \A r \in Request : result[r] \in Decision => result[r] \in Given(r)

(* A request is answered at its panes, which are there once it is          *)
(* published; an answer before its subscription is early.                  *)
Shown ==
    /\ \A p \in panes : state[p[2]] # "none"
    /\ \A r \in Request : /\ state[r] = "none" => given[r] = <<>>
                          /\ state[r] = "published" => given[r] = <<>> \/ r \in early

(* The first response of the request in its queue carries its first answer. *)
FirstInLine(r) ==
    \E i \in DOMAIN queue[r] :
        /\ queue[r][i] = [id |-> r, decision |-> given[r][1]]
        /\ \A j \in 1 .. i - 1 : queue[r][j].id # r

(* The first answer to a request that waits is in its channel, or the      *)
(* channel is empty and the answer comes first among those of the request. *)
Ahead ==
    \A r \in Request \ early :
        state[r] = "waiting" /\ given[r] # <<>>
        => \/ slot[r] # <<>> /\ Head(slot[r]) = given[r][1]
           \/ slot[r] = <<>> /\ FirstInLine(r)

Kept == TypeOK /\ Genuine /\ Shown /\ Ahead /\ FirstAnswerWins /\ BlockedHarmless

-----------------------------------------------------------------------------
(* Sequences of responses. *)

(* A queue of valid responses is a queue of responses.                     *)
LEMMA ValidQueues == Seq(Valid) \subseteq Seq(Response)
  BY SeqMonotonic DEF Valid

(* Taking a response from a queue leaves the order of the others.          *)
LEMMA HeadTail ==
  ASSUME NEW S, NEW s \in Seq(S), s # <<>>
  PROVE  /\ Head(s) \in S /\ Head(s) = s[1] /\ Tail(s) \in Seq(S)
         /\ Len(s) \in Nat \ {0} /\ Len(Tail(s)) = Len(s) - 1
         /\ \A i \in 1 .. Len(s) - 1 : Tail(s)[i] = s[i + 1]
  BY HeadTailProperties

(* While no answer is given, the responses on their way stay valid; an     *)
(* answer that is given makes them no less so.                             *)
LEMMA GivenGrows ==
  ASSUME Genuine, NEW r \in Request, NEW d \in Decision,
         given' = [given EXCEPT ![r] = Append(@, d)]
  PROVE  /\ given' \in [Request -> Seq(Decision)]
         /\ \A q \in Request : Given(q) \subseteq Given(q)'
         /\ Seq(Valid) \subseteq Seq(Valid')
         /\ [id |-> r, decision |-> d] \in Valid'
         /\ \A q \in Request : given[q] # <<>> => given'[q] # <<>> /\ given'[q][1] = given[q][1]
         /\ given'[r] # <<>> /\ (given[r] = <<>> => given'[r][1] = d)
         /\ \A q \in Request \ {r} : given'[q] = given[q]
<1>1. /\ given[r] \in Seq(Decision) /\ given'[r] = Append(given[r], d)
      /\ given' \in [Request -> Seq(Decision)]
      /\ \A q \in Request \ {r} : given'[q] = given[q]
  BY AppendProperties DEF Genuine
<1>2. /\ Len(given[r]) \in Nat /\ DOMAIN given[r] = 1 .. Len(given[r])
      /\ DOMAIN given'[r] = 1 .. Len(given[r]) + 1
      /\ given'[r][Len(given[r]) + 1] = d
      /\ \A i \in 1 .. Len(given[r]) : given'[r][i] = given[r][i]
      /\ given[r] # <<>> => 1 \in 1 .. Len(given[r])
      /\ given[r] = <<>> => Len(given[r]) = 0
      /\ given'[r] # <<>>
  BY <1>1, AppendProperties
<1>3. \A q \in Request : Given(q) \subseteq Given(q)'
  BY <1>1, <1>2 DEF Given
<1>4. [id |-> r, decision |-> d] \in Valid'
  <2>1. d \in Given(r)'
    BY <1>2 DEF Given
  <2> QED
    BY <2>1 DEF Valid, Response
<1>5. Valid \subseteq Valid'
  BY <1>3 DEF Valid, Response
<1> QED
  BY <1>1, <1>2, <1>3, <1>4, <1>5, SeqMonotonic

(* A step without an answer leaves what counts as valid.                   *)
LEMMA GivenKept ==
  ASSUME UNCHANGED given
  PROVE  Valid' = Valid /\ \A q \in Request : Given(q)' = Given(q)
  BY DEF Valid, Given

(* The ends of a wait without an answer are no answers.                    *)
LEMMA NoAnswer ==
  ASSUME NEW d \in {"none", "failed", "timeout", "interrupted"}
  PROVE  d \notin Decision
  BY DecisionAssumption

(* A response that reaches the subscriptions comes last in their queues.   *)
LEMMA QueuedFacts ==
  ASSUME TypeOK, Genuine, Room, NEW m \in Valid', Seq(Valid) \subseteq Seq(Valid'),
         queue' = Queued(m)
  PROVE  /\ queue' \in [Request -> Seq(Valid')]
         /\ \A q \in Request : queue'[q] \in Seq(Response) /\ Len(queue'[q]) <= MaxQueue
         /\ \A q \in Request :
              /\ Len(queue[q]) \in Nat /\ DOMAIN queue[q] = 1 .. Len(queue[q])
              /\ state[q] = "waiting" =>
                   /\ DOMAIN queue'[q] = 1 .. Len(queue[q]) + 1
                   /\ queue'[q][Len(queue[q]) + 1] = m
              /\ \A i \in DOMAIN queue[q] : i \in DOMAIN queue'[q] /\ queue'[q][i] = queue[q][i]
<1> SUFFICES ASSUME NEW q \in Request
             PROVE  /\ queue'[q] \in Seq(Valid')
                    /\ queue'[q] \in Seq(Response) /\ Len(queue'[q]) <= MaxQueue
                    /\ Len(queue[q]) \in Nat /\ DOMAIN queue[q] = 1 .. Len(queue[q])
                    /\ state[q] = "waiting" =>
                         /\ DOMAIN queue'[q] = 1 .. Len(queue[q]) + 1
                         /\ queue'[q][Len(queue[q]) + 1] = m
                    /\ \A i \in DOMAIN queue[q] :
                         i \in DOMAIN queue'[q] /\ queue'[q][i] = queue[q][i]
  <2>1. queue' = [q \in Request |-> queue'[q]]
    BY DEF Queued
  <2> QED
    BY <2>1
<1>1. /\ queue[q] \in Seq(Valid') /\ Len(queue[q]) \in Nat /\ Len(queue[q]) <= MaxQueue
      /\ DOMAIN queue[q] = 1 .. Len(queue[q]) /\ queue[q] \in Seq(Response)
      /\ DOMAIN queue' = Request /\ MaxQueue \in Nat
  <2>1. queue[q] \in Seq(Valid') /\ queue[q] \in Seq(Response) /\ Len(queue[q]) <= MaxQueue
    BY DEF Genuine, TypeOK
  <2> QED
    BY <2>1, QueueAssumption DEF Queued
<1>2. CASE state[q] \notin Waiting
  <2>1. queue'[q] = queue[q] /\ state[q] # "waiting"
    BY <1>2 DEF Queued, Waiting
  <2> QED
    BY <1>1, <2>1
<1>3. CASE state[q] \in Waiting
  <2>1. queue'[q] = Append(queue[q], m) /\ Len(queue[q]) < MaxQueue /\ m \in Response
    BY <1>3 DEF Queued, Room, Valid, Response
  <2>2. /\ queue'[q] \in Seq(Valid') /\ queue'[q] \in Seq(Response)
        /\ Len(queue'[q]) = Len(queue[q]) + 1
        /\ queue'[q][Len(queue[q]) + 1] = m
        /\ \A i \in 1 .. Len(queue[q]) : queue'[q][i] = queue[q][i]
    BY <1>1, <2>1, AppendProperties
  <2> QED
    BY <1>1, <2>1, <2>2
<1> QED
  BY <1>2, <1>3

-----------------------------------------------------------------------------
(* The inductive invariant. *)

(* The request is shown before it can be answered.                         *)
LEMMA PublishStep ==
  ASSUME Kept, NEW r \in Request, Publish(r)
  PROVE  Kept'
<1>1. /\ state' = [state EXCEPT ![r] = "published"] /\ panes' = panes \cup (Group \X {r})
      /\ UNCHANGED <<bridge, queue, slot, blocked, result, given, early>>
      /\ state[r] = "none"
  BY DEF Publish
<1>2. /\ state' \in [Request -> Waiting \cup {"none", "published", "closed"}]
      /\ state'[r] = "published"
      /\ \A q \in Request \ {r} : state'[q] = state[q]
  BY <1>1 DEF Kept, TypeOK
<1>3. TypeOK'
  BY <1>1, <1>2 DEF Kept, TypeOK, Waiting
<1>4. Genuine'
  BY <1>1, GivenKept DEF Kept, Genuine
<1>5. Shown'
  <2>1. ASSUME NEW p \in panes'
        PROVE  state'[p[2]] # "none"
    <3>1. CASE p \in panes
      BY <1>2, <3>1 DEF Kept, Shown, TypeOK
    <3>2. CASE p \in Group \X {r}
      BY <1>2, <3>2
    <3> QED
      BY <1>1, <3>1, <3>2
  <2> QED
    BY <1>1, <1>2, <2>1 DEF Kept, Shown
<1>6. Ahead' /\ FirstAnswerWins' /\ BlockedHarmless'
  BY <1>1, <1>2 DEF Kept, Ahead, FirstInLine, FirstAnswerWins, BlockedHarmless
<1> QED
  BY <1>3, <1>4, <1>5, <1>6 DEF Kept

(* An answer that came before the subscription is early.                   *)
LEMMA SubscribeStep ==
  ASSUME Kept, NEW r \in Request, Subscribe(r)
  PROVE  Kept'
<1>1. /\ UNCHANGED <<panes, bridge, queue, slot, blocked, given, early>>
      /\ state[r] = "published" /\ result[r] = "none"
      /\ \/ state' = [state EXCEPT ![r] = "waiting"] /\ result' = result
         \/ state' = [state EXCEPT ![r] = "returning"] /\ result' = [result EXCEPT ![r] = "failed"]
  BY DEF Subscribe, Return, Kept, TypeOK
<1>2. /\ state' \in [Request -> Waiting \cup {"none", "published", "closed"}]
      /\ result' \in [Request -> Decision \cup {"none", "failed", "timeout", "interrupted"}]
      /\ \A q \in Request \ {r} : state'[q] = state[q] /\ result'[q] = result[q]
      /\ \/ state'[r] = "waiting" /\ result'[r] = "none"
         \/ state'[r] = "returning" /\ result'[r] = "failed"
  BY <1>1 DEF Kept, TypeOK, Waiting
<1>3. TypeOK'
  BY <1>1, <1>2 DEF Kept, TypeOK
<1>4. Genuine'
  <2>1. result'[r] \notin Decision
    BY <1>2, NoAnswer
  <2>2. \A q \in Request : result'[q] \in Decision => q # r
    BY <2>1
  <2>3. \A q \in Request : result'[q] \in Decision => result'[q] \in Given(q)
    BY <1>2, <2>2 DEF Kept, Genuine
  <2> QED
    BY <1>1, <2>3, GivenKept DEF Kept, Genuine
<1>5. Shown'
  <2>1. \A p \in panes : p[2] \in Request
    BY DEF Kept, TypeOK
  <2> QED
    BY <1>1, <1>2, <2>1 DEF Kept, Shown
<1>6. Ahead'
  BY <1>1, <1>2 DEF Kept, Ahead, Shown, FirstInLine
<1>7. FirstAnswerWins' /\ BlockedHarmless'
  <2>1. result'[r] \notin Decision
    BY <1>2, NoAnswer
  <2>2. FirstAnswerWins'
    BY <1>1, <1>2, <2>1 DEF Kept, FirstAnswerWins
  <2>3. BlockedHarmless'
    BY <1>1, <1>2 DEF Kept, BlockedHarmless, TypeOK
  <2> QED
    BY <2>2, <2>3
<1> QED
  BY <1>3, <1>4, <1>5, <1>6, <1>7 DEF Kept

(* A wait ends: with the response in the channel, or without any.          *)
LEMMA ReturnStep ==
  ASSUME Kept, NEW r \in Request, Receive(r) \/ Timeout(r) \/ Interrupt(r)
  PROVE  Kept'
<1>1. /\ UNCHANGED <<panes, bridge, queue, blocked, given, early>>
      /\ state[r] = "waiting" /\ result[r] = "none"
      /\ state' = [state EXCEPT ![r] = "returning"]
      /\ \/ /\ slot[r] # <<>> /\ slot' = [slot EXCEPT ![r] = <<>>]
            /\ result' = [result EXCEPT ![r] = Head(slot[r])]
         \/ slot' = slot /\ \E d \in {"timeout", "interrupted"} : result' = [result EXCEPT ![r] = d]
  BY DEF Receive, Timeout, Interrupt, Return, Kept, TypeOK
<1>2. /\ state' \in [Request -> Waiting \cup {"none", "published", "closed"}]
      /\ \A q \in Request \ {r} :
           state'[q] = state[q] /\ result'[q] = result[q] /\ slot'[q] = slot[q]
      /\ state'[r] = "returning"
      /\ DOMAIN slot' = Request /\ slot'[r] \in {<<>>, slot[r]}
      /\ \/ slot[r] # <<>> /\ result'[r] = Head(slot[r])
         \/ result'[r] \in {"timeout", "interrupted"} /\ slot'[r] = slot[r]
  BY <1>1 DEF Kept, TypeOK, Waiting, Genuine
<1>3. slot[r] # <<>> => Head(slot[r]) \in Decision
  BY HeadTail DEF Kept, TypeOK
<1>4. /\ result'[r] # "none"
      /\ result' \in [Request -> Decision \cup {"none", "failed", "timeout", "interrupted"}]
      /\ result'[r] \in Decision => slot[r] # <<>> /\ result'[r] = Head(slot[r])
  <2>1. result'[r] \in Decision \cup {"timeout", "interrupted"}
    BY <1>2, <1>3
  <2>2. result'[r] \in Decision => slot[r] # <<>> /\ result'[r] = Head(slot[r])
    BY <1>2, NoAnswer
  <2>3. result' = [result EXCEPT ![r] = result'[r]]
    BY <1>1 DEF Kept, TypeOK
  <2>4. result' \in [Request -> Decision \cup {"none", "failed", "timeout", "interrupted"}]
    BY <2>1, <2>3 DEF Kept, TypeOK
  <2> QED
    BY <2>1, <2>2, <2>4, NoAnswer
<1>5. TypeOK'
  <2>1. ASSUME NEW q \in Request
        PROVE  slot'[q] \in Seq(Decision) /\ Len(slot'[q]) <= 1
    <3>1. <<>> \in Seq(Decision) /\ Len(<<>>) <= 1
      OBVIOUS
    <3>2. slot[q] \in Seq(Decision) /\ Len(slot[q]) <= 1
      BY DEF Kept, TypeOK
    <3>3. slot'[q] = slot[q] \/ slot'[q] = <<>>
      BY <1>2
    <3> QED
      BY <3>1, <3>2, <3>3
  <2> QED
    BY <1>1, <1>2, <1>4, <2>1 DEF Kept, TypeOK
<1>6. Genuine'
  <2>1. \A q \in Request : slot'[q] # <<>> => Head(slot'[q]) \in Given(q)'
    BY <1>1, <1>2, GivenKept DEF Kept, Genuine
  <2>2. ASSUME NEW q \in Request, result'[q] \in Decision
        PROVE  result'[q] \in Given(q)'
    <3>1. Given(q)' = Given(q)
      BY <1>1, GivenKept
    <3>2. CASE q # r
      BY <1>2, <2>2, <3>1, <3>2 DEF Kept, Genuine
    <3>3. CASE q = r
      BY <1>4, <2>2, <3>1, <3>3 DEF Kept, Genuine
    <3> QED
      BY <3>2, <3>3
  <2> QED
    BY <1>1, <1>2, <2>1, <2>2, GivenKept DEF Kept, Genuine
<1>7. Shown'
  <2>1. \A p \in panes : p[2] \in Request
    BY DEF Kept, TypeOK
  <2> QED
    BY <1>1, <1>2, <2>1 DEF Kept, Shown
<1>8. Ahead'
  BY <1>1, <1>2 DEF Kept, Ahead, FirstInLine
<1>9. FirstAnswerWins'
  <2>1. ASSUME result'[r] \in Decision, r \notin early
        PROVE  result'[r] = given[r][1]
    <3>1. result'[r] = Head(slot[r]) /\ slot[r] # <<>> /\ Head(slot[r]) \in Given(r)
      BY <1>4, <2>1 DEF Kept, Genuine
    <3>2. given[r] # <<>>
      BY <3>1 DEF Given
    <3> QED
      BY <1>1, <2>1, <3>1, <3>2 DEF Kept, Ahead
  <2> QED
    BY <1>1, <1>2, <2>1 DEF Kept, FirstAnswerWins
<1>10. BlockedHarmless'
  BY <1>1, <1>2, <1>4 DEF Kept, BlockedHarmless, TypeOK
<1> QED
  BY <1>5, <1>6, <1>7, <1>8, <1>9, <1>10 DEF Kept

(* Unsubscribing drops what is queued, for a wait that is over.            *)
LEMMA CloseStep ==
  ASSUME Kept, NEW r \in Request, Close(r)
  PROVE  Kept'
<1>1. /\ state' = [state EXCEPT ![r] = "closed"] /\ panes' \subseteq panes
      /\ queue' = [queue EXCEPT ![r] = <<>>] /\ state[r] = "returning"
      /\ UNCHANGED <<bridge, slot, blocked, result, given, early>>
  BY DEF Close
<1>2. /\ state' \in [Request -> Waiting \cup {"none", "published", "closed"}]
      /\ state'[r] = "closed" /\ queue' \in [Request -> Seq(Valid)] /\ queue'[r] = <<>>
      /\ \A q \in Request \ {r} : state'[q] = state[q] /\ queue'[q] = queue[q]
  <2>1. <<>> \in Seq(Valid)
    OBVIOUS
  <2> QED
    BY <1>1, <2>1 DEF Kept, TypeOK, Genuine
<1>3. TypeOK'
  <2>1. ASSUME NEW q \in Request
        PROVE  queue'[q] \in Seq(Response) /\ Len(queue'[q]) <= MaxQueue
    <3>1. <<>> \in Seq(Response) /\ Len(<<>>) <= MaxQueue
      BY QueueAssumption
    <3>2. queue[q] \in Seq(Response) /\ Len(queue[q]) <= MaxQueue
      BY DEF Kept, TypeOK
    <3>3. queue'[q] = queue[q] \/ queue'[q] = <<>>
      BY <1>2
    <3> QED
      BY <3>1, <3>2, <3>3
  <2> QED
    BY <1>1, <1>2, <2>1 DEF Kept, TypeOK, Waiting
<1>4. Genuine'
  BY <1>1, <1>2, GivenKept DEF Kept, Genuine
<1>5. Shown'
  <2>1. \A p \in panes : p[2] \in Request
    BY DEF Kept, TypeOK
  <2> QED
    BY <1>1, <1>2, <2>1 DEF Kept, Shown
<1>6. Ahead' /\ FirstAnswerWins' /\ BlockedHarmless'
  BY <1>1, <1>2 DEF Kept, Ahead, FirstInLine, FirstAnswerWins, BlockedHarmless
<1> QED
  BY <1>3, <1>4, <1>5, <1>6 DEF Kept

(* A callback that takes the next response keeps the first answer ahead.   *)
LEMMA CallbackAhead ==
  ASSUME Kept, NEW r \in Request, Callback(r), r \notin early,
         state[r] = "waiting", given[r] # <<>>
  PROVE  \/ slot'[r] # <<>> /\ Head(slot'[r]) = given[r][1]
         \/ slot'[r] = <<>> /\ \E i \in DOMAIN queue'[r] :
              /\ queue'[r][i] = [id |-> r, decision |-> given[r][1]]
              /\ \A j \in 1 .. i - 1 : queue'[r][j].id # r
<1>1. /\ queue[r] \in Seq(Valid) /\ queue[r] # <<>> /\ queue'[r] = Tail(queue[r])
      /\ DOMAIN slot = Request
      /\ \/ Mine(r) /\ Send(r)
         \/ ~Mine(r) /\ slot' = slot
  BY DEF Callback, Kept, Genuine
<1>2. CASE slot[r] # <<>>
  <2>1. Head(slot[r]) = given[r][1]
    BY <1>2 DEF Kept, Ahead
  <2>2. slot' = slot
    BY <1>1, <1>2 DEF Send
  <2> QED
    BY <1>2, <2>1, <2>2
<1>3. CASE slot[r] = <<>>
  <2>1. PICK i \in DOMAIN queue[r] :
             /\ queue[r][i] = [id |-> r, decision |-> given[r][1]]
             /\ \A j \in 1 .. i - 1 : queue[r][j].id # r
    BY <1>3 DEF Kept, Ahead, FirstInLine
  <2>2. /\ Len(queue[r]) \in Nat \ {0} /\ DOMAIN queue[r] = 1 .. Len(queue[r])
        /\ Head(queue[r]) = queue[r][1]
        /\ DOMAIN queue'[r] = 1 .. Len(queue[r]) - 1
        /\ \A j \in 1 .. Len(queue[r]) - 1 : queue'[r][j] = queue[r][j + 1]
    BY <1>1, HeadTail
  <2>3. CASE i = 1
    <3>1. Mine(r) /\ Head(queue[r]).decision = given[r][1]
      BY <2>1, <2>2, <2>3 DEF Mine
    <3>2. slot' = [slot EXCEPT ![r] = <<given[r][1]>>]
      BY <1>1, <1>3, <3>1 DEF Send
    <3>3. slot'[r] = <<given[r][1]>>
      BY <1>1, <3>2
    <3> QED
      BY <3>3
  <2>4. CASE i # 1
    <3>1. i - 1 \in 1 .. Len(queue[r]) - 1 /\ i \in Nat /\ 1 \in 1 .. i - 1
      BY <2>1, <2>2, <2>4
    <3>2. ~Mine(r)
      BY <2>1, <2>2, <3>1 DEF Mine
    <3>3. slot'[r] = <<>>
      BY <1>1, <1>3, <3>2
    <3>4. queue'[r][i - 1] = queue[r][i]
      BY <2>2, <3>1
    <3>5. ASSUME NEW j \in 1 .. (i - 1) - 1
          PROVE  queue'[r][j].id # r
      <4>1. j \in 1 .. Len(queue[r]) - 1 /\ j + 1 \in 1 .. i - 1
        BY <2>1, <2>2, <3>1
      <4> QED
        BY <2>1, <2>2, <4>1
    <3> QED
      BY <2>1, <2>2, <3>1, <3>3, <3>4, <3>5
  <2> QED
    BY <2>3, <2>4
<1> QED
  BY <1>2, <1>3

(* A callback puts its own request's answers into the channel, or blocks.  *)
LEMMA CallbackStep ==
  ASSUME Kept, NEW r \in Request, Callback(r)
  PROVE  Kept'
<1>1. /\ queue[r] \in Seq(Valid) /\ queue[r] # <<>>
      /\ queue' = [queue EXCEPT ![r] = Tail(queue[r])]
      /\ UNCHANGED <<state, panes, bridge, result, given, early>>
      /\ \/ UNCHANGED <<slot, blocked>>
         \/ /\ Head(queue[r]).id = r /\ blocked' = blocked
            /\ slot' = [slot EXCEPT ![r] = <<Head(queue[r]).decision>>]
         \/ slot[r] # <<>> /\ blocked' = blocked \cup {r} /\ slot' = slot
  BY DEF Callback, Kept, Genuine, Mine, Send
<1>2. /\ Head(queue[r]) \in Valid /\ Tail(queue[r]) \in Seq(Valid)
      /\ Len(queue[r]) \in Nat /\ Len(Tail(queue[r])) = Len(queue[r]) - 1
  BY <1>1, HeadTail
<1>3. Head(queue[r]).id = r => Head(queue[r]).decision \in Given(r) \cap Decision
  BY <1>2 DEF Valid, Response
<1>4. /\ queue' \in [Request -> Seq(Valid)]
      /\ \A q \in Request \ {r} : queue'[q] = queue[q] /\ slot'[q] = slot[q]
      /\ DOMAIN slot' = Request /\ queue'[r] = Tail(queue[r])
      /\ slot[r] # <<>> => slot'[r] # <<>>
      /\ \/ slot'[r] = slot[r]
         \/ \E d \in Given(r) \cap Decision : slot'[r] = <<d>>
  <2>1. queue \in [Request -> Seq(Valid)] /\ DOMAIN slot = Request
    BY DEF Kept, Genuine
  <2>2. /\ queue' \in [Request -> Seq(Valid)] /\ queue'[r] = Tail(queue[r])
        /\ \A q \in Request \ {r} : queue'[q] = queue[q]
    BY <1>1, <1>2, <2>1
  <2>3. CASE slot' = slot
    BY <2>1, <2>2, <2>3
  <2>4. CASE /\ Head(queue[r]).id = r
             /\ slot' = [slot EXCEPT ![r] = <<Head(queue[r]).decision>>]
    BY <1>3, <2>1, <2>2, <2>4
  <2> QED
    BY <1>1, <2>3, <2>4
<1>5. TypeOK'
  <2>1. ASSUME NEW q \in Request
        PROVE  queue'[q] \in Seq(Response) /\ Len(queue'[q]) <= MaxQueue
    <3>1. queue'[q] \in Seq(Response)
      BY <1>4, ValidQueues
    <3>2. Len(queue[q]) <= MaxQueue /\ MaxQueue \in Nat
      BY QueueAssumption DEF Kept, TypeOK
    <3>3. queue'[q] = queue[q] \/ (Len(queue'[q]) = Len(queue[q]) - 1 /\ Len(queue[q]) \in Nat)
      BY <1>2, <1>4
    <3> QED
      BY <3>1, <3>2, <3>3
  <2>2. ASSUME NEW q \in Request
        PROVE  slot'[q] \in Seq(Decision) /\ Len(slot'[q]) <= 1
    <3>1. slot[q] \in Seq(Decision) /\ Len(slot[q]) <= 1
      BY DEF Kept, TypeOK
    <3>2. slot'[q] = slot[q] \/ \E d \in Decision : slot'[q] = <<d>>
      BY <1>4
    <3>3. ASSUME NEW d \in Decision, slot'[q] = <<d>>
          PROVE  slot'[q] \in Seq(Decision) /\ Len(slot'[q]) <= 1
      BY <3>3
    <3> QED
      BY <3>1, <3>2, <3>3
  <2>3. blocked' \subseteq Request
    BY <1>1 DEF Kept, TypeOK
  <2> QED
    BY <1>1, <2>1, <2>2, <2>3 DEF Kept, TypeOK
<1>6. Genuine'
  <2>1. ASSUME NEW q \in Request, slot'[q] # <<>>
        PROVE  Head(slot'[q]) \in Given(q)
    <3>1. CASE slot'[q] = slot[q]
      BY <2>1, <3>1 DEF Kept, Genuine
    <3>2. CASE slot'[q] # slot[q]
      <4>1. q = r
        BY <1>4, <3>2
      <4> QED
        BY <1>4, <3>2, <4>1
    <3> QED
      BY <3>1, <3>2
  <2> QED
    BY <1>1, <1>4, <2>1, GivenKept DEF Kept, Genuine
<1>7. Shown'
  BY <1>1 DEF Kept, Shown
<1>8. Ahead'
  <2>1. ASSUME NEW q \in Request \ early, state[q] = "waiting", given[q] # <<>>
        PROVE  \/ slot'[q] # <<>> /\ Head(slot'[q]) = given[q][1]
               \/ slot'[q] = <<>> /\ \E i \in DOMAIN queue'[q] :
                    /\ queue'[q][i] = [id |-> q, decision |-> given[q][1]]
                    /\ \A j \in 1 .. i - 1 : queue'[q][j].id # q
    <3>1. CASE q = r
      BY <2>1, <3>1, CallbackAhead
    <3>2. CASE q # r
      <4>1. \/ slot[q] # <<>> /\ Head(slot[q]) = given[q][1]
            \/ slot[q] = <<>> /\ FirstInLine(q)
        BY <2>1 DEF Kept, Ahead
      <4>2. queue'[q] = queue[q] /\ slot'[q] = slot[q]
        BY <1>4, <3>2
      <4> QED
        BY <4>1, <4>2 DEF FirstInLine
    <3> QED
      BY <3>1, <3>2
  <2>2. ASSUME NEW q \in Request \ early, state[q] = "waiting", given[q] # <<>>
        PROVE  \/ slot'[q] # <<>> /\ Head(slot'[q]) = given[q][1]
               \/ slot'[q] = <<>> /\ FirstInLine(q)'
    BY <1>1, <2>1, <2>2 DEF FirstInLine
  <2> QED
    BY <1>1, <2>2 DEF Ahead
<1>9. FirstAnswerWins'
  BY <1>1 DEF Kept, FirstAnswerWins
<1>10. BlockedHarmless'
  <2>1. \A q \in Request : slot[q] # <<>> => slot'[q] # <<>>
    BY <1>4
  <2>2. blocked' \subseteq blocked \cup (IF slot[r] # <<>> THEN {r} ELSE {})
    BY <1>1
  <2> QED
    BY <1>1, <2>1, <2>2 DEF Kept, BlockedHarmless, TypeOK
<1> QED
  BY <1>5, <1>6, <1>7, <1>8, <1>9, <1>10 DEF Kept

(* The echo repeats a response behind what is queued.                      *)
LEMMA ForwardStep ==
  ASSUME Kept, Forward
  PROVE  Kept'
<1> DEFINE m == Head(bridge)
<1>1. /\ bridge # <<>> /\ bridge \in Seq(Valid)
      /\ UNCHANGED <<state, panes, slot, blocked, result, given, early>>
      /\ \/ Room /\ bridge' = Append(Tail(bridge), m) /\ queue' = Queued(m)
         \/ bridge' = Tail(bridge) /\ queue' = queue
  BY DEF Forward, Kept, Genuine
<1>2. m \in Valid /\ Tail(bridge) \in Seq(Valid)
  BY <1>1, HeadTail
<1>3. Valid' = Valid /\ bridge' \in Seq(Valid) /\ bridge' \in Seq(Response)
  BY <1>1, <1>2, AppendProperties, GivenKept, ValidQueues
<1>4. CASE queue' = queue
  BY <1>1, <1>3, <1>4, GivenKept
     DEF Kept, TypeOK, Genuine, Shown, Ahead, FirstInLine, FirstAnswerWins, BlockedHarmless
<1>5. CASE Room /\ queue' = Queued(m)
  <2> HIDE DEF m
  <2>1. /\ queue' \in [Request -> Seq(Valid')]
        /\ \A q \in Request : queue'[q] \in Seq(Response) /\ Len(queue'[q]) <= MaxQueue
        /\ \A q \in Request : /\ Len(queue[q]) \in Nat /\ DOMAIN queue[q] = 1 .. Len(queue[q])
                               /\ \A i \in DOMAIN queue[q] :
                                    i \in DOMAIN queue'[q] /\ queue'[q][i] = queue[q][i]
    <3>1. m \in Valid' /\ Seq(Valid) \subseteq Seq(Valid')
      BY <1>2, <1>3
    <3> QED
      BY <1>5, <3>1, QueuedFacts DEF Kept
  <2>2. TypeOK' /\ Genuine' /\ Shown'
    BY <1>1, <1>3, <2>1, GivenKept DEF Kept, TypeOK, Genuine, Shown
  <2>3. Ahead'
    <3>1. ASSUME NEW q \in Request, FirstInLine(q)
          PROVE  FirstInLine(q)'
      <4>1. PICK i \in DOMAIN queue[q] :
                 /\ queue[q][i] = [id |-> q, decision |-> given[q][1]]
                 /\ \A j \in 1 .. i - 1 : queue[q][j].id # q
        BY <3>1 DEF FirstInLine
      <4>2. \A j \in 1 .. i - 1 : j \in DOMAIN queue[q]
        BY <2>1, <4>1
      <4> QED
        BY <1>1, <2>1, <4>1, <4>2 DEF FirstInLine
    <3> QED
      BY <1>1, <3>1 DEF Kept, Ahead
  <2>4. FirstAnswerWins' /\ BlockedHarmless'
    BY <1>1 DEF Kept, FirstAnswerWins, BlockedHarmless
  <2> QED
    BY <2>2, <2>3, <2>4 DEF Kept
<1> QED
  BY <1>1, <1>4, <1>5

(* An answer is given while its pane is shown: the first one to a request  *)
(* that waits comes first in its queue.                                    *)
LEMMA AnswerStep ==
  ASSUME Kept, NEW g \in Group, NEW r \in Request, NEW d \in Decision, Answer(g, r, d)
  PROVE  Kept'
<1> DEFINE m == [id |-> r, decision |-> d]
<1>1. /\ <<g, r>> \in panes /\ Room /\ panes' \subseteq panes
      /\ given' = [given EXCEPT ![r] = Append(@, d)]
      /\ early' = IF given[r] = <<>> /\ state[r] = "published" THEN early \cup {r} ELSE early
      /\ bridge' = Append(bridge, m) /\ queue' = Queued(m)
      /\ UNCHANGED <<state, slot, blocked, result>>
  BY DEF Answer
<1>2. /\ given' \in [Request -> Seq(Decision)]
      /\ \A q \in Request : Given(q) \subseteq Given(q)'
      /\ Seq(Valid) \subseteq Seq(Valid') /\ m \in Valid'
      /\ \A q \in Request : given[q] # <<>> => given'[q] # <<>> /\ given'[q][1] = given[q][1]
      /\ given'[r] # <<>> /\ (given[r] = <<>> => given'[r][1] = d)
      /\ \A q \in Request \ {r} : given'[q] = given[q]
  BY <1>1, GivenGrows DEF Kept
<1> HIDE DEF m
<1>3. /\ queue' \in [Request -> Seq(Valid')]
      /\ \A q \in Request : queue'[q] \in Seq(Response) /\ Len(queue'[q]) <= MaxQueue
      /\ \A q \in Request :
           /\ Len(queue[q]) \in Nat /\ DOMAIN queue[q] = 1 .. Len(queue[q])
           /\ state[q] = "waiting" => /\ DOMAIN queue'[q] = 1 .. Len(queue[q]) + 1
                                      /\ queue'[q][Len(queue[q]) + 1] = m
           /\ \A i \in DOMAIN queue[q] : i \in DOMAIN queue'[q] /\ queue'[q][i] = queue[q][i]
  BY <1>1, <1>2, QueuedFacts DEF Kept
<1>4. bridge' \in Seq(Valid') /\ bridge' \in Seq(Response)
  <2>1. bridge \in Seq(Valid') /\ bridge \in Seq(Response) /\ m \in Response
    BY <1>2 DEF Kept, Genuine, TypeOK, Valid, Response
  <2> QED
    BY <1>1, <1>2, <2>1, AppendProperties
<1>5. TypeOK'
  <2>1. panes' \subseteq Group \X Request /\ early' \subseteq Request
    BY <1>1 DEF Kept, TypeOK
  <2> QED
    BY <1>1, <1>3, <1>4, <2>1 DEF Kept, TypeOK
<1>6. Genuine'
  <2>1. \A q \in Request : slot'[q] # <<>> => Head(slot'[q]) \in Given(q)'
    BY <1>1, <1>2 DEF Kept, Genuine
  <2>2. \A q \in Request : result'[q] \in Decision => result'[q] \in Given(q)'
    BY <1>1, <1>2 DEF Kept, Genuine
  <2> QED
    BY <1>1, <1>2, <1>3, <1>4, <2>1, <2>2 DEF Kept, Genuine
<1>7. Shown'
  <2>1. state[r] # "none"
    BY <1>1 DEF Kept, Shown
  <2> QED
    BY <1>1, <1>2, <2>1 DEF Kept, Shown
<1>8. Ahead'
  <2>1. ASSUME NEW q \in Request \ early', state[q] = "waiting", given'[q] # <<>>
        PROVE  \/ slot[q] # <<>> /\ Head(slot[q]) = given'[q][1]
               \/ slot[q] = <<>> /\ FirstInLine(q)'
    <3>1. q \notin early
      BY <1>1, <2>1
    <3>2. CASE given[q] # <<>>
      <4>1. /\ \/ slot[q] # <<>> /\ Head(slot[q]) = given[q][1]
               \/ slot[q] = <<>> /\ FirstInLine(q)
            /\ given'[q][1] = given[q][1]
        BY <1>2, <2>1, <3>1, <3>2 DEF Kept, Ahead
      <4>2. ASSUME FirstInLine(q)
            PROVE  FirstInLine(q)'
        <5>1. PICK i \in DOMAIN queue[q] :
                   /\ queue[q][i] = [id |-> q, decision |-> given[q][1]]
                   /\ \A j \in 1 .. i - 1 : queue[q][j].id # q
          BY <4>2 DEF FirstInLine
        <5>2. \A j \in 1 .. i - 1 : j \in DOMAIN queue[q]
          BY <1>3, <5>1
        <5>3. i \in DOMAIN queue'[q] /\ queue'[q][i] = [id |-> q, decision |-> given'[q][1]]
          BY <1>3, <4>1, <5>1
        <5>4. \A j \in 1 .. i - 1 : queue'[q][j].id # q
          BY <1>3, <5>1, <5>2
        <5> QED
          BY <5>3, <5>4 DEF FirstInLine
      <4> QED
        BY <4>1, <4>2
    <3>3. CASE given[q] = <<>>
      <4>1. q = r /\ given'[q][1] = d
        BY <1>2, <2>1, <3>3
      <4>2. Given(q) = {}
        BY <3>3 DEF Given
      <4>3. slot[q] = <<>>
        BY <4>2 DEF Kept, Genuine
      <4>4. \A j \in DOMAIN queue[q] : queue[q][j].id # q
        <5>1. \A j \in DOMAIN queue[q] : queue[q][j] \in Valid
          BY ElementOfSeq, <1>3 DEF Kept, Genuine
        <5> QED
          BY <4>2, <5>1 DEF Valid
      <4>5. FirstInLine(q)'
        <5>1. /\ Len(queue[q]) + 1 \in DOMAIN queue'[q]
              /\ queue'[q][Len(queue[q]) + 1] = [id |-> q, decision |-> given'[q][1]]
          BY <1>3, <2>1, <4>1 DEF m
        <5>2. ASSUME NEW j \in 1 .. (Len(queue[q]) + 1) - 1
              PROVE  queue'[q][j].id # q
          BY <1>3, <4>4
        <5> QED
          BY <5>1, <5>2 DEF FirstInLine
      <4> QED
        BY <4>3, <4>5
    <3> QED
      BY <3>2, <3>3
  <2> QED
    BY <1>1, <2>1 DEF Ahead
<1>9. FirstAnswerWins'
  <2>1. ASSUME NEW q \in Request, result[q] \in Decision, q \notin early'
        PROVE  result[q] = given'[q][1]
    <3>1. q \notin early /\ given[q] # <<>>
      BY <1>1, <2>1 DEF Kept, Genuine, Given
    <3> QED
      BY <1>2, <2>1, <3>1 DEF Kept, FirstAnswerWins
  <2> QED
    BY <1>1, <2>1 DEF FirstAnswerWins
<1>10. BlockedHarmless'
  BY <1>1 DEF Kept, BlockedHarmless
<1> QED
  BY <1>5, <1>6, <1>7, <1>8, <1>9, <1>10 DEF Kept

(* Every step of the gate keeps the invariant.                             *)
LEMMA KeptStep ==
  ASSUME Kept, [Next]_vars
  PROVE  Kept'
<1>1. CASE UNCHANGED vars
  BY <1>1, GivenKept
     DEF vars, Kept, TypeOK, Genuine, Shown, Ahead, FirstInLine, FirstAnswerWins, BlockedHarmless
<1>2. CASE Cancel \/ RunEnds
  <2>1. UNCHANGED <<state, panes, bridge, queue, slot, blocked, result, given, early>>
    BY <1>2 DEF Cancel, RunEnds
  <2>2. Genuine'
    BY <2>1, GivenKept DEF Kept, Genuine
  <2>3. TypeOK' /\ Shown' /\ Ahead' /\ FirstAnswerWins' /\ BlockedHarmless'
    BY <2>1 DEF Kept, TypeOK, Shown, Ahead, FirstInLine, FirstAnswerWins, BlockedHarmless
  <2> QED
    BY <2>2, <2>3 DEF Kept
<1>3. ASSUME NEW r \in Request, Wait(r) \/ Callback(r)
      PROVE  Kept'
  BY <1>3, PublishStep, SubscribeStep, ReturnStep, CloseStep, CallbackStep DEF Wait
<1>4. ASSUME NEW g \in Group, NEW r \in Request, NEW d \in Decision, Answer(g, r, d)
      PROVE  Kept'
  BY <1>4, AnswerStep
<1> QED
  BY <1>1, <1>2, <1>3, <1>4, ForwardStep DEF Next

(* The invariant holds in every state of the gate.                         *)
LEMMA AlwaysKept == Spec => []Kept
<1>1. ASSUME Init
      PROVE  Kept
  <2>1. \A r \in Request : queue[r] = <<>> /\ slot[r] = <<>> /\ given[r] = <<>>
    BY <1>1 DEF Init
  <2>2. <<>> \in Seq(Valid) /\ <<>> \in Seq(Response) /\ <<>> \in Seq(Decision) /\ Len(<<>>) = 0
    OBVIOUS
  <2>3. TypeOK
    BY <1>1, <2>1, <2>2, QueueAssumption DEF Init, TypeOK
  <2>4. Genuine
    BY <1>1, <2>1, <2>2, NoAnswer DEF Init, Genuine
  <2>5. Shown /\ Ahead /\ BlockedHarmless
    BY <1>1, <2>1 DEF Init, Shown, Ahead, BlockedHarmless
  <2>6. FirstAnswerWins
    BY <1>1, NoAnswer DEF Init, FirstAnswerWins
  <2> QED
    BY <2>3, <2>4, <2>5, <2>6 DEF Kept
<1> QED
  BY <1>1, KeptStep, PTL DEF Spec

-----------------------------------------------------------------------------
(* The theorems. *)

(* What decides an approval is an answer a human gave to that approval:    *)
(* the filter of the callback by request id (orchestrator.go:1461) keeps   *)
(* every late, repeated or echoed answer of another request out.           *)
THEOREM AnswersOwned == Spec => []OwnAnswer
<1>1. Kept => OwnAnswer
  BY DEF Kept, Genuine, OwnAnswer, Given
<1> QED
  BY <1>1, AlwaysKept, PTL

(* A request is settled by the first answer it got after it was            *)
(* subscribed, and a callback that blocks on the channel of capacity one   *)
(* holds up nobody.                                                        *)
THEOREM AnswersSettled == Spec => []AnswersSettle
<1>1. Kept => AnswersSettle
  BY DEF Kept, AnswersSettle
<1> QED
  BY <1>1, AlwaysKept, PTL

-----------------------------------------------------------------------------
(* Requests and their replies: the inductive invariant. *)

(* A call is open from its registration until it released its token.       *)
OpenCall == {"registered", "waiting", "releasing"}
Reply    == [of : Requests!Request, by : Actor]

(* What is on its way: a request that asks for an answer names the token   *)
(* of its call, and so does every reply.                                   *)
Deliverable == {m \in [of : Requests!Request, replyTo : Nat] :
                  m.replyTo # 0 => token[m.of] = m.replyTo}
Routable    == {m \in [token : Nat, reply : Reply] :
                  m.token # 0 /\ token[m.reply.of] = m.token}

Types ==
    /\ pc \in [Requests!Request -> {"new", "done"} \cup OpenCall]
    /\ token \in [Requests!Request -> Nat] /\ respNext \in Nat
    /\ DOMAIN respWait \subseteq Nat
    /\ chan \in [Requests!Request -> Seq(Reply)]
    /\ outcome \in [Requests!Request -> {"", "reply", "error", "timeout"}]
    /\ DOMAIN reply = Requests!Request
    /\ bridges \in [Actor -> {"new", "on", "off"}]
    /\ unread \in [Actor -> Seq(Deliverable)] /\ inbox \in Seq(Routable)

(* Tokens are given once, to calls that are open or were.                  *)
Tokens ==
    /\ \A r \in Requests!Request : /\ token[r] <= respNext
                                   /\ pc[r] = "new" => token[r] = 0
                                   /\ pc[r] \in OpenCall => token[r] # 0
    /\ \A q, r \in Requests!Request : token[q] = token[r] /\ token[q] # 0 => q = r

(* The map holds, for a token, the open call that has it.                  *)
Registered ==
    \A t \in DOMAIN respWait :
        /\ respWait[t] \in Requests!Request
        /\ token[respWait[t]] = t /\ t # 0
        /\ pc[respWait[t]] \in OpenCall

(* A reply in a slot, or on its way to one, is the reply to the slot's     *)
(* call, and the call is no longer in the map.                             *)
Delivered ==
    /\ \A r \in Requests!Request :
         chan[r] # <<>> => /\ Head(chan[r]).of = r
                           /\ token[r] # 0 /\ token[r] \notin DOMAIN respWait
    /\ routing # <<>> =>
         /\ routing[2] \in Requests!Request /\ routing[1] \in Reply
         /\ routing[1].of = routing[2] /\ chan[routing[2]] = <<>>
         /\ token[routing[2]] # 0 /\ token[routing[2]] \notin DOMAIN respWait

(* A call that registered and has no reply yet is in the map.              *)
Findable ==
    \A r \in Requests!Request :
        /\ pc[r] \in {"registered", "waiting"} /\ chan[r] = <<>>
        /\ routing # <<>> => routing[2] # r
        => token[r] \in DOMAIN respWait /\ respWait[token[r]] = r

RequestKept == Types /\ Tokens /\ Registered /\ Delivered /\ Findable /\ Requests!OwnReply

-----------------------------------------------------------------------------
(* Requests: operators and mailboxes. *)

(* The map without a token is the map elsewhere.                           *)
LEMMA WithoutFacts ==
  ASSUME NEW t
  PROVE  /\ DOMAIN Requests!Without(t) = DOMAIN respWait \ {t}
         /\ \A u \in DOMAIN respWait \ {t} : Requests!Without(t)[u] = respWait[u]
  BY DEF Requests!Without

(* A step that names no new token leaves what is on its way as it is, and  *)
(* one that gives a token to a call without one keeps it valid.            *)
LEMMA MailStays ==
  ASSUME Types, token' \in [Requests!Request -> Nat],
         \A r \in Requests!Request : token'[r] = token[r] \/ token[r] = 0
  PROVE  /\ Deliverable \subseteq Deliverable' /\ Routable \subseteq Routable'
         /\ \A q \in Seq(Deliverable) : q \in Seq(Deliverable')
         /\ \A q \in Seq(Routable) : q \in Seq(Routable')
<1>1. Deliverable \subseteq Deliverable'
  BY DEF Deliverable
<1>2. Routable \subseteq Routable'
  BY DEF Routable, Reply
<1> QED
  BY <1>1, <1>2, SeqMonotonic

(* A request is delivered to some of the actors' mailboxes.                *)
LEMMA DeliverFacts ==
  ASSUME Types, NEW r \in Requests!Request, NEW n \in Nat, n # 0 => token[r] = n,
         NEW to \in SUBSET Requests!Listening, Requests!Deliver(r, n, to), token' = token
  PROVE  unread' \in [Actor -> Seq(Deliverable')]
<1>1. [of |-> r, replyTo |-> n] \in Deliverable /\ Deliverable' = Deliverable
  BY DEF Deliverable
<1>2. \A a \in Actor : /\ unread[a] \in Seq(Deliverable)
                     /\ Append(unread[a], [of |-> r, replyTo |-> n]) \in Seq(Deliverable)
  BY <1>1, AppendProperties DEF Types
<1> QED
  BY <1>1, <1>2 DEF Requests!Deliver

-----------------------------------------------------------------------------
(* The inductive invariant. *)

(* A call registers: its token is new, so nothing on its way has it.       *)
LEMMA AwaitReplyStep ==
  ASSUME RequestKept, NEW r \in Requests!Request, Requests!AwaitReply(r)
  PROVE  RequestKept'
<1> USE DEF RequestKept
<1> DEFINE n == respNext + 1
<1>1. /\ n \in Nat /\ n # 0 /\ respNext' = n /\ n > respNext
      /\ token' = [token EXCEPT ![r] = n] /\ pc' = [pc EXCEPT ![r] = "registered"]
      /\ respWait' = [u \in DOMAIN respWait \cup {n} |->
                        IF u = n THEN r ELSE respWait[u]]
      /\ UNCHANGED <<chan, outcome, reply, bridges, unread, inbox, routing>>
      /\ pc[r] = "new" /\ token[r] = 0
  <2>1. respNext \in Nat /\ token[r] = 0 /\ pc[r] = "new"
    BY DEF Requests!AwaitReply, Types, Tokens
  <2>2. n \in Nat /\ n # 0 /\ n > respNext
    BY <2>1
  <2> QED
    BY <2>1, <2>2 DEF Requests!AwaitReply, Requests!NextToken, Requests!network
<1> HIDE DEF n
<1>2. /\ token' \in [Requests!Request -> Nat] /\ token'[r] = n /\ pc'[r] = "registered"
      /\ \A q \in Requests!Request \ {r} : token'[q] = token[q] /\ pc'[q] = pc[q]
      /\ \A q \in Requests!Request : token[q] <= respNext /\ token[q] \in Nat /\ token[q] # n
  <2>1. /\ token' \in [Requests!Request -> Nat] /\ token'[r] = n /\ pc'[r] = "registered"
        /\ \A q \in Requests!Request \ {r} : token'[q] = token[q] /\ pc'[q] = pc[q]
    BY <1>1 DEF Types
  <2>2. ASSUME NEW q \in Requests!Request
        PROVE  token[q] <= respNext /\ token[q] \in Nat /\ token[q] # n
    <3>1. token[q] <= respNext /\ token[q] \in Nat /\ respNext \in Nat
      BY DEF Tokens, Types
    <3> QED
      BY <1>1, <3>1
  <2> QED
    BY <2>1, <2>2
<1>3. /\ DOMAIN respWait' = DOMAIN respWait \cup {n} /\ respWait'[n] = r
      /\ \A u \in DOMAIN respWait : u # n /\ respWait'[u] = respWait[u]
  BY <1>1, <1>2 DEF Registered
<1>4. Types'
  <2>1. /\ Deliverable \subseteq Deliverable' /\ \A q \in Seq(Deliverable) : q \in Seq(Deliverable')
        /\ \A q \in Seq(Routable) : q \in Seq(Routable')
    BY <1>1, <1>2, MailStays
  <2>2. unread' \in [Actor -> Seq(Deliverable')] /\ inbox' \in Seq(Routable')
    BY <1>1, <2>1 DEF Types
  <2>3. /\ pc' \in [Requests!Request -> {"new", "done"} \cup OpenCall]
        /\ respNext' \in Nat /\ DOMAIN respWait' \subseteq Nat
    BY <1>1, <1>3 DEF Types, OpenCall
  <2> QED
    BY <1>1, <1>2, <2>2, <2>3 DEF Types
<1>5. Tokens'
  <2>1. ASSUME NEW q \in Requests!Request
        PROVE  /\ token'[q] <= respNext'
               /\ pc'[q] = "new" => token'[q] = 0
               /\ pc'[q] \in OpenCall => token'[q] # 0
    <3>1. CASE q = r
      BY <1>1, <1>2, <3>1
    <3>2. CASE q # r
      <4>1. respNext \in Nat
        BY DEF Types
      <4> QED
        BY <1>1, <1>2, <3>2, <4>1 DEF Tokens
    <3> QED
      BY <3>1, <3>2
  <2>2. ASSUME NEW p \in Requests!Request, NEW q \in Requests!Request,
               token'[p] = token'[q], token'[p] # 0
        PROVE  p = q
    BY <1>2, <2>2 DEF Tokens
  <2> QED
    BY <2>1, <2>2 DEF Tokens
<1>6. Registered'
  BY <1>1, <1>2, <1>3 DEF Registered, OpenCall
<1>7. Delivered'
  <2>1. \A q \in Requests!Request : chan[q] # <<>> => q # r
    BY <1>1 DEF Delivered
  <2>2. routing # <<>> => routing[2] # r
    BY <1>1 DEF Delivered
  <2> QED
    BY <1>1, <1>2, <1>3, <2>1, <2>2 DEF Delivered
<1>8. Findable'
  BY <1>1, <1>2, <1>3 DEF Findable
<1>9. Requests!OwnReply'
  BY <1>1 DEF Requests!OwnReply
<1> QED
  BY <1>4, <1>5, <1>6, <1>7, <1>8, <1>9

(* A step that only moves one call along its life, or writes its result:   *)
(* what the router needs is untouched.                                     *)
LEMMA CallStep ==
  ASSUME RequestKept, NEW r \in Requests!Request, NEW s \in {"waiting", "releasing", "done"},
         pc' = [pc EXCEPT ![r] = s],
         \/ s # "done" /\ pc[r] \in OpenCall /\ (s = "waiting" => pc[r] = "registered")
         \/ s = "done" /\ pc[r] = "new",
         UNCHANGED <<token, respNext, respWait, chan, routing, inbox, bridges>>,
         unread' \in [Actor -> Seq(Deliverable')],
         outcome' \in [Requests!Request -> {"", "reply", "error", "timeout"}],
         DOMAIN reply' = Requests!Request, Requests!OwnReply'
  PROVE  RequestKept'
<1> USE DEF RequestKept
<1>1. /\ pc'[r] = s /\ \A q \in Requests!Request \ {r} : pc'[q] = pc[q]
      /\ pc' \in [Requests!Request -> {"new", "done"} \cup OpenCall]
  BY DEF Types, OpenCall
<1>2. Deliverable' = Deliverable /\ Routable' = Routable
  BY DEF Deliverable, Routable
<1>3. Types'
  BY <1>1, <1>2 DEF Types
<1>4. Tokens'
  BY <1>1 DEF Tokens, OpenCall
<1>5. Registered'
  BY <1>1 DEF Registered, OpenCall
<1>6. Delivered'
  BY DEF Delivered
<1>7. Findable'
  BY <1>1 DEF Findable, OpenCall
<1> QED
  BY <1>3, <1>4, <1>5, <1>6, <1>7

(* A call takes the reply out of its slot and releases its token next.     *)
LEMMA ReceiveStep ==
  ASSUME RequestKept, NEW r \in Requests!Request, Requests!Receive(r)
  PROVE  RequestKept'
<1> USE DEF RequestKept
<1>1. /\ pc[r] = "waiting" /\ chan[r] # <<>> /\ chan' = [chan EXCEPT ![r] = <<>>]
      /\ pc' = [pc EXCEPT ![r] = "releasing"]
      /\ UNCHANGED <<token, respNext, respWait, bridges, unread, inbox, routing>>
  BY DEF Requests!Receive, Requests!Return, Requests!network
<1>2. /\ outcome' \in [Requests!Request -> {"", "reply", "error", "timeout"}]
      /\ DOMAIN reply' = Requests!Request
      /\ \A q \in Requests!Request \ {r} : outcome'[q] = outcome[q] /\ reply'[q] = reply[q]
      /\ outcome'[r] = "reply" => reply'[r] = Head(chan[r])
  BY DEF Requests!Receive, Requests!Return, Types
<1>3. /\ pc'[r] = "releasing" /\ chan'[r] = <<>>
      /\ \A q \in Requests!Request \ {r} : pc'[q] = pc[q] /\ chan'[q] = chan[q]
      /\ pc' \in [Requests!Request -> {"new", "done"} \cup OpenCall]
      /\ chan' \in [Requests!Request -> Seq(Reply)]
  <2>1. <<>> \in Seq(Reply)
    OBVIOUS
  <2> QED
    BY <1>1, <2>1 DEF Types, OpenCall
<1>4. Deliverable' = Deliverable /\ Routable' = Routable
  BY <1>1 DEF Deliverable, Routable
<1>5. Types'
  BY <1>1, <1>2, <1>3, <1>4 DEF Types
<1>6. Tokens' /\ Registered'
  BY <1>1, <1>3 DEF Tokens, Registered, OpenCall
<1>7. Delivered'
  BY <1>1, <1>3 DEF Delivered
<1>8. Findable'
  BY <1>1, <1>3 DEF Findable
<1>9. Requests!OwnReply'
  <2>1. Head(chan[r]).of = r
    BY <1>1 DEF Delivered
  <2>2. ASSUME NEW q \in Requests!Request, outcome'[q] = "reply"
        PROVE  reply'[q].of = q
    <3>1. CASE q = r
      BY <1>2, <2>1, <2>2, <3>1
    <3>2. CASE q # r
      BY <1>2, <2>2, <3>2 DEF Requests!OwnReply
    <3> QED
      BY <3>1, <3>2
  <2> QED
    BY <2>2 DEF Requests!OwnReply
<1> QED
  BY <1>5, <1>6, <1>7, <1>8, <1>9

(* The deferred release takes a call's own entry out of the map, and no    *)
(* other.                                                                  *)
LEMMA ReleaseStep ==
  ASSUME RequestKept, NEW r \in Requests!Request, Requests!Release(r)
  PROVE  RequestKept'
<1> USE DEF RequestKept
<1>1. /\ pc[r] = "releasing" /\ pc' = [pc EXCEPT ![r] = "done"]
      /\ respWait' = Requests!Without(token[r])
      /\ UNCHANGED <<token, respNext, outcome, reply, chan, bridges, unread,
                     inbox, routing>>
  BY DEF Requests!Release, Requests!Released, Requests!network
<1>2. /\ pc'[r] = "done" /\ \A q \in Requests!Request \ {r} : pc'[q] = pc[q]
      /\ pc' \in [Requests!Request -> {"new", "done"} \cup OpenCall]
  BY <1>1 DEF Types
<1>3. /\ DOMAIN respWait' = DOMAIN respWait \ {token[r]}
      /\ \A u \in DOMAIN respWait' : respWait'[u] = respWait[u] /\ respWait[u] # r
  <2>1. /\ DOMAIN respWait' = DOMAIN respWait \ {token[r]}
        /\ \A u \in DOMAIN respWait \ {token[r]} : respWait'[u] = respWait[u]
    BY <1>1, WithoutFacts
  <2>2. \A u \in DOMAIN respWait : respWait[u] = r => u = token[r]
    BY DEF Registered
  <2> QED
    BY <2>1, <2>2
<1>4. Deliverable' = Deliverable /\ Routable' = Routable
  BY <1>1 DEF Deliverable, Routable
<1>5. Types'
  BY <1>1, <1>2, <1>3, <1>4 DEF Types
<1>6. Tokens'
  BY <1>1, <1>2 DEF Tokens, OpenCall
<1>7. Registered'
  BY <1>1, <1>2, <1>3 DEF Registered
<1>8. Delivered'
  BY <1>1, <1>3 DEF Delivered
<1>9. Findable'
  <2>1. ASSUME NEW q \in Requests!Request \ {r}, pc[q] \in {"registered", "waiting"}
        PROVE  token[q] # token[r]
    BY <2>1 DEF Tokens, OpenCall
  <2> QED
    BY <1>1, <1>2, <1>3, <2>1 DEF Findable
<1>10. Requests!OwnReply'
  BY <1>1 DEF Requests!OwnReply
<1> QED
  BY <1>5, <1>6, <1>7, <1>8, <1>9, <1>10

-----------------------------------------------------------------------------
(* The router. *)

(* routeReply takes the call that the reply names out of the map: it is    *)
(* the call the reply is to, and its slot is empty.                        *)
LEMMA RouteStep ==
  ASSUME RequestKept, Requests!Route
  PROVE  RequestKept'
<1> USE DEF RequestKept
<1> DEFINE m == Head(inbox)
<1>1. /\ inbox # <<>> /\ routing = <<>> /\ inbox' = Tail(inbox)
      /\ respWait' = Requests!Without(m.token)
      /\ routing' = IF m.token \in DOMAIN respWait THEN <<m.reply, respWait[m.token]>>
                                                    ELSE <<>>
      /\ UNCHANGED <<pc, token, respNext, outcome, reply, chan, bridges, unread>>
  BY DEF Requests!Route, Requests!Taken, Requests!calls
<1>2. m \in Routable /\ inbox' \in Seq(Routable)
  BY <1>1, HeadTailProperties DEF Types
<1> HIDE DEF m
<1>3. /\ m.token \in Nat /\ m.token # 0 /\ m.reply \in Reply
      /\ m.reply.of \in Requests!Request /\ token[m.reply.of] = m.token
  BY <1>2 DEF Routable, Reply
<1>4. /\ DOMAIN respWait' = DOMAIN respWait \ {m.token}
      /\ \A u \in DOMAIN respWait' : respWait'[u] = respWait[u]
  BY <1>1, WithoutFacts
<1>5. Deliverable' = Deliverable /\ Routable' = Routable
  BY <1>1 DEF Deliverable, Routable
<1>6. Types'
  BY <1>1, <1>2, <1>4, <1>5 DEF Types
<1>7. Tokens' /\ Requests!OwnReply'
  BY <1>1 DEF Tokens, Requests!OwnReply
<1>8. Registered'
  BY <1>1, <1>4 DEF Registered
<1>9. CASE m.token \in DOMAIN respWait
  <2> DEFINE r == m.reply.of
  <2>1. respWait[m.token] = r
    BY <1>3, <1>9 DEF Registered, Tokens
  <2>2. routing' = <<m.reply, r>> /\ chan[r] = <<>>
    BY <1>1, <1>3, <1>9, <2>1 DEF Delivered
  <2>3. routing' # <<>> /\ routing'[1] = m.reply /\ routing'[2] = r
    BY <2>2
  <2>4. Delivered'
    BY <1>1, <1>3, <1>4, <2>2, <2>3 DEF Delivered
  <2>5. Findable'
    <3>1. ASSUME NEW q \in Requests!Request \ {r}, pc[q] \in {"registered", "waiting"}
          PROVE  token[q] # m.token
      BY <1>3, <3>1 DEF Tokens
    <3> QED
      BY <1>1, <1>4, <2>3, <3>1 DEF Findable
  <2> QED
    BY <1>6, <1>7, <1>8, <2>4, <2>5
<1>10. CASE m.token \notin DOMAIN respWait
  <2>1. routing' = <<>>
    BY <1>1, <1>10
  <2>2. Delivered' /\ Findable'
    BY <1>1, <1>4, <1>10, <2>1 DEF Delivered, Findable
  <2> QED
    BY <1>6, <1>7, <1>8, <2>2
<1> QED
  BY <1>9, <1>10

(* The slot that a routed reply was sent to was empty, and is taken.       *)
LEMMA HandOverStep ==
  ASSUME RequestKept, Requests!HandOver
  PROVE  RequestKept'
<1> USE DEF RequestKept
<1> DEFINE r == routing[2]
<1>1. /\ routing # <<>> /\ chan' = [chan EXCEPT ![r] = <<routing[1]>>] /\ routing' = <<>>
      /\ UNCHANGED <<pc, token, respNext, outcome, reply, respWait, bridges,
                     unread, inbox>>
  BY DEF Requests!HandOver, Requests!calls, Requests!network
<1>2. /\ r \in Requests!Request /\ routing[1] \in Reply /\ routing[1].of = r
      /\ token[r] # 0 /\ token[r] \notin DOMAIN respWait
  BY <1>1 DEF Delivered
<1> HIDE DEF r
<1>3. /\ chan'[r] = <<routing[1]>> /\ \A q \in Requests!Request \ {r} : chan'[q] = chan[q]
      /\ Head(chan'[r]) = routing[1] /\ chan'[r] # <<>> /\ chan'[r] \in Seq(Reply)
  <2>1. chan'[r] = <<routing[1]>> /\ \A q \in Requests!Request \ {r} : chan'[q] = chan[q]
    BY <1>1, <1>2 DEF Types
  <2>2. /\ Head(<<routing[1]>>) = routing[1] /\ <<routing[1]>> # <<>>
        /\ <<routing[1]>> \in Seq(Reply)
    BY <1>2
  <2> QED
    BY <2>1, <2>2
<1>4. chan' \in [Requests!Request -> Seq(Reply)]
  BY <1>1, <1>2, <1>3 DEF Types
<1>5. Deliverable' = Deliverable /\ Routable' = Routable
  BY <1>1 DEF Deliverable, Routable
<1>6. Types'
  BY <1>1, <1>4, <1>5 DEF Types
<1>7. Tokens' /\ Registered' /\ Requests!OwnReply'
  BY <1>1 DEF Tokens, Registered, Requests!OwnReply
<1>8. Delivered'
  BY <1>1, <1>2, <1>3 DEF Delivered
<1>9. Findable'
  BY <1>1, <1>2, <1>3 DEF Findable, r
<1> QED
  BY <1>6, <1>7, <1>8, <1>9

-----------------------------------------------------------------------------
(* The actors. *)

(* An actor and its bridge change mailboxes only, and an answer names the  *)
(* call and the token of its request.                                      *)
LEMMA ActorStep ==
  ASSUME RequestKept, NEW a \in Actor,
         Requests!AddSubject(a) \/ Requests!Stop(a) \/ Requests!Handle(a)
  PROVE  RequestKept'
<1> USE DEF RequestKept
<1>1. UNCHANGED <<pc, token, respNext, outcome, reply, respWait, chan, routing>>
  BY DEF Requests!AddSubject, Requests!Stop, Requests!Handle, Requests!calls
<1>2. Deliverable' = Deliverable /\ Routable' = Routable
  BY <1>1 DEF Deliverable, Routable
<1>3. /\ bridges' \in [Actor -> {"new", "on", "off"}]
      /\ unread' \in [Actor -> Seq(Deliverable)] /\ inbox' \in Seq(Routable)
  <2>1. CASE Requests!AddSubject(a)
    BY <2>1 DEF Requests!AddSubject, Types
  <2>2. CASE Requests!Stop(a)
    <3>1. <<>> \in Seq(Deliverable)
      OBVIOUS
    <3> QED
      BY <2>2, <3>1 DEF Requests!Stop, Types
  <2>3. CASE Requests!Handle(a)
    <3> DEFINE m == Head(unread[a])
    <3>1. /\ unread[a] \in Seq(Deliverable) /\ unread[a] # <<>>
          /\ unread' = [unread EXCEPT ![a] = Tail(unread[a])]
          /\ inbox' = inbox \/ (m.replyTo # 0 /\ inbox' = Requests!Replied(a, m))
          /\ bridges' = bridges
      BY <2>3 DEF Requests!Handle, Types
    <3>2. m \in Deliverable /\ Tail(unread[a]) \in Seq(Deliverable)
      BY <3>1, HeadTailProperties
    <3> HIDE DEF m
    <3>3. ASSUME m.replyTo # 0
          PROVE  [token |-> m.replyTo, reply |-> [of |-> m.of, by |-> a]] \in Routable
      BY <3>2, <3>3 DEF Deliverable, Routable, Reply
    <3>4. inbox' \in Seq(Routable)
      <4>1. inbox \in Seq(Routable)
        BY DEF Types
      <4> QED
        BY <3>1, <3>3, <4>1, AppendProperties DEF Requests!Replied
    <3> QED
      BY <3>1, <3>2, <3>4 DEF Types
  <2> QED
    BY <2>1, <2>2, <2>3
<1>4. Types'
  BY <1>1, <1>2, <1>3 DEF Types
<1> QED
  BY <1>1, <1>4 DEF Tokens, Registered, Delivered, Findable, Requests!OwnReply

(* Every step keeps the invariant.                                         *)
LEMMA RequestStep == RequestKept /\ [Requests!Next]_Requests!vars => RequestKept'
<1> SUFFICES ASSUME RequestKept, [Requests!Next]_Requests!vars PROVE RequestKept'
  OBVIOUS
<1>a. Types /\ Requests!OwnReply
  BY DEF RequestKept
<1>1. ASSUME NEW r \in Requests!Request, Requests!Publish(r)
      PROVE  RequestKept'
  <2>1. /\ pc[r] = "registered"
        /\ UNCHANGED <<token, respNext, reply, respWait, chan, bridges, inbox,
                       routing>>
    BY <1>1 DEF Requests!Publish
  <2>2. Deliverable' = Deliverable
    BY <2>1 DEF Deliverable
  <2>3. CASE Requests!Return(r, "error") /\ UNCHANGED unread
    <3>1. /\ pc' = [pc EXCEPT ![r] = "releasing"]
          /\ outcome' = [outcome EXCEPT ![r] = "error"]
      BY <2>3 DEF Requests!Return
    <3>2. Requests!OwnReply' /\ outcome' \in [Requests!Request -> {"", "reply", "error", "timeout"}]
      BY <1>a, <2>1, <3>1 DEF Requests!OwnReply, Types
    <3> QED
      BY <1>a, <2>1, <2>2, <2>3, <3>1, <3>2, CallStep DEF Types, OpenCall
  <2>4. ASSUME pc' = [pc EXCEPT ![r] = "waiting"], UNCHANGED outcome,
               NEW to \in SUBSET Requests!Listening, Requests!Deliver(r, token[r], to)
        PROVE  RequestKept'
    <3>1. unread' \in [Actor -> Seq(Deliverable')]
      BY <1>a, <2>1, <2>4, DeliverFacts DEF Types
    <3>2. Requests!OwnReply'
      BY <1>a, <2>1, <2>4 DEF Requests!OwnReply
    <3> QED
      BY <1>a, <2>1, <2>4, <3>1, <3>2, CallStep DEF Types, OpenCall
  <2> QED
    BY <1>1, <2>3, <2>4 DEF Requests!Publish
<1>2. ASSUME NEW r \in Requests!Request, Requests!Send(r)
      PROVE  RequestKept'
  <2>1. /\ pc[r] = "new" /\ pc' = [pc EXCEPT ![r] = "done"]
        /\ UNCHANGED <<token, respNext, outcome, reply, respWait, chan, bridges,
                       inbox, routing>>
    BY <1>2 DEF Requests!Send
  <2>2. PICK to \in SUBSET Requests!Listening : Requests!Deliver(r, 0, to)
    BY <1>2 DEF Requests!Send
  <2>3. unread' \in [Actor -> Seq(Deliverable')]
    BY <1>a, <2>1, <2>2, DeliverFacts
  <2>4. Requests!OwnReply'
    BY <1>a, <2>1 DEF Requests!OwnReply
  <2> QED
    BY <1>a, <2>1, <2>3, <2>4, CallStep DEF Types
<1>3. ASSUME NEW r \in Requests!Request, Requests!Timeout(r)
      PROVE  RequestKept'
  <2>1. /\ pc[r] = "waiting" /\ pc' = [pc EXCEPT ![r] = "releasing"]
        /\ outcome' = [outcome EXCEPT ![r] = "timeout"]
        /\ UNCHANGED <<token, respNext, reply, respWait, chan, bridges, unread,
                       inbox, routing>>
    BY <1>3 DEF Requests!Timeout, Requests!Return, Requests!network
  <2>2. Deliverable' = Deliverable
    BY <2>1 DEF Deliverable
  <2>3. Requests!OwnReply' /\ outcome' \in [Requests!Request -> {"", "reply", "error", "timeout"}]
    BY <1>a, <2>1 DEF Requests!OwnReply, Types
  <2> QED
    BY <1>a, <2>1, <2>2, <2>3, CallStep DEF Types, OpenCall
<1>4. CASE UNCHANGED Requests!vars
  <2>1. UNCHANGED <<pc, token, respNext, outcome, reply, respWait, chan, routing,
                    bridges, unread, inbox>>
    BY <1>4 DEF Requests!vars, Requests!calls, Requests!network
  <2>2. Deliverable' = Deliverable /\ Routable' = Routable
    BY <2>1 DEF Deliverable, Routable
  <2> QED
    BY <2>1, <2>2 DEF RequestKept, Types, Tokens, Registered, Delivered, Findable, Requests!OwnReply
<1> QED
  BY <1>1, <1>2, <1>3, <1>4, AwaitReplyStep, ReceiveStep, ReleaseStep, RouteStep,
     HandOverStep, ActorStep DEF Requests!Next, Requests!Goes

(* Every caller gets the reply to its own request, the goroutine that      *)
(* routes the replies never blocks on a slot, a reply that comes finds the *)
(* call that waits for it, and the map keeps no trace of a call that ended *)
(* (publisher.go: Request, routeReply), for any number of calls, actors,   *)
(* late and double replies.                                                *)
THEOREM RequestsSafe == Requests!Spec => []RepliesSafe
<1>1. Requests!Init => RequestKept
  <2> SUFFICES ASSUME Requests!Init PROVE RequestKept
    OBVIOUS
  <2>1. /\ DOMAIN respWait = {} /\ <<>> \in Seq(Reply) /\ <<>> \in Seq(Deliverable)
        /\ <<>> \in Seq(Routable)
    <3>1. respWait = <<>>
      BY DEF Requests!Init
    <3> QED
      BY <3>1
  <2>2. Types
    BY <2>1 DEF Requests!Init, Types
  <2>3. Tokens
    <3>1. respNext = 0 /\ \A r \in Requests!Request : pc[r] = "new" /\ token[r] = 0
      BY DEF Requests!Init
    <3> QED
      BY <3>1 DEF Tokens, OpenCall
  <2>4. Registered
    BY <2>1 DEF Registered
  <2>5. Delivered /\ Findable /\ Requests!OwnReply
    BY DEF Requests!Init, Delivered, Findable, Requests!OwnReply
  <2> QED
    BY <2>2, <2>3, <2>4, <2>5 DEF RequestKept
<1>2. RequestKept => RepliesSafe
  BY DEF RequestKept, RepliesSafe, Requests!RepliesSafe, Requests!RouterNeverBlocks,
         Requests!ReplyFound, Requests!NothingLeft, Delivered,
         Findable, Registered, OpenCall
<1> QED
  BY <1>1, <1>2, RequestStep, PTL DEF Requests!Spec

-----------------------------------------------------------------------------
(* Trees of sub-agents: the inductive invariant. *)

Pc == {"none", "run", "spawning", "waiting", "ended"}

AgentType ==
    [parent : Nat, depth : Nat, cap : Int, pc : Pc, child : Nat, files : SUBSET Nat,
     gaveUp : BOOLEAN]

Letter == {"spawn", "done"} \X Nat

TreeShape ==
    /\ agent \in Seq(AgentType) /\ Len(agent) <= MaxAgents
    /\ mail \in [Tree!Agents -> Seq(Letter)] /\ pending \in [Tree!Agents -> SUBSET Nat]
    /\ acks \in [Tree!Agents -> {<<>>, <<"spawned">>, <<"failed">>}]
    /\ results \in [Tree!Agents -> {<<>>} \union {<<f>> : f \in SUBSET Nat}]

(* An agent has a parent that was started before it, and the cap that its  *)
(* parent gave it.                                                         *)
Family ==
    \A c \in Tree!Known :
        agent[c].parent # 0 =>
            /\ agent[c].parent \in Tree!Known \ {c} /\ agent[agent[c].parent].pc # "none"
            /\ agent[c].cap = Tree!ChildCap(agent[agent[c].parent].cap)

(* A request names a child that has not started, once; a completion a      *)
(* child that has ended.  Both are in the mailbox of its parent.           *)
Letters ==
    \A a \in Tree!Agents : \A i \in DOMAIN mail[a] :
        LET c == mail[a][i][2]
        IN  /\ c \in Tree!Known /\ agent[c].parent = a
            /\ mail[a][i][1] = "done" => agent[c].pc = "ended"
            /\ mail[a][i][1] = "spawn" =>
                 /\ agent[c].pc = "none" /\ acks[c] = <<>>
                 /\ \A j \in DOMAIN mail[a] : mail[a][j] = mail[a][i] => j = i

(* An acknowledgement says whether the child started.                      *)
Truthful ==
    \A c \in Tree!Agents :
        /\ acks[c] # <<>> => c \in Tree!Known /\ (Head(acks[c]) = "failed" <=> agent[c].pc = "none")
        /\ results[c] # <<>> => Tree!At(c, "ended") /\ Head(results[c]) = agent[c].files

(* An agent waits for a child of its own, which has started when that was  *)
(* acknowledged.                                                           *)
Attached ==
    \A a \in Tree!Known :
        IF agent[a].pc \in {"spawning", "waiting"}
          THEN /\ agent[a].child \in Tree!Known /\ agent[agent[a].child].parent = a
               /\ agent[a].pc = "waiting" => agent[agent[a].child].pc # "none"
          ELSE agent[a].child = 0

Asked(a, c) == \E i \in DOMAIN mail[a] : mail[a][i] = <<"spawn", c>>

(* The other children of an agent that never gave up never start, or have  *)
(* ended and their files are the agent's.                                  *)
Settled(a, c) ==
    \/ agent[c].pc = "none" /\ ~Asked(a, c)
    \/ agent[c].pc = "ended" /\ agent[c].files \subseteq agent[a].files

Children ==
    \A a \in Tree!Known : ~agent[a].gaveUp =>
        \A c \in Tree!Known : agent[c].parent = a /\ agent[a].child # c => Settled(a, c)

TreeKept == TreeShape /\ Family /\ Letters /\ Truthful /\ Attached /\ Children

-----------------------------------------------------------------------------
(* Agents and mailboxes. *)

(* An agent is a number up to the length of the tree.                      *)
LEMMA AgentFacts ==
  ASSUME TreeShape, MaxAgents \in Nat
  PROVE  /\ Len(agent) \in Nat /\ Tree!Known = 1 .. Len(agent) /\ Tree!Known \subseteq Tree!Agents
         /\ \A a \in Tree!Known : agent[a] \in AgentType
         /\ \A a \in Tree!Known : a \in Nat /\ a # 0
<1>1. Len(agent) \in Nat /\ Tree!Known = 1 .. Len(agent) /\ Len(agent) <= MaxAgents
  BY LenProperties DEF TreeShape, Tree!Known
<1>2. \A a \in Tree!Known : agent[a] \in AgentType
  BY <1>1, ElementOfSeq DEF TreeShape
<1> QED
  BY <1>1, <1>2 DEF Tree!Agents

(* A step that edits one agent keeps the others.                           *)
LEMMA AgentEdit ==
  ASSUME TreeShape, MaxAgents \in Nat, NEW a \in Tree!Known, NEW r \in AgentType,
         agent' = [agent EXCEPT ![a] = r]
  PROVE  /\ agent' \in Seq(AgentType) /\ Len(agent') <= MaxAgents /\ Tree!Known' = Tree!Known
         /\ agent'[a] = r /\ \A b \in Tree!Known \ {a} : agent'[b] = agent[b]
<1>1. a \in 1 .. Len(agent) /\ agent \in Seq(AgentType) /\ Len(agent) <= MaxAgents
  BY AgentFacts DEF TreeShape
<1>2. agent' \in Seq(AgentType) /\ Len(agent') = Len(agent)
  BY <1>1, ExceptSeq
<1>3. DOMAIN agent' = DOMAIN agent
  BY <1>1
<1> QED
  BY <1>1, <1>2, <1>3 DEF Tree!Known

(* The letters of a mailbox keep their order, and their places but one     *)
(* when the first is taken.                                                *)
Taken(a) ==
    /\ mail' \in [Tree!Agents -> Seq(Letter)]
    /\ Head(mail[a]) = mail[a][1] /\ 1 \in DOMAIN mail[a]
    /\ \A b \in Tree!Agents \ {a} : mail'[b] = mail[b]
    /\ \A i \in DOMAIN mail'[a] : /\ i + 1 \in DOMAIN mail[a] /\ mail'[a][i] = mail[a][i + 1]
                                  /\ i \in Nat /\ i # 0

(* Tail does it.                                                           *)
LEMMA MailTail ==
  ASSUME TreeShape, NEW a \in Tree!Agents, mail[a] # <<>>, mail' = [mail EXCEPT ![a] = Tail(@)]
  PROVE  Taken(a)
<1>1. mail[a] \in Seq(Letter) /\ mail'[a] = Tail(mail[a])
  BY DEF TreeShape
<1>2. /\ Tail(mail[a]) \in Seq(Letter) /\ Len(mail[a]) \in Nat \ {0}
      /\ Len(Tail(mail[a])) = Len(mail[a]) - 1
      /\ \A i \in 1 .. Len(Tail(mail[a])) : Tail(mail[a])[i] = mail[a][i + 1]
      /\ DOMAIN mail[a] = 1 .. Len(mail[a]) /\ DOMAIN Tail(mail[a]) = 1 .. Len(Tail(mail[a]))
      /\ Head(mail[a]) = mail[a][1]
  BY <1>1, HeadTailProperties, LenProperties, EmptySeq
<1>3. ASSUME NEW i \in DOMAIN mail'[a]
      PROVE  i + 1 \in DOMAIN mail[a] /\ mail'[a][i] = mail[a][i + 1] /\ i \in Nat /\ i # 0
  <2>1. i \in 1 .. Len(mail[a]) - 1
    BY <1>1, <1>2
  <2>2. i + 1 \in 1 .. Len(mail[a]) /\ i \in Nat /\ i # 0
    BY <1>2, <2>1
  <2> QED
    BY <1>1, <1>2, <2>1, <2>2
<1> QED
  BY <1>1, <1>2, <1>3 DEF TreeShape, Taken

(* A letter that is sent comes last.                                       *)
Sent(a, m) ==
    /\ mail' \in [Tree!Agents -> Seq(Letter)]
    /\ \A b \in Tree!Agents \ {a} : mail'[b] = mail[b]
    /\ \A i \in DOMAIN mail'[a] :
         \/ i \in DOMAIN mail[a] /\ mail'[a][i] = mail[a][i]
         \/ i = Len(mail[a]) + 1 /\ mail'[a][i] = m

(* Append does it.                                                         *)
LEMMA MailAppend ==
  ASSUME TreeShape, NEW a \in Tree!Agents, NEW m \in Letter,
         mail' = [mail EXCEPT ![a] = Append(@, m)]
  PROVE  Sent(a, m)
<1>1. mail[a] \in Seq(Letter) /\ mail'[a] = Append(mail[a], m)
  BY DEF TreeShape
<1>2. /\ Append(mail[a], m) \in Seq(Letter) /\ Len(mail[a]) \in Nat
      /\ DOMAIN mail[a] = 1 .. Len(mail[a])
      /\ DOMAIN Append(mail[a], m) = 1 .. Len(mail[a]) + 1
      /\ Append(mail[a], m)[Len(mail[a]) + 1] = m
      /\ \A i \in 1 .. Len(mail[a]) : Append(mail[a], m)[i] = mail[a][i]
  BY <1>1, AppendProperties, LenProperties
<1>3. ASSUME NEW i \in DOMAIN mail'[a]
      PROVE  \/ i \in DOMAIN mail[a] /\ mail'[a][i] = mail[a][i]
             \/ i = Len(mail[a]) + 1 /\ mail'[a][i] = m
  <2>1. i \in 1 .. Len(mail[a]) \/ i = Len(mail[a]) + 1
    BY <1>1, <1>2
  <2> QED
    BY <1>1, <1>2, <2>1
<1> QED
  BY <1>1, <1>2, <1>3 DEF TreeShape, Sent

(* What letters say stays true while children that have not started do not *)
(* start, those that ended stay so, and no request gets another answer.    *)
LEMMA LettersStay ==
  ASSUME TreeShape, Letters, Tree!Known \subseteq Tree!Known',
         \A a \in Tree!Agents : mail'[a] = mail[a],
         \A c \in Tree!Known : /\ agent'[c].parent = agent[c].parent
                               /\ agent[c].pc \in {"none", "ended"} => agent'[c].pc = agent[c].pc
                               /\ acks[c] = <<>> => acks'[c] = <<>>
  PROVE  Letters' /\ \A a, c \in Tree!Agents : Asked(a, c)' => Asked(a, c)
BY DEF Letters, Asked

(* The same of the letters that are left when the first is taken, of what  *)
(* that one was not about.                                                 *)
LEMMA LettersLeft ==
  ASSUME Letters, NEW a \in Tree!Agents, Taken(a), Tree!Known \subseteq Tree!Known',
         \A c \in Tree!Known :
            /\ agent'[c].parent = agent[c].parent
            /\ mail[a][1] # <<"spawn", c>> =>
                 /\ agent[c].pc \in {"none", "ended"} => agent'[c].pc = agent[c].pc
                 /\ acks[c] = <<>> => acks'[c] = <<>>
            /\ mail[a][1] = <<"spawn", c>> /\ agent[c].pc = "ended" => agent'[c].pc = "ended",
         mail[a] \in Seq(Letter)
  PROVE  Letters' /\ \A b, c \in Tree!Agents : Asked(b, c)' => Asked(b, c)
<1>1. ASSUME NEW b \in Tree!Agents, NEW i \in DOMAIN mail'[b]
      PROVE  \E k \in DOMAIN mail[b] :
               /\ mail'[b][i] = mail[b][k]
               /\ \A j \in DOMAIN mail'[b] : mail'[b][j] = mail'[b][i] =>
                    \E n \in DOMAIN mail[b] : mail[b][n] = mail[b][k] /\ (n = k => j = i)
               /\ b = a => k # 1
  <2>1. CASE b # a
    BY <1>1, <2>1 DEF Taken
  <2>2. CASE b = a
    <3>1. /\ i + 1 \in DOMAIN mail[b] /\ mail'[b][i] = mail[b][i + 1] /\ i + 1 # 1
          /\ \A j \in DOMAIN mail'[b] : /\ j + 1 \in DOMAIN mail[b] /\ mail'[b][j] = mail[b][j + 1]
                                        /\ j + 1 = i + 1 => j = i
      BY <1>1, <2>2 DEF Taken
    <3> QED
      BY <3>1
  <2> QED
    BY <2>1, <2>2
<1>2. ASSUME NEW b \in Tree!Agents, NEW i \in DOMAIN mail'[b]
      PROVE  /\ mail'[b][i][2] \in Tree!Known' /\ agent'[mail'[b][i][2]].parent = b
             /\ mail'[b][i][1] = "done" => agent'[mail'[b][i][2]].pc = "ended"
             /\ mail'[b][i][1] = "spawn" =>
                  /\ agent'[mail'[b][i][2]].pc = "none" /\ acks'[mail'[b][i][2]] = <<>>
                  /\ \A j \in DOMAIN mail'[b] : mail'[b][j] = mail'[b][i] => j = i
  <2>1. PICK k \in DOMAIN mail[b] :
               /\ mail'[b][i] = mail[b][k]
               /\ \A j \in DOMAIN mail'[b] : mail'[b][j] = mail'[b][i] =>
                    \E n \in DOMAIN mail[b] : mail[b][n] = mail[b][k] /\ (n = k => j = i)
               /\ b = a => k # 1
    BY <1>1, <1>2
  <2> DEFINE c == mail[b][k][2]
  <2>2. /\ c \in Tree!Known /\ agent[c].parent = b
        /\ mail[b][k][1] = "done" => agent[c].pc = "ended"
        /\ mail[b][k][1] = "spawn" =>
             /\ agent[c].pc = "none" /\ acks[c] = <<>>
             /\ \A j \in DOMAIN mail[b] : mail[b][j] = mail[b][k] => j = k
    BY DEF Letters
  <2>3. mail[a][1] = <<"spawn", c>> => agent[c].parent = a
    <3>1. 1 \in DOMAIN mail[a]
      BY DEF Taken
    <3> QED
      BY <3>1 DEF Letters
  <2>4. mail[b][k][1] = "spawn" => mail[a][1] # <<"spawn", c>>
    <3>1. SUFFICES ASSUME mail[b][k][1] = "spawn", mail[a][1] = <<"spawn", c>>
                   PROVE  FALSE
      OBVIOUS
    <3>2. b = a /\ 1 \in DOMAIN mail[a]
      BY <2>2, <2>3, <3>1 DEF Taken
    <3>3. mail[a][k] = <<"spawn", c>>
      <4>1. mail[a][k] \in Letter
        BY <3>2, ElementOfSeq, LenProperties
      <4> QED
        BY <3>1, <3>2, <4>1 DEF Letter
    <3> QED
      BY <2>1, <2>2, <3>1, <3>2, <3>3
  <2> HIDE DEF c
  <2>5. mail'[b][i][2] = c /\ mail'[b][i][1] = mail[b][k][1]
    BY <2>1 DEF c
  <2> QED
    BY <2>1, <2>2, <2>4, <2>5
<1>3. Letters'
  BY <1>2 DEF Letters
<1>4. ASSUME NEW b \in Tree!Agents, NEW c \in Tree!Agents, Asked(b, c)'
      PROVE  Asked(b, c)
  <2>1. PICK i \in DOMAIN mail'[b] : mail'[b][i] = <<"spawn", c>>
    BY <1>4 DEF Asked
  <2> QED
    BY <1>1, <2>1 DEF Asked
<1> QED
  BY <1>3, <1>4

-----------------------------------------------------------------------------
(* The inductive invariant. *)

(* A child is asked for.                                                   *)
LEMMA SpawnFacts ==
  ASSUME TreeKept, MaxAgents \in Nat, NEW a \in Tree!Agents, Tree!HandleSubAgent(a)
  PROVE  \E c \in Tree!Agents :
           /\ a \in Tree!Known /\ c \notin Tree!Known /\ c # 0 /\ a # 0 /\ <<"spawn", c>> \in Letter
           /\ agent' \in Seq(AgentType) /\ Len(agent') <= MaxAgents
           /\ Tree!Known' = Tree!Known \union {c}
           /\ agent'[c].parent = a /\ agent'[c].pc = "none" /\ agent'[c].child = 0
           /\ agent'[c].cap = Tree!ChildCap(agent[a].cap)
           /\ agent[a].pc = "run" /\ agent'[a].pc = "spawning" /\ agent'[a].child = c
           /\ agent'[a].parent = agent[a].parent /\ agent'[a].cap = agent[a].cap
           /\ agent'[a].files = agent[a].files /\ agent'[a].gaveUp = agent[a].gaveUp
           /\ \A b \in Tree!Known \ {a} : agent'[b] = agent[b]
           /\ mail' = [mail EXCEPT ![a] = Append(@, <<"spawn", c>>)]
           /\ UNCHANGED <<pending, acks, results>>
<1> DEFINE c == Len(agent) + 1
           child == Tree!Absent(a, agent[a].depth + 1, Tree!ChildCap(agent[a].cap))
           waits == [agent[a] EXCEPT !.pc = "spawning", !.child = c]
           edited == [agent EXCEPT ![a] = waits]
<1>1. /\ a \in Tree!Known /\ agent[a].pc = "run" /\ Len(agent) < MaxAgents
      /\ agent' = Append(edited, child)
      /\ mail' = [mail EXCEPT ![a] = Append(@, <<"spawn", c>>)]
      /\ UNCHANGED <<pending, acks, results>>
  BY DEF Tree!HandleSubAgent, Tree!At
<1>2. /\ Len(agent) \in Nat /\ Tree!Known = 1 .. Len(agent) /\ agent[a] \in AgentType
      /\ c \in Nat /\ c \in Tree!Agents /\ c <= MaxAgents /\ c \notin Tree!Known
      /\ c # 0 /\ a # 0 /\ <<"spawn", c>> \in Letter /\ 1 .. c = Tree!Known \union {c}
  BY <1>1, AgentFacts DEF TreeKept, Tree!Agents, Letter
<1>3. waits \in AgentType /\ child \in AgentType
  <2>1. Tree!ChildCap(agent[a].cap) \in Int /\ agent[a].depth + 1 \in Nat /\ a \in Nat
    BY <1>1, <1>2 DEF AgentType, Tree!ChildCap, Tree!DefaultSubAgentMaxIterations
  <2> QED
    BY <1>1, <1>2, <2>1 DEF AgentType, Tree!Absent, Pc
<1>4. /\ waits.pc = "spawning" /\ waits.child = c /\ waits.parent = agent[a].parent
      /\ waits.cap = agent[a].cap /\ waits.files = agent[a].files /\ waits.gaveUp = agent[a].gaveUp
  BY <1>2 DEF AgentType
<1>5. /\ child.parent = a /\ child.pc = "none" /\ child.child = 0
      /\ child.cap = Tree!ChildCap(agent[a].cap)
  BY DEF Tree!Absent
<1>6. /\ edited \in Seq(AgentType) /\ Len(edited) = Len(agent) /\ edited[a] = waits
      /\ \A b \in Tree!Known \ {a} : edited[b] = agent[b]
  <2> HIDE DEF waits, child
  <2> QED
    BY <1>1, <1>2, <1>3, ExceptSeq DEF TreeKept, TreeShape
<1>7. /\ agent' \in Seq(AgentType) /\ Len(agent') = Len(agent) + 1 /\ agent'[c] = child
      /\ \A b \in 1 .. Len(agent) : agent'[b] = edited[b]
      /\ DOMAIN agent' = 1 .. Len(agent')
  <2> HIDE DEF edited, child, waits
  <2> QED
    BY <1>1, <1>3, <1>6, AppendProperties, LenProperties
<1>8. Tree!Known' = Tree!Known \union {c} /\ Len(agent') <= MaxAgents
  BY <1>2, <1>7 DEF Tree!Known
<1>9. agent'[a] = waits /\ \A b \in Tree!Known \ {a} : agent'[b] = agent[b]
  <2> HIDE DEF edited, child, waits
  <2> QED
    BY <1>1, <1>2, <1>6, <1>7
<1> HIDE DEF edited, child, waits, c
<1> QED
  BY <1>1, <1>2, <1>4, <1>5, <1>7, <1>8, <1>9

(* Nobody has heard of it but the parent, that waits for it.               *)
LEMMA SpawnStep ==
  ASSUME TreeKept, MaxAgents \in Nat, NEW a \in Tree!Agents, Tree!HandleSubAgent(a)
  PROVE  TreeKept'
<1>1. PICK c \in Tree!Agents :
           /\ a \in Tree!Known /\ c \notin Tree!Known /\ c # 0 /\ a # 0 /\ <<"spawn", c>> \in Letter
           /\ agent' \in Seq(AgentType) /\ Len(agent') <= MaxAgents
           /\ Tree!Known' = Tree!Known \union {c}
           /\ agent'[c].parent = a /\ agent'[c].pc = "none" /\ agent'[c].child = 0
           /\ agent'[c].cap = Tree!ChildCap(agent[a].cap)
           /\ agent[a].pc = "run" /\ agent'[a].pc = "spawning" /\ agent'[a].child = c
           /\ agent'[a].parent = agent[a].parent /\ agent'[a].cap = agent[a].cap
           /\ agent'[a].files = agent[a].files /\ agent'[a].gaveUp = agent[a].gaveUp
           /\ \A b \in Tree!Known \ {a} : agent'[b] = agent[b]
           /\ mail' = [mail EXCEPT ![a] = Append(@, <<"spawn", c>>)]
           /\ UNCHANGED <<pending, acks, results>>
  BY SpawnFacts
<1>2. /\ mail' \in [Tree!Agents -> Seq(Letter)]
      /\ \A b \in Tree!Agents \ {a} : mail'[b] = mail[b]
      /\ \A i \in DOMAIN mail'[a] :
           \/ i \in DOMAIN mail[a] /\ mail'[a][i] = mail[a][i]
           \/ i = Len(mail[a]) + 1 /\ mail'[a][i] = <<"spawn", c>>
  <2>1. Sent(a, <<"spawn", c>>)
    BY <1>1, MailAppend DEF TreeKept
  <2> QED
    BY <2>1 DEF Sent
<1>3. /\ Tree!Known \subseteq Tree!Agents /\ 0 \notin Tree!Known
      /\ acks[c] = <<>> /\ results[c] = <<>> /\ agent[a].child = 0
      /\ \A d \in Tree!Known : agent[d].parent # 0 => agent[d].parent \in Tree!Known
  BY <1>1, AgentFacts DEF TreeKept, Truthful, Tree!At, Attached, Family
<1>4. \A b \in Tree!Known :
        /\ agent'[b].parent = agent[b].parent /\ agent'[b].cap = agent[b].cap
        /\ agent'[b].files = agent[b].files /\ agent'[b].gaveUp = agent[b].gaveUp
        /\ agent'[b].pc # "none" <=> agent[b].pc # "none"
        /\ agent'[b].pc = "ended" <=> agent[b].pc = "ended"
        /\ b \in Tree!Known'
  BY <1>1
<1>5. \A b \in Tree!Agents : \A i \in DOMAIN mail[b] :
        mail[b][i][2] \in Tree!Known /\ mail[b][i] # <<"spawn", c>>
  BY <1>1 DEF TreeKept, Letters
<1>6. TreeShape'
  BY <1>1, <1>2 DEF TreeKept, TreeShape
<1>7. Family'
  <2>1. ASSUME NEW b \in Tree!Known', agent'[b].parent # 0
        PROVE  /\ agent'[b].parent \in Tree!Known' \ {b} /\ agent'[agent'[b].parent].pc # "none"
               /\ agent'[b].cap = Tree!ChildCap(agent'[agent'[b].parent].cap)
    <3>1. CASE b = c
      BY <1>1, <1>4, <3>1
    <3>2. CASE b \in Tree!Known
      <4>1. /\ agent[b].parent \in Tree!Known \ {b} /\ agent[agent[b].parent].pc # "none"
            /\ agent[b].cap = Tree!ChildCap(agent[agent[b].parent].cap)
        BY <1>4, <2>1, <3>2 DEF TreeKept, Family
      <4> QED
        BY <1>4, <3>2, <4>1
    <3> QED
      BY <1>1, <3>1, <3>2
  <2> QED
    BY <2>1 DEF Family
<1>8. Letters'
  <2>1. ASSUME NEW b \in Tree!Agents, NEW i \in DOMAIN mail'[b]
        PROVE  /\ mail'[b][i][2] \in Tree!Known' /\ agent'[mail'[b][i][2]].parent = b
               /\ mail'[b][i][1] = "done" => agent'[mail'[b][i][2]].pc = "ended"
               /\ mail'[b][i][1] = "spawn" =>
                    /\ agent'[mail'[b][i][2]].pc = "none" /\ acks[mail'[b][i][2]] = <<>>
                    /\ \A j \in DOMAIN mail'[b] : mail'[b][j] = mail'[b][i] => j = i
    <3>1. CASE b # a
      <4>1. mail'[b] = mail[b]
        BY <1>2, <3>1
      <4> QED
        BY <1>4, <2>1, <4>1 DEF TreeKept, Letters
    <3>2. CASE b = a /\ i \in DOMAIN mail[a] /\ mail'[a][i] = mail[a][i]
      <4>1. \A j \in DOMAIN mail'[a] : mail'[a][j] = mail'[a][i] =>
                j \in DOMAIN mail[a] /\ mail[a][j] = mail[a][i]
        BY <1>2, <1>5, <3>2
      <4> QED
        BY <1>4, <2>1, <3>2, <4>1 DEF TreeKept, Letters
    <3>3. CASE b = a /\ i = Len(mail[a]) + 1 /\ mail'[a][i] = <<"spawn", c>>
      <4>1. \A j \in DOMAIN mail'[a] : mail'[a][j] = mail'[a][i] => j = i
        BY <1>2, <1>5, <3>3
      <4>2. mail'[a][i][1] = "spawn" /\ mail'[a][i][2] = c
        BY <3>3
      <4> QED
        BY <1>1, <1>3, <3>3, <4>1, <4>2
    <3> QED
      BY <1>2, <2>1, <3>1, <3>2, <3>3
  <2>2. acks' = acks
    BY <1>1
  <2> QED
    BY <2>1, <2>2 DEF Letters
<1>9. Truthful'
  BY <1>1, <1>3, <1>4 DEF TreeKept, Truthful, Tree!At
<1>10. Attached'
  <2>1. ASSUME NEW b \in Tree!Known'
        PROVE  IF agent'[b].pc \in {"spawning", "waiting"}
                 THEN /\ agent'[b].child \in Tree!Known' /\ agent'[agent'[b].child].parent = b
                      /\ agent'[b].pc = "waiting" => agent'[agent'[b].child].pc # "none"
                 ELSE agent'[b].child = 0
    <3>1. CASE b \in {a, c}
      BY <1>1, <3>1
    <3>2. CASE b \in Tree!Known \ {a}
      <4>1. agent'[b] = agent[b]
        BY <1>1, <3>2
      <4>2. IF agent[b].pc \in {"spawning", "waiting"}
              THEN /\ agent[b].child \in Tree!Known /\ agent[agent[b].child].parent = b
                   /\ agent[b].pc = "waiting" => agent[agent[b].child].pc # "none"
              ELSE agent[b].child = 0
        BY <3>2 DEF TreeKept, Attached
      <4> QED
        BY <1>4, <4>1, <4>2
    <3> QED
      BY <1>1, <3>1, <3>2
  <2> QED
    BY <2>1 DEF Attached
<1>11. Children'
  <2>1. ASSUME NEW b \in Tree!Known', ~agent'[b].gaveUp, NEW d \in Tree!Known',
               agent'[d].parent = b, agent'[b].child # d
        PROVE  Settled(b, d)'
    <3>1. d \in Tree!Known /\ agent[d].parent = b /\ b \in Tree!Known /\ b \in Tree!Agents
      <4>1. d # c
        BY <1>1, <2>1
      <4>2. d \in Tree!Known /\ agent[d].parent = b /\ b # 0
        BY <1>1, <1>3, <1>4, <2>1, <4>1
      <4> QED
        BY <1>3, <4>2
    <3>2. ~agent[b].gaveUp /\ agent[b].child # d
      <4>1. b = a \/ agent'[b] = agent[b]
        BY <1>1, <3>1
      <4>2. d # 0
        BY <1>3, <3>1
      <4> QED
        BY <1>3, <1>4, <2>1, <3>1, <4>1, <4>2
    <3>3. Settled(b, d)
      BY <3>1, <3>2 DEF TreeKept, Children
    <3>4. Asked(b, d)' => Asked(b, d)
      <4>1. d # c
        BY <1>1, <3>1
      <4>2. \A i \in DOMAIN mail'[b] : mail'[b][i] = <<"spawn", d>> =>
                i \in DOMAIN mail[b] /\ mail[b][i] = <<"spawn", d>>
        <5>1. CASE b # a
          BY <1>2, <3>1, <5>1
        <5>2. CASE b = a
          <6>1. <<"spawn", d>> # <<"spawn", c>>
            BY <4>1
          <6> QED
            BY <1>2, <5>2, <6>1
        <5> QED
          BY <5>1, <5>2
      <4> QED
        BY <4>2 DEF Asked
    <3> QED
      BY <1>4, <3>1, <3>3, <3>4 DEF Settled
  <2> QED
    BY <2>1 DEF Children
<1> QED
  BY <1>6, <1>7, <1>8, <1>9, <1>10, <1>11 DEF TreeKept

(* What a step of an agent that runs or waits has to keep of its own.      *)
OwnWait(a, r) ==
    IF r.pc \in {"spawning", "waiting"}
      THEN /\ r.child = agent[a].child /\ agent[a].pc \in {"spawning", "waiting"}
           /\ r.pc = "waiting" => agent[r.child].pc # "none"
      ELSE r.child = 0

OwnChildren(a, r) ==
    r.gaveUp \/ \A c \in Tree!Known : agent[c].parent = a /\ r.child # c =>
                  \/ agent[c].pc = "none" /\ ~Asked(a, c)
                  \/ agent[c].pc = "ended" /\ agent[c].files \subseteq r.files

(* Nothing is sent: channels keep what they hold or are emptied.           *)
Drained ==
    /\ mail' = mail /\ pending' = pending
    /\ acks' \in [Tree!Agents -> {<<>>, <<"spawned">>, <<"failed">>}]
    /\ results' \in [Tree!Agents -> {<<>>} \union {<<f>> : f \in SUBSET Nat}]
    /\ \A c \in Tree!Agents : /\ acks'[c] # <<>> => acks'[c] = acks[c]
                              /\ results'[c] # <<>> => results'[c] = results[c]

(* An agent that runs or waits is nobody's settled child, and no letter is *)
(* about it: its step disturbs only what it waits for itself.              *)
LEMMA GoesOn ==
  ASSUME TreeKept, MaxAgents \in Nat, NEW a \in Tree!Known, NEW r \in AgentType,
         agent' = [agent EXCEPT ![a] = r],
         agent[a].pc \notin {"none", "ended"}, r.pc \notin {"none", "ended"},
         r.parent = agent[a].parent, r.cap = agent[a].cap,
         OwnWait(a, r), OwnChildren(a, r),
         Drained
  PROVE  TreeKept'
<1>1. /\ agent' \in Seq(AgentType) /\ Len(agent') <= MaxAgents /\ Tree!Known' = Tree!Known
      /\ agent'[a] = r /\ \A b \in Tree!Known \ {a} : agent'[b] = agent[b]
  BY AgentEdit DEF TreeKept
<1>2. /\ Tree!Known \subseteq Tree!Agents /\ 0 \notin Tree!Known
  BY AgentFacts DEF TreeKept
<1>3. \A b \in Tree!Known :
        /\ agent'[b].parent = agent[b].parent /\ agent'[b].cap = agent[b].cap
        /\ agent'[b].pc = "none" <=> agent[b].pc = "none"
        /\ agent'[b].pc = "ended" <=> agent[b].pc = "ended"
        /\ agent[b].pc = "ended" => agent'[b] = agent[b]
  BY <1>1
<1>4. TreeShape'
  BY <1>1 DEF TreeKept, TreeShape, Drained
<1>5. Family'
  BY <1>1, <1>3 DEF TreeKept, Family
<1>6. Letters' /\ \A b, c \in Tree!Agents : Asked(b, c)' => Asked(b, c)
  <2>1. TreeShape /\ Letters
    BY DEF TreeKept
  <2>2. \A c \in Tree!Known : acks[c] = <<>> => acks'[c] = <<>>
    BY <1>2 DEF Drained
  <2> QED
    BY <1>1, <1>3, <2>1, <2>2, LettersStay DEF Drained
<1>7. Truthful'
  <2>1. ASSUME NEW c \in Tree!Agents, acks'[c] # <<>>
        PROVE  c \in Tree!Known' /\ (Head(acks'[c]) = "failed" <=> agent'[c].pc = "none")
    BY <1>1, <1>3, <2>1 DEF TreeKept, Truthful, Drained
  <2>2. ASSUME NEW c \in Tree!Agents, results'[c] # <<>>
        PROVE  c \in Tree!Known' /\ agent'[c].pc = "ended" /\ Head(results'[c]) = agent'[c].files
    BY <1>1, <1>3, <2>2 DEF TreeKept, Truthful, Tree!At, Drained
  <2> QED
    BY <2>1, <2>2 DEF Truthful, Tree!At
<1>8. Attached'
  <2>1. ASSUME NEW b \in Tree!Known
        PROVE  IF agent'[b].pc \in {"spawning", "waiting"}
                 THEN /\ agent'[b].child \in Tree!Known /\ agent'[agent'[b].child].parent = b
                      /\ agent'[b].pc = "waiting" => agent'[agent'[b].child].pc # "none"
                 ELSE agent'[b].child = 0
    <3>1. IF agent[b].pc \in {"spawning", "waiting"}
            THEN /\ agent[b].child \in Tree!Known /\ agent[agent[b].child].parent = b
                 /\ agent[b].pc = "waiting" => agent[agent[b].child].pc # "none"
            ELSE agent[b].child = 0
      BY DEF TreeKept, Attached
    <3>2. CASE b = a
      <4>1. agent'[b] = r
        BY <1>1, <3>2
      <4> QED
        BY <1>3, <3>1, <3>2, <4>1 DEF OwnWait
    <3>3. CASE b # a
      <4>1. agent'[b] = agent[b]
        BY <1>1, <3>3
      <4> QED
        BY <1>3, <3>1, <4>1
    <3> QED
      BY <3>2, <3>3
  <2> QED
    BY <1>1, <2>1 DEF Attached
<1>9. Children'
  <2>1. ASSUME NEW b \in Tree!Known, ~agent'[b].gaveUp, NEW c \in Tree!Known,
               agent'[c].parent = b, agent'[b].child # c
        PROVE  Settled(b, c)'
    <3>1. agent[c].parent = b /\ (Asked(b, c)' => Asked(b, c))
      BY <1>2, <1>3, <1>6, <2>1
    <3>2. c # b
      BY <1>2, <3>1 DEF TreeKept, Family
    <3>3. CASE b = a
      <4>1. agent'[c] = agent[c] /\ agent'[a] = r
        BY <1>1, <3>2, <3>3
      <4> QED
        BY <2>1, <3>1, <3>3, <4>1 DEF OwnChildren, Settled
    <3>4. CASE b # a
      <4>1. agent'[b] = agent[b]
        BY <1>1, <3>4
      <4>2. Settled(b, c)
        BY <2>1, <3>1, <4>1 DEF TreeKept, Children
      <4> QED
        BY <1>3, <3>1, <4>1, <4>2 DEF Settled
    <3> QED
      BY <3>3, <3>4
  <2> QED
    BY <1>1, <2>1 DEF Children
<1> QED
  BY <1>4, <1>5, <1>6, <1>7, <1>8, <1>9 DEF TreeKept

(* What an agent knows of a channel: nothing, or one value.                *)
LEMMA Channels ==
  ASSUME TreeShape, NEW c \in Tree!Agents
  PROVE  /\ acks[c] # <<>> /\ acks' = [acks EXCEPT ![c] = Tail(@)] =>
                  /\ acks' \in [Tree!Agents -> {<<>>, <<"spawned">>, <<"failed">>}]
                  /\ \A d \in Tree!Agents : acks'[d] # <<>> => acks'[d] = acks[d]
         /\ results[c] # <<>> /\ results' = [results EXCEPT ![c] = Tail(@)] =>
                  /\ results' \in [Tree!Agents -> {<<>>} \union {<<f>> : f \in SUBSET Nat}]
                  /\ \A d \in Tree!Agents : results'[d] # <<>> => results'[d] = results[d]
         /\ acks[c] # <<>> => Head(acks[c]) \in {"spawned", "failed"}
         /\ results[c] # <<>> => Head(results[c]) \in SUBSET Nat
<1>1. acks[c] \in {<<>>, <<"spawned">>, <<"failed">>}
  BY DEF TreeShape
<1>2. \A v : Tail(<<v>>) = <<>> /\ Head(<<v>>) = v
  OBVIOUS
<1>3. acks[c] # <<>> => Tail(acks[c]) = <<>> /\ Head(acks[c]) \in {"spawned", "failed"}
  BY <1>1, <1>2
<1>4. results[c] # <<>> => \E f \in SUBSET Nat : results[c] = <<f>>
  BY DEF TreeShape
<1>5. results[c] # <<>> => Tail(results[c]) = <<>> /\ Head(results[c]) \in SUBSET Nat
  BY <1>2, <1>4
<1> QED
  BY <1>3, <1>5 DEF TreeShape

(* What an agent may leave behind when it goes on.                         *)
Over(a, c, files) ==
    \/ agent[c].pc = "none" /\ ~Asked(a, c)
    \/ agent[c].pc = "ended" /\ agent[c].files \subseteq files

(* An agent's wait is over: it runs again, with what it was handed.        *)
LEMMA BackStep ==
  ASSUME TreeKept, MaxAgents \in Nat, NEW a \in Tree!Known, agent[a].pc \in {"spawning", "waiting"},
         NEW files \in SUBSET Nat, NEW gaveUp \in BOOLEAN, Tree!Back(a, files, gaveUp),
         gaveUp \/ Over(a, agent[a].child, files),
         Drained
  PROVE  TreeKept'
<1> DEFINE r == [agent[a] EXCEPT !.pc = "run", !.child = 0, !.files = @ \union files,
                                 !.gaveUp = @ \/ gaveUp]
<1>1. agent[a] \in AgentType /\ a \in Tree!Known
  BY AgentFacts DEF TreeKept
<1>2. agent' = [agent EXCEPT ![a] = r]
  BY DEF Tree!Back
<1>3. /\ r.pc = "run" /\ r.child = 0 /\ r.parent = agent[a].parent /\ r.cap = agent[a].cap
      /\ r.files = agent[a].files \union files
  BY <1>1 DEF AgentType
<1>4. r.gaveUp = (agent[a].gaveUp \/ gaveUp)
  BY <1>1, Zenon DEF AgentType
<1>5. r \in AgentType
  <2>1. agent[a].files \union files \in SUBSET Nat /\ 0 \in Nat /\ "run" \in Pc
    BY <1>1 DEF AgentType, Pc
  <2>2. (agent[a].gaveUp \/ gaveUp) \in BOOLEAN
    BY Zenon
  <2> QED
    BY <1>1, <2>1, <2>2, Zenon DEF AgentType
<1>6. OwnWait(a, r)
  BY <1>3 DEF OwnWait
<1>7. OwnChildren(a, r)
  <2>1. CASE agent[a].gaveUp \/ gaveUp
    BY <1>4, <2>1 DEF OwnChildren
  <2>2. CASE ~(agent[a].gaveUp \/ gaveUp)
    <3>1. ASSUME NEW c \in Tree!Known, agent[c].parent = a
          PROVE  \/ agent[c].pc = "none" /\ ~Asked(a, c)
                 \/ agent[c].pc = "ended" /\ agent[c].files \subseteq r.files
      <4>1. CASE agent[a].child = c
        BY <1>3, <2>2, <4>1 DEF Over
      <4>2. CASE agent[a].child # c
        <5>1. Settled(a, c)
          BY <2>2, <3>1, <4>2 DEF TreeKept, Children
        <5> QED
          BY <1>3, <5>1 DEF Settled
      <4> QED
        BY <4>1, <4>2
    <3> QED
      BY <3>1 DEF OwnChildren
  <2> QED
    BY <2>1, <2>2
<1> HIDE DEF r
<1> QED
  BY <1>2, <1>3, <1>5, <1>6, <1>7, GoesOn

(* The acknowledgement: the child has started, or was refused and nobody   *)
(* will ask for it again.                                                  *)
LEMMA AcknowledgedStep ==
  ASSUME TreeKept, MaxAgents \in Nat, NEW a \in Tree!Agents, Tree!Acknowledged(a)
  PROVE  TreeKept'
<1> DEFINE c == agent[a].child
<1>1. /\ a \in Tree!Known /\ agent[a].pc = "spawning" /\ acks[c] # <<>>
      /\ IF Head(acks[c]) = "spawned" THEN agent' = [agent EXCEPT ![a].pc = "waiting"]
                                      ELSE Tree!Back(a, {}, FALSE)
      /\ acks' = [acks EXCEPT ![c] = Tail(@)]
      /\ mail' = mail /\ pending' = pending /\ results' = results
  BY DEF Tree!Acknowledged, Tree!At
<1>2. c \in Tree!Known /\ c \in Tree!Agents /\ agent[c].parent = a
  BY <1>1, AgentFacts DEF TreeKept, Attached
<1>3. Head(acks[c]) = "failed" <=> agent[c].pc = "none"
  BY <1>1, <1>2 DEF TreeKept, Truthful
<1>4. Drained /\ Head(acks[c]) \in {"spawned", "failed"}
  <2>1. TreeShape /\ results \in [Tree!Agents -> {<<>>} \union {<<f>> : f \in SUBSET Nat}]
    BY DEF TreeKept, TreeShape
  <2> HIDE DEF c
  <2>2. /\ acks' \in [Tree!Agents -> {<<>>, <<"spawned">>, <<"failed">>}]
        /\ \A d \in Tree!Agents : acks'[d] # <<>> => acks'[d] = acks[d]
        /\ Head(acks[c]) \in {"spawned", "failed"}
    BY <1>1, <1>2, <2>1, Channels
  <2> QED
    BY <1>1, <2>1, <2>2 DEF Drained
<1>5. CASE Head(acks[c]) = "spawned"
  <2> DEFINE r == [agent[a] EXCEPT !.pc = "waiting"]
  <2>1. agent[a] \in AgentType
    BY <1>1, AgentFacts DEF TreeKept
  <2>2. /\ r.pc = "waiting" /\ r.child = c /\ r.parent = agent[a].parent /\ r.cap = agent[a].cap
        /\ r.files = agent[a].files /\ r.gaveUp = agent[a].gaveUp
    BY <2>1 DEF AgentType
  <2>3. r \in AgentType
    BY <2>1 DEF AgentType, Pc
  <2>4. agent' = [agent EXCEPT ![a] = r]
    BY <1>1, <1>5
  <2>5. agent[c].pc # "none"
    BY <1>3, <1>5
  <2>6. OwnWait(a, r)
    BY <1>1, <2>2, <2>5 DEF OwnWait
  <2>7. OwnChildren(a, r)
    <3> HIDE DEF r
    <3> QED
      BY <1>1, <2>2 DEF OwnChildren, TreeKept, Children, Settled
  <2> HIDE DEF r, c
  <2> QED
    BY <1>1, <1>4, <2>2, <2>3, <2>4, <2>6, <2>7, GoesOn
<1>6. CASE Head(acks[c]) # "spawned"
  <2>1. agent[c].pc = "none" /\ Tree!Back(a, {}, FALSE)
    BY <1>1, <1>3, <1>4, <1>6
  <2>2. Over(a, agent[a].child, {})
    <3>1. SUFFICES ASSUME NEW i \in DOMAIN mail[a], mail[a][i] = <<"spawn", c>>
                   PROVE  FALSE
      BY <2>1 DEF Asked, Over
    <3>2. mail[a][i][1] = "spawn" /\ mail[a][i][2] = c
      BY <3>1
    <3> QED
      BY <1>1, <3>2 DEF TreeKept, Letters
  <2>3. {} \in SUBSET Nat /\ FALSE \in BOOLEAN
    OBVIOUS
  <2> QED
    BY <1>1, <1>4, <2>1, <2>2, <2>3, BackStep
<1> QED
  BY <1>5, <1>6

(* The completion: the waiter takes the files of its own child.            *)
LEMMA CompletedStep ==
  ASSUME TreeKept, MaxAgents \in Nat, NEW a \in Tree!Agents, Tree!Completed(a)
  PROVE  TreeKept'
<1> DEFINE c == agent[a].child
<1>1. /\ a \in Tree!Known /\ agent[a].pc = "waiting" /\ results[c] # <<>>
      /\ Tree!Back(a, Head(results[c]), FALSE)
      /\ results' = [results EXCEPT ![c] = Tail(@)]
      /\ mail' = mail /\ pending' = pending /\ acks' = acks
  BY DEF Tree!Completed, Tree!At, Tree!Carried
<1>2. c \in Tree!Known /\ c \in Tree!Agents
  BY <1>1, AgentFacts DEF TreeKept, Attached
<1>3. agent[c].pc = "ended" /\ Head(results[c]) = agent[c].files
  BY <1>1, <1>2 DEF TreeKept, Truthful, Tree!At
<1>4. Drained /\ Head(results[c]) \in SUBSET Nat
  <2>1. TreeShape /\ acks \in [Tree!Agents -> {<<>>, <<"spawned">>, <<"failed">>}]
    BY DEF TreeKept, TreeShape
  <2> HIDE DEF c
  <2>2. /\ results' \in [Tree!Agents -> {<<>>} \union {<<f>> : f \in SUBSET Nat}]
        /\ \A d \in Tree!Agents : results'[d] # <<>> => results'[d] = results[d]
        /\ Head(results[c]) \in SUBSET Nat
    BY <1>1, <1>2, <2>1, Channels
  <2> QED
    BY <1>1, <2>1, <2>2 DEF Drained
<1>5. Over(a, agent[a].child, Head(results[c]))
  BY <1>3 DEF Over
<1> QED
  BY <1>1, <1>4, <1>5, BackStep

(* A wait that is given up claims nothing of the children.                 *)
LEMMA GiveUpStep ==
  ASSUME TreeKept, MaxAgents \in Nat, NEW a \in Tree!Agents, Tree!TimedOut(a) \/ Tree!GivenUp(a)
  PROVE  TreeKept'
<1>1. /\ a \in Tree!Known /\ agent[a].pc \in {"spawning", "waiting"} /\ Tree!Back(a, {}, TRUE)
      /\ UNCHANGED <<mail, pending, acks, results>>
  BY DEF Tree!TimedOut, Tree!GivenUp, Tree!At
<1>2. Drained
  BY <1>1 DEF Drained, TreeKept, TreeShape
<1>3. {} \in SUBSET Nat /\ TRUE \in BOOLEAN
  OBVIOUS
<1> QED
  BY <1>1, <1>2, <1>3, BackStep

(* A file more is no file less.                                            *)
LEMMA WriteStep ==
  ASSUME TreeKept, MaxAgents \in Nat, NEW a \in Tree!Agents, Tree!Write(a)
  PROVE  TreeKept'
<1> DEFINE r == [agent[a] EXCEPT !.files = @ \union {a}]
<1>1. /\ a \in Tree!Known /\ agent[a].pc = "run" /\ agent' = [agent EXCEPT ![a] = r]
      /\ UNCHANGED <<mail, pending, acks, results>>
  BY DEF Tree!Write, Tree!At
<1>2. agent[a] \in AgentType /\ a \in Nat
  BY <1>1, AgentFacts DEF TreeKept
<1>3. /\ r.pc = "run" /\ r.child = agent[a].child /\ r.parent = agent[a].parent
      /\ r.cap = agent[a].cap /\ r.files = agent[a].files \union {a} /\ r.gaveUp = agent[a].gaveUp
  BY <1>1, <1>2 DEF AgentType
<1>4. r \in AgentType
  BY <1>2 DEF AgentType
<1>5. OwnWait(a, r)
  BY <1>1, <1>3 DEF OwnWait, TreeKept, Attached
<1>6. OwnChildren(a, r)
  <2> HIDE DEF r
  <2>1. agent[a].files \subseteq r.files
    BY <1>3
  <2> QED
    BY <1>1, <1>3, <2>1 DEF OwnChildren, TreeKept, Children, Settled
<1>7. Drained
  BY <1>1 DEF Drained, TreeKept, TreeShape
<1> HIDE DEF r
<1> QED
  BY <1>1, <1>3, <1>4, <1>5, <1>6, <1>7, GoesOn

(* An agent that ends: the parent is told, nobody counted on it before.    *)
LEMMA EndStep ==
  ASSUME TreeKept, MaxAgents \in Nat, NEW a \in Tree!Agents, Tree!End(a)
  PROVE  TreeKept'
<1> DEFINE r == [agent[a] EXCEPT !.pc = "ended"]
           p == agent[a].parent
<1>1. /\ a \in Tree!Known /\ agent[a].pc = "run" /\ agent' = [agent EXCEPT ![a] = r]
      /\ mail' = IF p = 0 THEN mail ELSE [mail EXCEPT ![p] = Append(@, <<"done", a>>)]
      /\ UNCHANGED <<pending, acks, results>>
  BY DEF Tree!End, Tree!At
<1>2. /\ agent[a] \in AgentType /\ a \in Nat
      /\ Tree!Known \subseteq Tree!Agents /\ 0 \notin Tree!Known
      /\ agent[a].child = 0
  BY <1>1, AgentFacts DEF TreeKept, Attached
<1>3. /\ r.pc = "ended" /\ r.child = 0 /\ r.parent = agent[a].parent
      /\ r.cap = agent[a].cap /\ r.files = agent[a].files /\ r.gaveUp = agent[a].gaveUp
  BY <1>2 DEF AgentType
<1>4. r \in AgentType
  BY <1>2 DEF AgentType, Pc
<1>5. /\ agent' \in Seq(AgentType) /\ Len(agent') <= MaxAgents /\ Tree!Known' = Tree!Known
      /\ agent'[a] = r /\ \A b \in Tree!Known \ {a} : agent'[b] = agent[b]
  <2> HIDE DEF r
  <2> QED
    BY <1>1, <1>4, AgentEdit DEF TreeKept
<1> HIDE DEF r
<1>6. \A b \in Tree!Known :
        /\ agent'[b].parent = agent[b].parent /\ agent'[b].cap = agent[b].cap
        /\ agent'[b].child = agent[b].child /\ agent'[b].files = agent[b].files
        /\ agent'[b].gaveUp = agent[b].gaveUp
        /\ b # a => agent'[b].pc = agent[b].pc
        /\ agent'[b].pc = "none" <=> agent[b].pc = "none"
        /\ agent[b].pc = "ended" => agent'[b].pc = "ended"
  BY <1>1, <1>2, <1>3, <1>5
<1>7. p = 0 \/ p \in Tree!Known
  BY <1>1 DEF TreeKept, Family
<1>8. /\ mail' \in [Tree!Agents -> Seq(Letter)]
      /\ \A b \in Tree!Agents : \A i \in DOMAIN mail'[b] :
           \/ i \in DOMAIN mail[b] /\ mail'[b][i] = mail[b][i]
           \/ b = p /\ mail'[b][i] = <<"done", a>>
  <2>1. CASE p = 0
    BY <1>1, <2>1 DEF TreeKept, TreeShape
  <2>2. CASE p # 0
    <3> HIDE DEF p
    <3>1. p \in Tree!Agents /\ <<"done", a>> \in Letter /\ TreeShape
      BY <1>2, <1>7, <2>2 DEF Letter, TreeKept
    <3>2. mail' = [mail EXCEPT ![p] = Append(@, <<"done", a>>)]
      BY <1>1, <2>2
    <3>3. Sent(p, <<"done", a>>)
      BY <3>1, <3>2, MailAppend
    <3> QED
      BY <3>3 DEF Sent
  <2> QED
    BY <2>1, <2>2
<1>9. TreeShape'
  BY <1>1, <1>5, <1>8 DEF TreeKept, TreeShape
<1>10. Family'
  BY <1>5, <1>6 DEF TreeKept, Family
<1>11. Letters'
  <2>1. ASSUME NEW b \in Tree!Agents, NEW i \in DOMAIN mail'[b]
        PROVE  /\ mail'[b][i][2] \in Tree!Known' /\ agent'[mail'[b][i][2]].parent = b
               /\ mail'[b][i][1] = "done" => agent'[mail'[b][i][2]].pc = "ended"
               /\ mail'[b][i][1] = "spawn" =>
                    /\ agent'[mail'[b][i][2]].pc = "none" /\ acks[mail'[b][i][2]] = <<>>
                    /\ \A j \in DOMAIN mail'[b] : mail'[b][j] = mail'[b][i] => j = i
    <3>1. CASE i \in DOMAIN mail[b] /\ mail'[b][i] = mail[b][i]
      <4>1. mail[b][i][1] = "spawn" => \A j \in DOMAIN mail'[b] : mail'[b][j] = mail'[b][i] =>
              j \in DOMAIN mail[b] /\ mail[b][j] = mail[b][i]
        BY <1>8, <2>1, <3>1
      <4> QED
        BY <1>5, <1>6, <3>1, <4>1 DEF TreeKept, Letters
    <3>2. CASE b = p /\ mail'[b][i] = <<"done", a>>
      <4>1. mail'[b][i][1] = "done" /\ mail'[b][i][2] = a
        BY <3>2
      <4>2. a \in Tree!Known' /\ agent'[a].parent = b /\ agent'[a].pc = "ended"
        BY <1>1, <1>3, <1>5, <3>2
      <4> QED
        BY <4>1, <4>2
    <3> QED
      BY <1>8, <2>1, <3>1, <3>2
  <2>2. acks' = acks
    BY <1>1
  <2> QED
    BY <2>1, <2>2 DEF Letters
<1>12. Truthful'
  BY <1>1, <1>5, <1>6 DEF TreeKept, Truthful, Tree!At
<1>13. Attached'
  <2>1. ASSUME NEW b \in Tree!Known
        PROVE  IF agent'[b].pc \in {"spawning", "waiting"}
                 THEN /\ agent'[b].child \in Tree!Known /\ agent'[agent'[b].child].parent = b
                      /\ agent'[b].pc = "waiting" => agent'[agent'[b].child].pc # "none"
                 ELSE agent'[b].child = 0
    <3>1. IF agent[b].pc \in {"spawning", "waiting"}
            THEN /\ agent[b].child \in Tree!Known /\ agent[agent[b].child].parent = b
                 /\ agent[b].pc = "waiting" => agent[agent[b].child].pc # "none"
            ELSE agent[b].child = 0
      BY DEF TreeKept, Attached
    <3>2. CASE b = a
      BY <1>3, <1>5, <3>2
    <3>3. CASE b # a
      BY <1>6, <3>1, <3>3
    <3> QED
      BY <3>2, <3>3
  <2> QED
    BY <1>5, <2>1 DEF Attached
<1>14. Children'
  <2>1. ASSUME NEW b \in Tree!Known, ~agent'[b].gaveUp, NEW c \in Tree!Known,
               agent'[c].parent = b, agent'[b].child # c
        PROVE  Settled(b, c)'
    <3>1. Settled(b, c)
      BY <1>6, <2>1 DEF TreeKept, Children
    <3>2. Asked(b, c)' => Asked(b, c)
      <4>1. b \in Tree!Agents /\ <<"done", a>> # <<"spawn", c>>
        BY <1>2
      <4> QED
        BY <1>8, <4>1 DEF Asked
    <3> QED
      BY <1>6, <3>1, <3>2 DEF Settled
  <2> QED
    BY <1>5, <2>1 DEF Children
<1> QED
  BY <1>9, <1>10, <1>11, <1>12, <1>13, <1>14 DEF TreeKept

(* A request: nobody asks again for the child it names.                    *)
LEMMA RequestFacts ==
  ASSUME TreeKept, MaxAgents \in Nat, NEW a \in Tree!Agents,
         mail[a] # <<>>, Head(mail[a])[1] = "spawn",
         NEW c, c = Head(mail[a])[2], mail' = [mail EXCEPT ![a] = Tail(@)]
  PROVE  /\ Taken(a) /\ mail[a] \in Seq(Letter) /\ mail[a][1] = <<"spawn", c>>
         /\ c \in Tree!Known /\ c \in Tree!Agents /\ agent[c].parent = a /\ agent[c].pc = "none"
         /\ acks[c] = <<>> /\ results[c] = <<>> /\ Asked(a, c)
<1>1. Taken(a) /\ mail[a] \in Seq(Letter)
  BY MailTail DEF TreeKept, TreeShape
<1>2. /\ Head(mail[a]) = mail[a][1] /\ 1 \in DOMAIN mail[a] /\ mail[a][1] \in Letter
  BY <1>1, ElementOfSeq, LenProperties DEF Taken
<1>3. mail[a][1] = <<"spawn", c>>
  BY <1>2 DEF Letter
<1>4. c \in Tree!Known /\ agent[c].parent = a /\ agent[c].pc = "none" /\ acks[c] = <<>>
  BY <1>2 DEF TreeKept, Letters
<1>5. c \in Tree!Agents /\ results[c] = <<>>
  BY <1>4, AgentFacts DEF TreeKept, Truthful, Tree!At
<1>6. Asked(a, c)
  BY <1>2, <1>3 DEF Asked
<1> QED
  BY <1>1, <1>3, <1>4, <1>5, <1>6

(* The child that is asked for starts, and its parent does not count it as *)
(* settled.                                                                *)
LEMMA StartStep ==
  ASSUME TreeKept, MaxAgents \in Nat, NEW a \in Tree!Agents, NEW c \in Tree!Known,
         Taken(a), mail[a] \in Seq(Letter), mail[a][1] = <<"spawn", c>>,
         c \in Tree!Agents, agent[c].parent = a, agent[c].pc = "none",
         acks[c] = <<>>, results[c] = <<>>, Asked(a, c),
         agent' = [agent EXCEPT ![c].pc = "run"],
         pending' = [pending EXCEPT ![a] = @ \union {c}],
         acks' = [acks EXCEPT ![c] = Append(@, "spawned")], results' = results
  PROVE  TreeKept'
<1> DEFINE r == [agent[c] EXCEPT !.pc = "run"]
<1>1. agent[c] \in AgentType /\ c \in Nat /\ Tree!Known \subseteq Tree!Agents /\ 0 \notin Tree!Known
  BY AgentFacts DEF TreeKept
<1>2. /\ r.pc = "run" /\ r.child = agent[c].child /\ r.parent = agent[c].parent
      /\ r.cap = agent[c].cap /\ r.files = agent[c].files /\ r.gaveUp = agent[c].gaveUp
  BY <1>1 DEF AgentType
<1>3. r \in AgentType /\ agent' = [agent EXCEPT ![c] = r]
  BY <1>1 DEF AgentType, Pc
<1>4. /\ agent' \in Seq(AgentType) /\ Len(agent') <= MaxAgents /\ Tree!Known' = Tree!Known
      /\ agent'[c] = r /\ \A b \in Tree!Known \ {c} : agent'[b] = agent[b]
  <2> HIDE DEF r
  <2> QED
    BY <1>3, AgentEdit DEF TreeKept
<1> HIDE DEF r
<1>5. \A b \in Tree!Known :
        /\ agent'[b].parent = agent[b].parent /\ agent'[b].cap = agent[b].cap
        /\ agent'[b].child = agent[b].child /\ agent'[b].files = agent[b].files
        /\ agent'[b].gaveUp = agent[b].gaveUp
        /\ b # c => agent'[b].pc = agent[b].pc
        /\ agent[b].pc # "none" => agent'[b].pc # "none"
        /\ agent'[b].pc = "ended" <=> agent[b].pc = "ended"
  BY <1>2, <1>4
<1>6. Append(acks[c], "spawned") = <<"spawned">> /\ Head(<<"spawned">>) = "spawned"
  OBVIOUS
<1>7. /\ acks' \in [Tree!Agents -> {<<>>, <<"spawned">>, <<"failed">>}] /\ acks'[c] = <<"spawned">>
      /\ \A d \in Tree!Agents \ {c} : acks'[d] = acks[d]
  BY <1>6 DEF TreeKept, TreeShape
<1>8. TreeShape'
  <2>1. pending' \in [Tree!Agents -> SUBSET Nat]
    BY <1>1 DEF TreeKept, TreeShape
  <2> QED
    BY <1>4, <1>7, <2>1 DEF TreeKept, TreeShape, Taken
<1>9. Family'
  BY <1>4, <1>5 DEF TreeKept, Family
<1>10. Letters' /\ \A b, d \in Tree!Agents : Asked(b, d)' => Asked(b, d)
  <2>1. \A d \in Tree!Known :
          /\ agent'[d].parent = agent[d].parent
          /\ mail[a][1] # <<"spawn", d>> =>
               /\ agent[d].pc \in {"none", "ended"} => agent'[d].pc = agent[d].pc
               /\ acks[d] = <<>> => acks'[d] = <<>>
          /\ mail[a][1] = <<"spawn", d>> /\ agent[d].pc = "ended" => agent'[d].pc = "ended"
    BY <1>1, <1>5, <1>7
  <2> QED
    BY <1>4, <2>1, LettersLeft DEF TreeKept
<1>11. Truthful'
  <2>1. ASSUME NEW d \in Tree!Agents, acks'[d] # <<>>
        PROVE  d \in Tree!Known' /\ (Head(acks'[d]) = "failed" <=> agent'[d].pc = "none")
    <3>1. CASE d = c
      BY <1>2, <1>4, <1>6, <1>7, <3>1
    <3>2. CASE d # c
      BY <1>4, <1>5, <1>7, <2>1, <3>2 DEF TreeKept, Truthful
    <3> QED
      BY <3>1, <3>2
  <2>2. ASSUME NEW d \in Tree!Agents, results[d] # <<>>
        PROVE  d \in Tree!Known' /\ agent'[d].pc = "ended" /\ Head(results[d]) = agent'[d].files
    BY <1>4, <1>5, <2>2 DEF TreeKept, Truthful, Tree!At
  <2> QED
    BY <2>1, <2>2 DEF Truthful, Tree!At
<1>12. Attached'
  <2>1. ASSUME NEW b \in Tree!Known
        PROVE  IF agent'[b].pc \in {"spawning", "waiting"}
                 THEN /\ agent'[b].child \in Tree!Known /\ agent'[agent'[b].child].parent = b
                      /\ agent'[b].pc = "waiting" => agent'[agent'[b].child].pc # "none"
                 ELSE agent'[b].child = 0
    <3>1. IF agent[b].pc \in {"spawning", "waiting"}
            THEN /\ agent[b].child \in Tree!Known /\ agent[agent[b].child].parent = b
                 /\ agent[b].pc = "waiting" => agent[agent[b].child].pc # "none"
            ELSE agent[b].child = 0
      BY DEF TreeKept, Attached
    <3>2. CASE b = c
      BY <1>2, <1>4, <3>1, <3>2
    <3>3. CASE b # c
      BY <1>5, <3>1, <3>3
    <3> QED
      BY <3>2, <3>3
  <2> QED
    BY <1>4, <2>1 DEF Attached
<1>13. Children'
  <2>1. ASSUME NEW b \in Tree!Known, ~agent'[b].gaveUp, NEW d \in Tree!Known,
               agent'[d].parent = b, agent'[b].child # d
        PROVE  Settled(b, d)'
    <3>1. Settled(b, d) /\ agent[d].parent = b
      BY <1>5, <2>1 DEF TreeKept, Children
    <3>2. d # c
      BY <3>1 DEF Settled
    <3>3. Asked(b, d)' => Asked(b, d)
      BY <1>1, <1>10, <2>1
    <3> QED
      BY <1>5, <3>1, <3>2, <3>3 DEF Settled
  <2> QED
    BY <1>4, <2>1 DEF Children
<1> QED
  BY <1>8, <1>9, <1>10, <1>11, <1>12, <1>13 DEF TreeKept

(* A request that is refused; a completion that is handed to the waiter.   *)
(* No agent is touched, a letter less is no claim.                         *)
LEMMA LetterStep ==
  ASSUME TreeKept, MaxAgents \in Nat, NEW a \in Tree!Agents, Taken(a), mail[a] \in Seq(Letter),
         agent' = agent, TreeShape',
         \A d \in Tree!Known : mail[a][1] # <<"spawn", d>> => acks'[d] = acks[d],
         Truthful'
  PROVE  TreeKept'
<1>1. Tree!Known' = Tree!Known /\ Tree!Known \subseteq Tree!Agents
  BY AgentFacts DEF TreeKept, Tree!Known
<1>2. Letters' /\ \A b, d \in Tree!Agents : Asked(b, d)' => Asked(b, d)
  BY <1>1, LettersLeft DEF TreeKept
<1>3. Family' /\ Attached'
  BY <1>1 DEF TreeKept, Family, Attached
<1>4. Children'
  BY <1>1, <1>2 DEF TreeKept, Children, Settled
<1> QED
  BY <1>2, <1>3, <1>4 DEF TreeKept

(* handleSubAgentSpawn starts the child or answers that it did not.        *)
LEMMA SpawnRequestStep ==
  ASSUME TreeKept, MaxAgents \in Nat, NEW a \in Tree!Agents, Tree!HandleSubAgentSpawn(a)
  PROVE  TreeKept'
<1> DEFINE c == Head(mail[a])[2]
<1>1. /\ mail[a] # <<>> /\ Head(mail[a])[1] = "spawn" /\ mail' = [mail EXCEPT ![a] = Tail(@)]
      /\ UNCHANGED results
      /\ \/ /\ agent' = [agent EXCEPT ![c].pc = "run"]
            /\ pending' = [pending EXCEPT ![a] = @ \union {c}]
            /\ acks' = [acks EXCEPT ![c] = Append(@, "spawned")]
         \/ /\ acks' = [acks EXCEPT ![c] = @ \o Tree!SpawnError(c)]
            /\ UNCHANGED <<agent, pending>>
  BY DEF Tree!HandleSubAgentSpawn
<1> HIDE DEF c
<1>2. /\ Taken(a) /\ mail[a] \in Seq(Letter) /\ mail[a][1] = <<"spawn", c>>
      /\ c \in Tree!Known /\ c \in Tree!Agents /\ agent[c].parent = a /\ agent[c].pc = "none"
      /\ acks[c] = <<>> /\ results[c] = <<>> /\ Asked(a, c)
  <2>1. c = Head(mail[a])[2]
    BY DEF c
  <2> QED
    BY <1>1, <2>1, RequestFacts
<1>3. CASE /\ agent' = [agent EXCEPT ![c].pc = "run"]
           /\ pending' = [pending EXCEPT ![a] = @ \union {c}]
           /\ acks' = [acks EXCEPT ![c] = Append(@, "spawned")]
  BY <1>1, <1>2, <1>3, StartStep
<1>4. CASE /\ acks' = [acks EXCEPT ![c] = @ \o Tree!SpawnError(c)]
           /\ UNCHANGED <<agent, pending>>
  <2>1. <<>> \o Tree!SpawnError(c) = <<"failed">> /\ Head(<<"failed">>) = "failed"
    BY DEF Tree!SpawnError
  <2>2. /\ acks' \in [Tree!Agents -> {<<>>, <<"spawned">>, <<"failed">>}] /\ acks'[c] = <<"failed">>
        /\ \A d \in Tree!Agents \ {c} : acks'[d] = acks[d]
    BY <1>2, <1>4, <2>1 DEF TreeKept, TreeShape
  <2>3. TreeShape'
    BY <1>1, <1>2, <1>4, <2>2 DEF TreeKept, TreeShape, Taken
  <2>4. \A d \in Tree!Known : mail[a][1] # <<"spawn", d>> => acks'[d] = acks[d]
    <3>1. Tree!Known \subseteq Tree!Agents
      BY AgentFacts DEF TreeKept
    <3> QED
      BY <1>2, <2>2, <3>1
  <2>5. Truthful'
    <3>1. Tree!Known' = Tree!Known /\ agent' = agent /\ results' = results
      BY <1>1, <1>4 DEF Tree!Known
    <3> QED
      BY <1>2, <2>1, <2>2, <3>1 DEF TreeKept, Truthful, Tree!At
  <2> QED
    BY <1>2, <1>4, <2>3, <2>4, <2>5, LetterStep
<1> QED
  BY <1>1, <1>3, <1>4

(* handleSubAgentDone: a completion is of a child that has ended, and says *)
(* what it changed.                                                        *)
LEMMA DoneStep ==
  ASSUME TreeKept, MaxAgents \in Nat, NEW a \in Tree!Agents, Tree!HandleDone(a)
  PROVE  TreeKept'
<1> DEFINE c == Head(mail[a])[2]
<1>1. /\ mail[a] # <<>> /\ Head(mail[a])[1] = "done" /\ mail' = [mail EXCEPT ![a] = Tail(@)]
      /\ agent' = agent /\ acks' = acks
      /\ results' = [r \in Tree!Agents |-> IF r \in Tree!Routed(a, c) /\ results[r] = <<>>
                                              THEN <<agent[c].files>> ELSE results[r]]
      /\ pending' = [pending EXCEPT ![a] = @ \ {c}]
  BY DEF Tree!HandleDone
<1> HIDE DEF c
<1>2. Taken(a) /\ mail[a] \in Seq(Letter)
  BY <1>1, MailTail DEF TreeKept, TreeShape
<1>3. c \in Tree!Known /\ agent[c].pc = "ended"
  <2>1. 1 \in DOMAIN mail[a] /\ mail[a][1][1] = "done" /\ mail[a][1][2] = c
    BY <1>1, <1>2 DEF Taken, c
  <2> QED
    BY <2>1 DEF TreeKept, Letters
<1>4. agent[c].files \in SUBSET Nat
  BY <1>3, AgentFacts DEF TreeKept, AgentType
<1>5. \A r \in Tree!Agents :
        \/ results'[r] = results[r]
        \/ r = c /\ results'[r] = <<agent[c].files>>
  BY <1>1 DEF Tree!Routed
<1>6. TreeShape'
  <2>1. results' \in [Tree!Agents -> {<<>>} \union {<<f>> : f \in SUBSET Nat}]
    <3>1. /\ \A r \in Tree!Agents : results[r] \in {<<>>} \union {<<f>> : f \in SUBSET Nat}
          /\ <<agent[c].files>> \in {<<>>} \union {<<f>> : f \in SUBSET Nat}
      BY <1>4 DEF TreeKept, TreeShape
    <3> QED
      BY <1>1, <3>1
  <2>2. pending' \in [Tree!Agents -> SUBSET Nat]
    BY <1>1 DEF TreeKept, TreeShape
  <2> QED
    BY <1>1, <1>2, <2>1, <2>2 DEF TreeKept, TreeShape, Taken
<1>7. Truthful'
  <2>1. Tree!Known' = Tree!Known /\ agent' = agent /\ acks' = acks
    BY <1>1 DEF Tree!Known
  <2>2. Head(<<agent[c].files>>) = agent[c].files
    OBVIOUS
  <2>3. ASSUME NEW r \in Tree!Agents, results'[r] # <<>>
        PROVE  r \in Tree!Known /\ agent[r].pc = "ended" /\ Head(results'[r]) = agent[r].files
    BY <1>3, <1>5, <2>2, <2>3 DEF TreeKept, Truthful, Tree!At
  <2> QED
    BY <2>1, <2>3 DEF TreeKept, Truthful, Tree!At
<1>8. \A d \in Tree!Known : mail[a][1] # <<"spawn", d>> => acks'[d] = acks[d]
  BY <1>1
<1> QED
  BY <1>1, <1>2, <1>6, <1>7, <1>8, LetterStep

(* Every step keeps the invariant.                                         *)
LEMMA TreeAlways ==
  ASSUME MaxAgents \in Nat \ {0}, RootCaps \subseteq Int
  PROVE  Tree!Spec => []TreeKept
<1>1. Tree!Init => TreeKept
  <2>1. SUFFICES ASSUME Tree!Init PROVE TreeKept
    OBVIOUS
  <2>2. PICK cap \in RootCaps : agent = <<[Tree!Absent(0, 0, cap) EXCEPT !.pc = "run"]>>
    BY <2>1 DEF Tree!Init
  <2> DEFINE r == [Tree!Absent(0, 0, cap) EXCEPT !.pc = "run"]
  <2>3. /\ r \in AgentType /\ r.parent = 0 /\ r.pc = "run" /\ r.child = 0
    BY DEF Tree!Absent, AgentType, Pc
  <2> HIDE DEF r
  <2>4. agent = <<r>>
    BY <2>2 DEF r
  <2>5. agent \in Seq(AgentType) /\ Len(agent) = 1 /\ Tree!Known = {1} /\ agent[1] = r
    BY <2>3, <2>4 DEF Tree!Known
  <2>6. /\ mail = [a \in Tree!Agents |-> <<>>] /\ pending = [a \in Tree!Agents |-> {}]
        /\ acks = [a \in Tree!Agents |-> <<>>] /\ results = [a \in Tree!Agents |-> <<>>]
    BY <2>1 DEF Tree!Init
  <2>7. TreeShape
    <3>1. <<>> \in Seq(Letter)
      OBVIOUS
    <3> QED
      BY <2>5, <2>6, <3>1 DEF TreeShape
  <2>8. Family /\ Attached
    BY <2>3, <2>5 DEF Family, Attached
  <2>9. Letters /\ Truthful
    BY <2>6 DEF Letters, Truthful
  <2>10. Children
    BY <2>3, <2>5 DEF Children
  <2> QED
    BY <2>7, <2>8, <2>9, <2>10 DEF TreeKept
<1>2. TreeKept /\ [Tree!Next]_Tree!vars => TreeKept'
  <2>1. SUFFICES ASSUME TreeKept, [Tree!Next]_Tree!vars PROVE TreeKept'
    OBVIOUS
  <2>2. ASSUME UNCHANGED <<agent, mail, pending, acks, results>>
        PROVE  TreeKept'
    BY <2>1, <2>2 DEF TreeKept, TreeShape, Family, Letters, Truthful, Attached, Children,
                      Settled, Asked, Tree!At, Tree!Known
  <2>3. CASE Tree!Cancel \/ Tree!CleanUp \/ UNCHANGED Tree!vars
    BY <2>2, <2>3 DEF Tree!Cancel, Tree!CleanUp, Tree!vars
  <2>4. ASSUME NEW a \in Tree!Agents,
               \/ Tree!HandleSubAgent(a) \/ Tree!Receive(a) \/ Tree!Resume(a)
                \/ Tree!Write(a) \/ Tree!End(a)
        PROVE  TreeKept'
    <3>1. CASE Tree!HandleSubAgent(a)
      BY <2>1, <3>1, SpawnStep
    <3>2. CASE Tree!HandleSubAgentSpawn(a)
      BY <2>1, <3>2, SpawnRequestStep
    <3>3. CASE Tree!HandleDone(a)
      BY <2>1, <3>3, DoneStep
    <3>4. CASE Tree!Acknowledged(a)
      BY <2>1, <3>4, AcknowledgedStep
    <3>5. CASE Tree!Completed(a)
      BY <2>1, <3>5, CompletedStep
    <3>6. CASE Tree!TimedOut(a) \/ Tree!GivenUp(a)
      BY <2>1, <3>6, GiveUpStep
    <3>7. CASE Tree!Write(a)
      BY <2>1, <3>7, WriteStep
    <3>8. CASE Tree!End(a)
      BY <2>1, <3>8, EndStep
    <3> QED
      BY <2>4, <3>1, <3>2, <3>3, <3>4, <3>5, <3>6, <3>7, <3>8 DEF Tree!Receive, Tree!Resume
  <2> QED
    BY <2>1, <2>3, <2>4 DEF Tree!Next
<1> QED
  BY <1>1, <1>2, PTL DEF Tree!Spec

-----------------------------------------------------------------------------
(* The property of the runs. *)

(* Half of five iterations or more is no more than they are.               *)
LEMMA HalfIsLess ==
  ASSUME NEW cap \in Int, cap >= 5
  PROVE  Tree!ChildCap(cap) <= cap
BY DEF Tree!ChildCap, Tree!DefaultSubAgentMaxIterations

(* What an agent learns of its children, also of those it gave up on, is   *)
(* theirs and whole, and none has more iterations than allowed             *)
(* (handleSubAgent, handleSubAgentDone): TreeSafe, of trees of any size,   *)
(* in any order of requests, completions and timeouts.                     *)
THEOREM TreesSafe == Tree!Spec => []TreeSafe
<1>1. TreeKept => TreeSafe
  <2>1. SUFFICES ASSUME TreeKept PROVE TreeSafe
    OBVIOUS
  <2>2. Tree!OwnResult
    BY <2>1 DEF TreeKept, Truthful, Tree!OwnResult
  <2>3. Tree!FilesCarried
    <3>1. ASSUME NEW a \in Tree!Known, Tree!At(a, "ended"), ~agent[a].gaveUp,
                 NEW c \in Tree!Known, agent[c].parent = a, agent[c].pc # "none"
          PROVE  Tree!At(c, "ended") /\ agent[c].files \subseteq agent[a].files
      <4>1. agent[a].child = 0 /\ c # 0
        BY <2>1, <3>1, AgentFacts, ExchangeAssumption DEF TreeKept, Attached, Tree!At
      <4>2. Settled(a, c)
        BY <2>1, <3>1, <4>1 DEF TreeKept, Children
      <4> QED
        BY <3>1, <4>2 DEF Settled, Tree!At
    <3> QED
      BY <3>1 DEF Tree!FilesCarried
  <2>4. Tree!CapsShrink
    <3>1. ASSUME NEW c \in Tree!Known, agent[c].parent # 0, agent[agent[c].parent].cap >= 5
          PROVE  agent[c].cap <= agent[agent[c].parent].cap
      <4>1. /\ agent[c].parent \in Tree!Known
            /\ agent[c].cap = Tree!ChildCap(agent[agent[c].parent].cap)
        BY <2>1, <3>1 DEF TreeKept, Family
      <4>2. agent[agent[c].parent].cap \in Int
        BY <2>1, <4>1, AgentFacts, ExchangeAssumption DEF TreeKept, AgentType
      <4> QED
        BY <3>1, <4>1, <4>2, HalfIsLess
    <3> QED
      BY <3>1 DEF Tree!CapsShrink
  <2> QED
    BY <2>2, <2>3, <2>4 DEF TreeSafe, Tree!TreeSafe
<1> QED
  BY <1>1, TreeAlways, ExchangeAssumption, PTL

-----------------------------------------------------------------------------
(* The exchanges side by side. *)

(* A process that handles requests and trees keeps both promises at once:  *)
(* neither disturbs the other (publisher.go:127, orchestrator.go:455).     *)
THEOREM ExchangesSafe == ESpec => [](RepliesSafe /\ TreeSafe)
<1>1. EInit => Requests!Init /\ Tree!Init
  BY DEF EInit
<1>2. [ENext]_<<vars, requests, tree, scene>> => [Requests!Next]_Requests!vars
  BY DEF ENext, requests, Requests!vars, Requests!calls, Requests!network
<1>3. [ENext]_<<vars, requests, tree, scene>> => [Tree!Next]_Tree!vars
  BY DEF ENext, tree, Tree!vars
<1>4. ESpec => Requests!Spec /\ Tree!Spec
  BY <1>1, <1>2, <1>3, PTL DEF ESpec, Requests!Spec, Tree!Spec
<1> QED
  BY <1>4, RequestsSafe, TreesSafe, PTL
=============================================================================
