---------------------------- MODULE ForgeProofs ----------------------------
(***************************************************************************)
(* Proofs about the runtime of forged APIs: calls that share a token       *)
(* manager, for any number of calls, retries and tokens; what a session's  *)
(* goroutine reads from its stream; and the sessions that users share, for *)
(* any limits, users and sessions.                                         *)
(***************************************************************************)
EXTENDS Forge, OrderedProofs, SequenceTheorems, TLAPS

-----------------------------------------------------------------------------
(* Calls that share a token manager. *)

Pc == {"start", "send", "rejected", "exchange", "login", "unlock", "store"} \union Over

CallType == [pc : Pc, bearer : Int, attempt : Nat, retried : BOOLEAN,
             reply : [access : Nat, refresh : Nat]]

Shape ==
    /\ setup \in Setups /\ call \in [Calls -> CallType]
    /\ issued \in 0 .. MaxTokens /\ access \in 0 .. issued /\ refresh \in 0 .. issued
    /\ {known, aged} \subseteq BOOLEAN /\ (access = 0 => ~known /\ ~aged)
    /\ holder \in Calls \union {None}
    /\ history \in [requests : [Calls -> Nat], causes : Nat, newest : Nat, spent : SUBSET Nat]

(* The call that talks to the token endpoint is the one in the mutex.      *)
Talks == {"exchange", "login", "unlock", "store"}
Mutex == \A c \in Calls : call[c].pc \in Talks <=> holder = c

(* A request is an attempt, the one that was repeated with a new bearer, or *)
(* the last one of its call.                                               *)
Counted ==
    \A c \in Calls : /\ call[c].attempt <= MaxRetries
                     /\ history.requests[c] <= call[c].attempt + (IF call[c].retried THEN 1 ELSE 0)
                                               + (IF call[c].pc \in Over THEN 1 ELSE 0)

(* A delegated call has its own bearer and never asks for another.         *)
Bearers ==
    \A c \in Calls :
        IF c \in Delegated
          THEN \/ call[c].pc = "start" /\ call[c].bearer = 0
               \/ call[c].pc \in {"send"} \union Over /\ call[c].bearer = Own
          ELSE call[c].bearer \in 0 .. issued

(* A reply that waits to be stored is of the youngest token, younger than  *)
(* all that is in the cache or has been.                                   *)
Youngest ==
    /\ history.newest <= issued /\ (Static => issued >= 1)
    /\ \A c \in Calls : call[c].pc = "store" =>
         /\ call[c].reply.access \in 1 .. issued /\ call[c].reply.refresh \in 0 .. issued
         /\ ~Static => /\ history.newest < issued /\ call[c].reply.access = issued
                       /\ call[c].reply.refresh \in {0, issued}
    /\ ~Static => /\ access = history.newest /\ refresh <= history.newest
                  /\ \A t \in history.spent : t <= history.newest /\ t # refresh

(* Every login has its cause: a manager without a good token and each      *)
(* rejected call may cause one more.                                       *)
RejectedCalls == {c \in Calls : call[c].pc = "rejected"}

Stale == access = 0 \/ aged

Renewal == IF holder = None THEN IF Stale THEN 1 ELSE 0
                            ELSE IF call[holder].pc = "store" THEN 0 ELSE 1

Caused == issued + Cardinality(RejectedCalls) + Renewal <= history.causes + (IF Static THEN 1 ELSE 0)

Kept == Shape /\ Mutex /\ Counted /\ Bearers /\ Youngest /\ Caused

-----------------------------------------------------------------------------
(* Numbers and sets. *)

(* What the type invariant says of the numbers.                            *)
LEMMA Numbers ==
  ASSUME Shape
  PROVE  /\ MaxRetries \in Nat /\ MaxTokens \in Nat /\ MaxTokens > 0
         /\ issued \in Nat /\ access \in Nat /\ refresh \in Nat
         /\ issued <= MaxTokens /\ access <= issued /\ refresh <= issued
         /\ history.causes \in Nat /\ history.newest \in Nat
         /\ \A t \in history.spent : t \in Nat
         /\ \A c \in Calls : /\ history.requests[c] \in Nat /\ call[c].attempt \in Nat
                              /\ call[c].bearer \in Int /\ call[c].pc \in Pc
                              /\ call[c].reply.access \in Nat /\ call[c].reply.refresh \in Nat
<1>1. /\ MaxRetries \in Nat /\ MaxTokens \in Nat /\ MaxTokens > 0
  BY TokenAssumption
<1>2. issued \in Nat /\ issued <= MaxTokens
  BY <1>1 DEF Shape
<1>3. /\ access \in Nat /\ refresh \in Nat /\ access <= issued /\ refresh <= issued
  BY <1>2 DEF Shape
<1>4. /\ history.causes \in Nat /\ history.newest \in Nat
      /\ \A t \in history.spent : t \in Nat
      /\ \A c \in Calls : history.requests[c] \in Nat
  BY DEF Shape
<1>5. \A c \in Calls : call[c] \in CallType
  BY DEF Shape
<1> QED
  BY <1>1, <1>2, <1>3, <1>4, <1>5 DEF CallType

(* The larger of two numbers.                                              *)
LEMMA MaxOfTwo ==
  ASSUME NEW a \in Nat, NEW b \in Nat, a <= b
  PROVE  Max({a, b}) = b
  BY DEF Max

(* A step of one call changes the rejected calls by that call.             *)
LEMMA RejectedStep ==
  ASSUME NEW c \in Calls, \A d \in Calls \ {c} : call'[d].pc = call[d].pc
  PROVE  /\ Cardinality(RejectedCalls) \in Nat /\ Cardinality(RejectedCalls') \in Nat
         /\ (call[c].pc = "rejected" <=> call'[c].pc = "rejected")
              => Cardinality(RejectedCalls') = Cardinality(RejectedCalls)
         /\ call[c].pc # "rejected" /\ call'[c].pc = "rejected"
              => Cardinality(RejectedCalls') = Cardinality(RejectedCalls) + 1
         /\ call[c].pc = "rejected" /\ call'[c].pc # "rejected"
              => Cardinality(RejectedCalls) = Cardinality(RejectedCalls') + 1
<1>1. IsFiniteSet(RejectedCalls) /\ IsFiniteSet(RejectedCalls')
  BY CallsAssumption, FS_Subset DEF RejectedCalls
<1>2. /\ Cardinality(RejectedCalls) \in Nat /\ Cardinality(RejectedCalls') \in Nat
  BY <1>1, FS_CardinalityType
<1>3. (call[c].pc = "rejected" <=> call'[c].pc = "rejected") => RejectedCalls' = RejectedCalls
  BY DEF RejectedCalls
<1>4. ASSUME call[c].pc # "rejected", call'[c].pc = "rejected"
      PROVE  Cardinality(RejectedCalls') = Cardinality(RejectedCalls) + 1
  <2>1. RejectedCalls' = RejectedCalls \union {c} /\ c \notin RejectedCalls
    BY <1>4 DEF RejectedCalls
  <2> QED
    BY <1>1, <2>1, FS_AddElement
<1>5. ASSUME call[c].pc = "rejected", call'[c].pc # "rejected"
      PROVE  Cardinality(RejectedCalls) = Cardinality(RejectedCalls') + 1
  <2>1. RejectedCalls = RejectedCalls' \union {c} /\ c \notin RejectedCalls'
    BY <1>5 DEF RejectedCalls
  <2> QED
    BY <1>1, <2>1, FS_AddElement
<1> QED
  BY <1>2, <1>3, <1>4, <1>5

-----------------------------------------------------------------------------
(* The inductive invariant. *)

(* A call takes the cached bearer, or the mutex.                           *)
LEMMA LockStep ==
  ASSUME Kept, NEW c \in Calls, Lock(c), UNCHANGED setup
  PROVE  Kept'
<1> DEFINE cached == /\ call[c].pc = "start" /\ access # 0 /\ ~aged
                     /\ call' = [call EXCEPT ![c].pc = "send", ![c].bearer = access]
                     /\ holder' = None
           enters(pc) == /\ call' = [call EXCEPT ![c].pc = pc] /\ holder' = c
                         /\ call[c].pc = "rejected" \/ (call[c].pc = "start" /\ Stale)
<1>1. /\ UNCHANGED <<setup, access, refresh, known, aged, issued, history>>
      /\ holder = None /\ c \notin Delegated /\ call[c].pc \in {"start", "rejected"}
      /\ cached \/ enters("exchange") \/ enters("login")
  <2>1. /\ UNCHANGED <<access, refresh, known, aged, issued, history>> /\ holder = None
        /\ call[c].pc \in {"start", "rejected"}
        /\ cached \/ enters("exchange") \/ enters("login")
    <3>1. UNCHANGED <<issued, history>> /\ holder = None
      BY DEF Lock, server
    <3>2. CASE /\ Asks(c) /\ access # 0 /\ ~aged
               /\ call' = [call EXCEPT ![c].pc = "send", ![c].bearer = access]
               /\ UNCHANGED manager
      BY <3>1, <3>2 DEF Asks, manager
    <3>3. ASSUME Enter(c), call[c].pc = "rejected" \/ (Asks(c) /\ (access = 0 \/ aged))
          PROVE  /\ UNCHANGED <<access, refresh, known, aged>>
                 /\ enters("exchange") \/ enters("login")
      <4>1. call' = [call EXCEPT ![c].pc = IF refresh # 0 THEN "exchange" ELSE "login"]
        BY <3>3 DEF Enter, Step
      <4>2. /\ call[c].pc = "rejected" \/ (call[c].pc = "start" /\ Stale)
            /\ holder' = c /\ UNCHANGED <<access, refresh, known, aged>>
        BY <3>3 DEF Enter, Asks, Stale
      <4> QED
        BY <4>1, <4>2
    <3>4. call[c].pc \in {"start", "rejected"}
      BY DEF Lock, Asks
    <3>5. \/ /\ Asks(c) /\ access # 0 /\ ~aged
             /\ call' = [call EXCEPT ![c].pc = "send", ![c].bearer = access]
             /\ UNCHANGED manager
          \/ Enter(c) /\ (call[c].pc = "rejected" \/ (Asks(c) /\ (access = 0 \/ aged)))
      BY DEF Lock
    <3> QED
      BY <3>1, <3>2, <3>3, <3>4, <3>5
  <2>2. c \notin Delegated
    BY DEF Lock, Asks, Kept, Bearers, Over
  <2> QED
    BY <2>1, <2>2
<1>2. /\ call' \in [Calls -> CallType] /\ \A d \in Calls \ {c} : call'[d] = call[d]
      /\ call'[c].attempt = call[c].attempt /\ call'[c].retried = call[c].retried
      /\ \/ call'[c].pc = "send" /\ call'[c].bearer = access /\ holder' = None
            /\ call[c].pc = "start" /\ ~Stale
         \/ call'[c].pc \in {"exchange", "login"} /\ call'[c].bearer = call[c].bearer
            /\ holder' = c /\ (call[c].pc = "rejected" \/ Stale)
  <2>1. access \in Int /\ call \in [Calls -> CallType]
    BY Numbers DEF Kept, Shape
  <2>2. CASE cached
    <3>1. call' \in [Calls -> CallType]
      BY <2>1, <2>2 DEF CallType, Pc
    <3> QED
      BY <2>1, <2>2, <3>1 DEF CallType, Stale
  <2>3. ASSUME NEW pc \in {"exchange", "login"}, enters(pc)
        PROVE  /\ call' \in [Calls -> CallType] /\ \A d \in Calls \ {c} : call'[d] = call[d]
               /\ call'[c].attempt = call[c].attempt /\ call'[c].retried = call[c].retried
               /\ call'[c].pc = pc /\ call'[c].bearer = call[c].bearer
               /\ holder' = c /\ (call[c].pc = "rejected" \/ Stale)
    <3>1. call' \in [Calls -> CallType]
      BY <2>1, <2>3 DEF CallType, Pc
    <3> QED
      BY <2>1, <2>3, <3>1 DEF CallType
  <2> QED
    BY <1>1, <2>2, <2>3
<1> HIDE DEF cached, enters
<1>3. Shape'
  BY <1>1, <1>2 DEF Kept, Shape
<1>4. Mutex'
  BY <1>1, <1>2, CallsAssumption DEF Kept, Mutex, Talks
<1>5. Counted'
  BY <1>1, <1>2 DEF Kept, Counted, Over
<1>6. Bearers'
  <2>1. access \in 0 .. issued /\ call[c].bearer \in 0 .. issued
    BY <1>1 DEF Kept, Shape, Bearers
  <2> QED
    BY <1>1, <1>2, <2>1 DEF Kept, Bearers, Delegated
<1>7. Youngest'
  BY <1>1, <1>2 DEF Kept, Youngest, Static
<1>8. Caused'
  <2>1. /\ Renewal' = IF call'[c].pc = "send" THEN 0 ELSE 1
        /\ Renewal = IF Stale THEN 1 ELSE 0
    BY <1>1, <1>2, CallsAssumption DEF Renewal, Stale
  <2>2. Renewal' + Cardinality(RejectedCalls') <= Renewal + Cardinality(RejectedCalls)
        /\ Renewal \in Nat /\ Renewal' \in Nat
        /\ Cardinality(RejectedCalls) \in Nat /\ Cardinality(RejectedCalls') \in Nat
    BY <1>1, <1>2, <2>1, RejectedStep
  <2> QED
    BY <1>1, <2>2, Numbers DEF Kept, Caused, Static
<1> QED
  BY <1>3, <1>4, <1>5, <1>6, <1>7, <1>8 DEF Kept

(* The endpoint issues a token: it waits to be stored, or its answer is    *)
(* lost, which is a cause for another one.                                 *)
LEMMA IssueStep ==
  ASSUME Kept, NEW c \in Calls, call[c].pc \in {"exchange", "login"},
         NEW lost \in {"login", "unlock"}, Issue(c, lost), UNCHANGED <<setup, manager>>
  PROVE  Kept'
<1>1. /\ UNCHANGED <<setup, access, refresh, known, aged, holder>>
      /\ issued' = issued + 1 /\ issued < MaxTokens /\ issued \in Nat
      /\ \A d \in Calls \ {c} : call[d].pc \notin Talks
      /\ holder = c /\ c \notin Delegated
  <2>1. \A d \in Calls : call[d].pc \in Talks <=> holder = d
    BY DEF Kept, Mutex
  <2>2. holder = c
    BY <2>1 DEF Talks
  <2>3. c \notin Delegated
    BY DEF Kept, Bearers, Over
  <2> QED
    BY <2>1, <2>2, <2>3, Numbers DEF Issue, manager, Kept
<1>2. PICK r \in {0, issued'} :
           \/ /\ call' = [call EXCEPT ![c].pc = "store", ![c].reply = [access |-> issued', refresh |-> r]]
              /\ UNCHANGED history
           \/ /\ call' = [call EXCEPT ![c].pc = lost]
              /\ history' = [history EXCEPT !.causes = @ + 1]
  BY DEF Issue, Step
<1>3. /\ call' \in [Calls -> CallType] /\ \A d \in Calls \ {c} : call'[d] = call[d]
      /\ call'[c].attempt = call[c].attempt /\ call'[c].retried = call[c].retried
      /\ call'[c].bearer = call[c].bearer
      /\ history' \in [requests : [Calls -> Nat], causes : Nat, newest : Nat, spent : SUBSET Nat]
      /\ history'.requests = history.requests /\ history'.newest = history.newest
      /\ history'.spent = history.spent
      /\ \/ /\ call'[c].pc = "store" /\ history'.causes = history.causes
            /\ call'[c].reply.access = issued' /\ call'[c].reply.refresh \in {0, issued'}
         \/ call'[c].pc = lost /\ history'.causes = history.causes + 1
  <2>1. /\ call \in [Calls -> CallType] /\ r \in Nat /\ issued' \in Nat
        /\ history \in [requests : [Calls -> Nat], causes : Nat, newest : Nat, spent : SUBSET Nat]
    BY <1>1 DEF Kept, Shape
  <2>2. CASE /\ call' = [call EXCEPT ![c].pc = "store", ![c].reply = [access |-> issued', refresh |-> r]]
             /\ UNCHANGED history
    <3>1. call' \in [Calls -> CallType]
      <4> DEFINE now == [call[c] EXCEPT !.pc = "store", !.reply = [access |-> issued', refresh |-> r]]
      <4>1. now \in CallType
        <5>1. /\ call[c] \in CallType
              /\ [access |-> issued', refresh |-> r] \in [access : Nat, refresh : Nat]
          BY <2>1
        <5>2. "store" \in Pc
          BY DEF Pc
        <5> QED
          BY <5>1, <5>2 DEF CallType
      <4>2. call' = [call EXCEPT ![c] = now]
        BY <2>2
      <4> HIDE DEF now
      <4> QED
        BY <2>1, <4>1, <4>2
    <3> QED
      BY <2>1, <2>2, <3>1 DEF CallType
  <2>3. CASE /\ call' = [call EXCEPT ![c].pc = lost]
             /\ history' = [history EXCEPT !.causes = @ + 1]
    <3>1. call' \in [Calls -> CallType]
      BY <2>1, <2>3 DEF CallType, Pc
    <3> QED
      BY <2>1, <2>3, <3>1, SMTT(20) DEF CallType
  <2> QED
    BY <1>2, <2>2, <2>3
<1>4. Shape'
  <2>1. /\ issued' \in 0 .. MaxTokens /\ access \in 0 .. issued' /\ refresh \in 0 .. issued'
    BY <1>1, Numbers DEF Kept
  <2> QED
    BY <1>1, <1>3, <2>1 DEF Kept, Shape
<1>5. Mutex'
  BY <1>1, <1>3 DEF Kept, Mutex, Talks
<1>6. Counted'
  BY <1>3 DEF Kept, Counted, Over
<1>7. Bearers'
  <2>1. \A d \in Calls : call[d].bearer \in 0 .. issued => call[d].bearer \in 0 .. issued'
    BY <1>1
  <2>2. \A d \in Calls \ {c} : call'[d].bearer = call[d].bearer /\ call'[d].pc = call[d].pc
    BY <1>3
  <2> QED
    BY <1>1, <1>3, <2>1, <2>2 DEF Kept, Bearers, Delegated
<1>8. Youngest'
  <2>1. history'.newest <= issued' /\ history'.newest < issued' /\ issued' \in Nat
    BY <1>1, <1>3, Numbers DEF Kept, Youngest
  <2>2. \A d \in Calls : call'[d].pc = "store" =>
            /\ d = c /\ call'[d].reply.access = issued' /\ call'[d].reply.refresh \in {0, issued'}
    BY <1>1, <1>3 DEF Talks
  <2>3. issued' \in 1 .. issued' /\ 0 \in 0 .. issued' /\ issued' \in 0 .. issued'
    BY <1>1
  <2> QED
    BY <1>1, <1>3, <2>1, <2>2, <2>3 DEF Kept, Youngest, Static
<1>9. Caused'
  <2>1. /\ Renewal = 1 /\ Renewal' = IF call'[c].pc = "store" THEN 0 ELSE 1
    BY <1>1, <1>3, CallsAssumption DEF Renewal
  <2>2. Cardinality(RejectedCalls') = Cardinality(RejectedCalls) /\ Cardinality(RejectedCalls) \in Nat
    BY <1>3, RejectedStep
  <2> QED
    BY <1>1, <1>3, <2>1, <2>2, Numbers DEF Kept, Caused, Static
<1> QED
  BY <1>4, <1>5, <1>6, <1>7, <1>8, <1>9 DEF Kept

(* Other steps of the call in the mutex: an exchange is refused, a login   *)
(* is of the token from the environment, or the call ends with an error.   *)
LEMMA HolderStep ==
  ASSUME Kept, NEW c \in Calls, UNCHANGED setup,
         \/ Exchange(c) /\ Step(c, "login") /\ UNCHANGED <<server, history>>
         \/ Login(c) /\ Static /\ UNCHANGED <<server, history>>
              /\ call' = [call EXCEPT ![c].pc = "store", ![c].reply = [access |-> 1, refresh |-> 1]]
         \/ FailLogin(c) \/ Unlock(c)
  PROVE  Kept'
<1>1. /\ UNCHANGED <<setup, access, refresh, known, aged, issued, history>>
      /\ call[c].pc \in {"exchange", "login", "unlock"}
      /\ \/ call' = [call EXCEPT ![c].pc = "login"] /\ holder' = holder
         \/ /\ call' = [call EXCEPT ![c].pc = "store", ![c].reply = [access |-> 1, refresh |-> 1]]
            /\ Static /\ holder' = holder
         \/ call' = [call EXCEPT ![c].pc = "failed"] /\ holder' = None
  BY DEF Exchange, Login, FailLogin, LoginFailed, Unlock, Step, Release, manager, server
<1>2. /\ \A d \in Calls \ {c} : call[d].pc \notin Talks
      /\ holder = c /\ c \notin Delegated
  <2>1. \A d \in Calls : call[d].pc \in Talks <=> holder = d
    BY DEF Kept, Mutex
  <2>2. holder = c
    BY <1>1, <2>1 DEF Talks
  <2>3. c \notin Delegated
    BY <1>1 DEF Kept, Bearers, Over
  <2> QED
    BY <2>1, <2>2, <2>3
<1>3. /\ call' \in [Calls -> CallType] /\ \A d \in Calls \ {c} : call'[d] = call[d]
      /\ call'[c].attempt = call[c].attempt /\ call'[c].retried = call[c].retried
      /\ call'[c].bearer = call[c].bearer
      /\ \/ call'[c].pc = "login" /\ holder' = c
         \/ /\ call'[c].pc = "store" /\ call'[c].reply = [access |-> 1, refresh |-> 1]
            /\ Static /\ holder' = c
         \/ call'[c].pc = "failed" /\ holder' = None
  <2>1. call \in [Calls -> CallType]
    BY DEF Kept, Shape
  <2>2. ASSUME NEW pc \in {"login", "failed"}, call' = [call EXCEPT ![c].pc = pc]
        PROVE  /\ call' \in [Calls -> CallType] /\ \A d \in Calls \ {c} : call'[d] = call[d]
               /\ call'[c].attempt = call[c].attempt /\ call'[c].retried = call[c].retried
               /\ call'[c].bearer = call[c].bearer /\ call'[c].pc = pc
    <3>1. call' \in [Calls -> CallType]
      BY <2>1, <2>2 DEF CallType, Pc, Over
    <3> QED
      BY <2>1, <2>2, <3>1 DEF CallType
  <2>3. CASE call' = [call EXCEPT ![c].pc = "store", ![c].reply = [access |-> 1, refresh |-> 1]]
    <3>1. call' \in [Calls -> CallType]
      BY <2>1, <2>3 DEF CallType, Pc
    <3> QED
      BY <1>1, <1>2, <2>1, <2>3, <3>1 DEF CallType
  <2> QED
    BY <1>1, <1>2, <2>2, <2>3
<1>4. Shape'
  BY <1>1, <1>2, <1>3 DEF Kept, Shape
<1>5. Mutex'
  BY <1>1, <1>2, <1>3, CallsAssumption DEF Kept, Mutex, Talks
<1>6. Counted'
  <2>1. \A d \in Calls : call'[d].pc \in Over => call[d].pc \in Over \/ d = c
    BY <1>3
  <2>2. call[c].pc \notin Over
    BY <1>1 DEF Over
  <2>3. ASSUME NEW d \in Calls
        PROVE  /\ call'[d].attempt <= MaxRetries
               /\ history.requests[d] <= call'[d].attempt + (IF call'[d].retried THEN 1 ELSE 0)
                                         + (IF call'[d].pc \in Over THEN 1 ELSE 0)
    <3>1. /\ call[d].attempt <= MaxRetries /\ call[d].attempt \in Nat /\ history.requests[d] \in Nat
          /\ history.requests[d] <= call[d].attempt + (IF call[d].retried THEN 1 ELSE 0)
                                    + (IF call[d].pc \in Over THEN 1 ELSE 0)
      BY Numbers DEF Kept, Counted
    <3>2. call'[d].attempt = call[d].attempt /\ call'[d].retried = call[d].retried
      BY <1>3
    <3>3. call[d].pc \in Over => call'[d].pc \in Over
      BY <1>3, <2>2
    <3> QED
      BY <3>1, <3>2, <3>3
  <2> QED
    BY <1>1, <2>3 DEF Counted
<1>7. Bearers'
  BY <1>1, <1>2, <1>3 DEF Kept, Bearers, Delegated
<1>8. Youngest'
  <2>1. \A d \in Calls : call'[d].pc = "store" => d = c /\ Static
                            /\ call'[d].reply.access = 1 /\ call'[d].reply.refresh = 1
    BY <1>2, <1>3 DEF Talks
  <2>2. Static => 1 \in 1 .. issued /\ 1 \in 0 .. issued
    BY Numbers DEF Kept, Youngest
  <2> QED
    BY <1>1, <2>1, <2>2 DEF Kept, Youngest, Static
<1>9. Caused'
  <2>1. Renewal' <= Renewal /\ Renewal' \in Nat /\ Renewal \in Nat
    BY <1>1, <1>2, <1>3, CallsAssumption DEF Renewal, Stale
  <2>2. Cardinality(RejectedCalls') = Cardinality(RejectedCalls) /\ Cardinality(RejectedCalls) \in Nat
    BY <1>1, <1>3, RejectedStep
  <2> QED
    BY <1>1, <2>1, <2>2, Numbers DEF Kept, Caused, Static
<1> QED
  BY <1>4, <1>5, <1>6, <1>7, <1>8, <1>9 DEF Kept

(* The new token, the youngest, replaces the cached ones; a refresh token  *)
(* that was exchanged for it is spent.                                     *)
LEMMA StoreStep ==
  ASSUME Kept, NEW c \in Calls, Store(c), UNCHANGED setup
  PROVE  Kept'
<1> DEFINE reply == call[c].reply
<1>1. /\ UNCHANGED <<setup, issued>> /\ access' = reply.access
      /\ refresh' = (IF reply.refresh # 0 THEN reply.refresh ELSE refresh)
      /\ call' = [call EXCEPT ![c].pc = "send", ![c].bearer = reply.access,
                              ![c].reply = [access |-> 0, refresh |-> 0]]
      /\ history' = [history EXCEPT !.newest = Max({@, reply.access}),
                        !.spent = IF reply.refresh \notin {0, refresh} THEN @ \union {refresh} ELSE @]
      /\ known' \in BOOLEAN /\ aged' = FALSE /\ holder' = None
      /\ call[c].pc = "store"
  BY DEF Store, NextRefresh, Release, server
<1>2. /\ \A d \in Calls \ {c} : call[d].pc \notin Talks
      /\ holder = c /\ c \notin Delegated
  <2>1. \A d \in Calls : call[d].pc \in Talks <=> holder = d
    BY DEF Kept, Mutex
  <2>2. holder = c
    BY <1>1, <2>1 DEF Talks
  <2>3. c \notin Delegated
    BY <1>1 DEF Kept, Bearers, Over
  <2> QED
    BY <2>1, <2>2, <2>3
<1>3. /\ reply.access \in 1 .. issued /\ reply.refresh \in 0 .. issued
      /\ ~Static => /\ history.newest < issued /\ reply.access = issued
                    /\ reply.refresh \in {0, issued}
      /\ issued \in Nat /\ reply.access \in Nat /\ reply.refresh \in Nat /\ history.newest \in Nat
      /\ history.newest <= issued /\ refresh \in Nat /\ refresh <= issued
  BY <1>1, Numbers DEF Kept, Youngest
<1>4. /\ call' \in [Calls -> CallType] /\ \A d \in Calls \ {c} : call'[d] = call[d]
      /\ call'[c].attempt = call[c].attempt /\ call'[c].retried = call[c].retried
      /\ call'[c].bearer = reply.access /\ call'[c].pc = "send"
  <2>1. call \in [Calls -> CallType]
    BY DEF Kept, Shape
  <2>2. call' \in [Calls -> CallType]
    BY <1>1, <1>3, <2>1 DEF CallType, Pc
  <2> QED
    BY <1>1, <2>1, <2>2 DEF CallType
<1> DEFINE newest == Max({history.newest, reply.access})
<1>5. newest \in Nat /\ newest <= issued /\ (~Static => newest = issued)
  <2>1. newest \in {history.newest, reply.access}
    <3>1. CASE history.newest <= reply.access
      BY <1>3, <3>1, MaxOfTwo
    <3>2. CASE reply.access <= history.newest
      <4>1. Max({reply.access, history.newest}) = history.newest
        BY <1>3, <3>2, MaxOfTwo
      <4>2. {reply.access, history.newest} = {history.newest, reply.access}
        OBVIOUS
      <4> QED
        BY <4>1, <4>2
    <3> QED
      BY <1>3, <3>1, <3>2
  <2>2. ~Static => newest = issued
    <3>1. ASSUME ~Static
          PROVE  history.newest <= reply.access /\ reply.access = issued
      BY <1>3, <3>1
    <3> QED
      BY <1>3, <3>1, MaxOfTwo
  <2> HIDE DEF newest
  <2> QED
    BY <1>3, <2>1, <2>2
<1> HIDE DEF newest
<1>6. /\ history' \in [requests : [Calls -> Nat], causes : Nat, newest : Nat, spent : SUBSET Nat]
      /\ history'.requests = history.requests /\ history'.causes = history.causes
      /\ history'.newest = newest
      /\ history'.spent = IF reply.refresh \notin {0, refresh} THEN history.spent \union {refresh}
                                                              ELSE history.spent
  <2>1. history \in [requests : [Calls -> Nat], causes : Nat, newest : Nat, spent : SUBSET Nat]
    BY DEF Kept, Shape
  <2>2. history' = [history EXCEPT !.newest = newest,
                      !.spent = IF reply.refresh \notin {0, refresh} THEN @ \union {refresh} ELSE @]
    BY <1>1 DEF newest
  <2> QED
    BY <1>3, <1>5, <2>1, <2>2
<1> HIDE DEF reply
<1>7. Shape'
  <2>1. access' \in 0 .. issued /\ refresh' \in 0 .. issued /\ access' # 0
    BY <1>1, <1>3
  <2> QED
    BY <1>1, <1>4, <1>6, <2>1 DEF Kept, Shape
<1>8. Mutex'
  BY <1>1, <1>2, <1>4, CallsAssumption DEF Kept, Mutex, Talks
<1>9. Counted'
  BY <1>1, <1>4, <1>6 DEF Kept, Counted, Over
<1>10. Bearers'
  <2>1. reply.access \in 0 .. issued
    BY <1>3
  <2> QED
    BY <1>1, <1>2, <1>4, <2>1 DEF Kept, Bearers, Delegated
<1>11. Youngest'
  <2>1. \A d \in Calls : call'[d].pc # "store"
    BY <1>2, <1>4 DEF Talks
  <2>2. Static' <=> Static
    BY <1>1 DEF Static
  <2>3. ASSUME ~Static
        PROVE  /\ access' = newest /\ refresh' <= newest
               /\ \A t \in history'.spent : t <= newest /\ t # refresh'
    <3>1. /\ \A t \in history.spent : t <= history.newest /\ t # refresh /\ t \in Nat
          /\ refresh <= history.newest
      BY <2>3, Numbers DEF Kept, Youngest
    <3>2. newest = issued /\ access' = issued /\ history.newest < issued
      BY <1>1, <1>3, <1>5, <2>3
    <3>3. CASE reply.refresh = 0
      <4>1. refresh' = refresh /\ history'.spent = history.spent
        BY <1>1, <1>6, <3>3
      <4> QED
        BY <1>3, <3>1, <3>2, <4>1
    <3>4. CASE reply.refresh # 0
      <4>1. refresh' = issued /\ history'.spent \subseteq history.spent \union {refresh}
        BY <1>1, <1>3, <1>6, <2>3, <3>4
      <4>2. ASSUME NEW t \in history.spent \union {refresh}
            PROVE  t <= issued /\ t # issued
        BY <1>3, <3>1, <3>2
      <4> QED
        BY <1>3, <3>2, <4>1, <4>2
    <3> QED
      BY <3>3, <3>4
  <2>4. Static => issued >= 1
    BY DEF Kept, Youngest
  <2> QED
    BY <1>1, <1>5, <1>6, <2>1, <2>2, <2>3, <2>4 DEF Youngest
<1>12. Caused'
  <2>1. Renewal' = 0 /\ Renewal = 0
    BY <1>1, <1>2, <1>3, <1>4, CallsAssumption DEF Renewal, Stale
  <2>2. Cardinality(RejectedCalls') = Cardinality(RejectedCalls)
    BY <1>1, <1>4, RejectedStep
  <2> QED
    BY <1>1, <1>6, <2>1, <2>2 DEF Kept, Caused, Static
<1> QED
  BY <1>7, <1>8, <1>9, <1>10, <1>11, <1>12 DEF Kept

(* A step of a call outside the mutex: it uses its own bearer, or its      *)
(* request is answered; the first rejection is a cause for a new token.    *)
LEMMA RequestStep ==
  ASSUME Kept, NEW c \in Calls, UNCHANGED setup,
         UseOwn(c) \/ Succeed(c) \/ Rejected(c) \/ Busy(c)
  PROVE  Kept'
<1> DEFINE sent == /\ call[c].pc = "send" /\ call'[c].bearer = call[c].bearer
                   /\ history'.requests = [history.requests EXCEPT ![c] = @ + 1]
           own  == /\ call[c].pc = "start" /\ call'[c].pc = "send" /\ c \in Delegated
                   /\ call'[c].bearer = Own /\ history' = history
                   /\ call'[c].attempt = call[c].attempt /\ call'[c].retried = call[c].retried
           over == /\ sent /\ call'[c].pc \in Over /\ history'.causes = history.causes
                   /\ call'[c].attempt = call[c].attempt /\ call'[c].retried = call[c].retried
           reject == /\ sent /\ call'[c].pc = "rejected" /\ history'.causes = history.causes + 1
                     /\ ~call[c].retried /\ call'[c].retried /\ c \notin Delegated
                     /\ call'[c].attempt = call[c].attempt
           again == /\ sent /\ call'[c].pc = "send" /\ history'.causes = history.causes
                    /\ call[c].attempt < MaxRetries /\ call'[c].attempt = call[c].attempt + 1
                    /\ call'[c].retried = call[c].retried
<1>1. /\ UNCHANGED <<setup, access, refresh, known, aged, holder, issued>>
      /\ call' \in [Calls -> CallType] /\ \A d \in Calls \ {c} : call'[d] = call[d]
      /\ history' \in [requests : [Calls -> Nat], causes : Nat, newest : Nat, spent : SUBSET Nat]
      /\ history'.newest = history.newest /\ history'.spent = history.spent
      /\ own \/ over \/ reject \/ again
  <2>1. /\ call \in [Calls -> CallType] /\ Own \in Int /\ MaxRetries \in Nat
        /\ history \in [requests : [Calls -> Nat], causes : Nat, newest : Nat, spent : SUBSET Nat]
    BY Numbers DEF Kept, Shape, Own
  <2>2. UNCHANGED <<access, refresh, known, aged, holder, issued>>
    BY DEF UseOwn, Succeed, Rejected, Busy, manager, server
  <2>3. CASE UseOwn(c)
    <3>1. /\ call' = [call EXCEPT ![c].pc = "send", ![c].bearer = Own] /\ history' = history
          /\ call[c].pc = "start" /\ c \in Delegated
      BY <2>3 DEF UseOwn
    <3>2. call' \in [Calls -> CallType]
      <4> DEFINE now == [call[c] EXCEPT !.pc = "send", !.bearer = Own]
      <4>1. now \in CallType
        BY <2>1 DEF CallType, Pc
      <4>2. call' = [call EXCEPT ![c] = now]
        BY <3>1
      <4> HIDE DEF now
      <4> QED
        BY <2>1, <4>1, <4>2
    <3> QED
      BY <2>1, <2>2, <3>1, <3>2 DEF CallType
  <2>4. ASSUME NEW pc \in Over, call[c].pc = "send", Step(c, pc), Sent(c)
        PROVE  <1>1
    <3>1. /\ call' = [call EXCEPT ![c].pc = pc]
          /\ history' = [history EXCEPT !.requests[c] = @ + 1]
      BY <2>4 DEF Step, Sent
    <3>2. call' \in [Calls -> CallType]
      BY <2>1, <3>1 DEF CallType, Pc
    <3>3. history' \in [requests : [Calls -> Nat], causes : Nat, newest : Nat, spent : SUBSET Nat]
      BY <2>1, <3>1
    <3> QED
      <4>1. \A d \in Calls \ {c} : call'[d] = call[d]
        BY <2>1, <3>1
      <4>2. history'.newest = history.newest /\ history'.spent = history.spent
        BY <2>1, <3>1
      <4>3. over
        BY <2>1, <2>4, <3>1 DEF CallType
      <4> QED
        BY <2>2, <3>2, <3>3, <4>1, <4>2, <4>3
  <2>5. CASE /\ call[c].pc = "send" /\ ~call[c].retried /\ c \notin Delegated
             /\ call' = [call EXCEPT ![c].pc = "rejected", ![c].retried = TRUE]
             /\ history' = [history EXCEPT !.requests[c] = @ + 1, !.causes = @ + 1]
    <3>2. call' \in [Calls -> CallType]
      BY <2>1, <2>5 DEF CallType, Pc
    <3>3. history' \in [requests : [Calls -> Nat], causes : Nat, newest : Nat, spent : SUBSET Nat]
      <4>1. /\ [history.requests EXCEPT ![c] = @ + 1] \in [Calls -> Nat]
            /\ history.causes + 1 \in Nat
        BY <2>1
      <4>2. history' = [[history EXCEPT !.requests = [history.requests EXCEPT ![c] = @ + 1]]
                          EXCEPT !.causes = history.causes + 1]
        BY <2>1, <2>5
      <4> QED
        BY <2>1, <4>1, <4>2
    <3> QED
      BY <2>1, <2>2, <2>5, <3>2, <3>3 DEF CallType
  <2>6. CASE /\ call[c].pc = "send" /\ call[c].attempt < MaxRetries /\ Sent(c)
             /\ call' = [call EXCEPT ![c].attempt = @ + 1]
    <3>1. history' = [history EXCEPT !.requests[c] = @ + 1]
      BY <2>6 DEF Sent
    <3>2. call' \in [Calls -> CallType]
      BY <2>1, <2>6 DEF CallType, Pc
    <3>3. history' \in [requests : [Calls -> Nat], causes : Nat, newest : Nat, spent : SUBSET Nat]
      BY <2>1, <3>1
    <3> QED
      <4>1. \A d \in Calls \ {c} : call'[d] = call[d]
        BY <2>1, <2>6
      <4>2. history'.newest = history.newest /\ history'.spent = history.spent
        BY <2>1, <3>1
      <4>3. again
        BY <2>1, <2>6, <3>1 DEF CallType
      <4> QED
        BY <2>2, <3>2, <3>3, <4>1, <4>2, <4>3
  <2> QED
    BY <2>3, <2>4, <2>5, <2>6 DEF Succeed, Rejected, Busy, CanRefresh, Over
<1>2. Shape'
  BY <1>1 DEF Kept, Shape
<1>3. Mutex'
  BY <1>1 DEF Kept, Mutex, Talks, Over
<1>4. Counted'
  <2>1. ASSUME NEW d \in Calls \ {c}
        PROVE  call'[d] = call[d] /\ history'.requests[d] = history.requests[d]
    <3>1. history'.requests = history.requests
            \/ history'.requests = [history.requests EXCEPT ![c] = @ + 1]
      BY <1>1
    <3> QED
      BY <1>1, <3>1 DEF Kept, Shape
  <2>2. /\ call'[c].attempt <= MaxRetries
        /\ history'.requests[c] <= call'[c].attempt + (IF call'[c].retried THEN 1 ELSE 0)
                                  + (IF call'[c].pc \in Over THEN 1 ELSE 0)
    <3>1. /\ call[c].attempt <= MaxRetries /\ call[c].attempt \in Nat /\ history.requests[c] \in Nat
          /\ history.requests[c] <= call[c].attempt + (IF call[c].retried THEN 1 ELSE 0)
                                    + (IF call[c].pc \in Over THEN 1 ELSE 0)
          /\ MaxRetries \in Nat
      BY Numbers DEF Kept, Counted
    <3>2. CASE own
      BY <3>1, <3>2 DEF Over
    <3>3. CASE over \/ reject \/ again
      <4>1. /\ history'.requests[c] = history.requests[c] + 1 /\ call[c].pc \notin Over
        BY <3>3 DEF Kept, Shape, Over
      <4> QED
        BY <3>1, <3>3, <4>1 DEF Over
    <3> QED
      BY <1>1, <3>2, <3>3
  <2> QED
    BY <2>1, <2>2 DEF Kept, Counted
<1>5. Bearers'
  <2>1. ASSUME NEW d \in Calls \ {c}
        PROVE  call'[d] = call[d]
    BY <1>1
  <2>2. /\ IF c \in Delegated
              THEN call'[c].pc \in {"send"} \union Over /\ call'[c].bearer = Own
              ELSE call'[c].bearer \in 0 .. issued
    <3>1. CASE own
      BY <3>1
    <3>2. CASE over \/ reject \/ again
      BY <3>2 DEF Kept, Bearers
    <3> QED
      BY <1>1, <3>1, <3>2
  <2> QED
    BY <1>1, <2>1, <2>2 DEF Kept, Bearers, Delegated
<1>6. Youngest'
  <2>1. \A d \in Calls : call'[d].pc = "store" => call[d].pc = "store" /\ call'[d] = call[d]
    BY <1>1 DEF Over
  <2> QED
    BY <1>1, <2>1 DEF Kept, Youngest, Static
<1>7. Caused'
  <2>1. Renewal' = Renewal /\ Renewal \in Nat
    <3>1. call'[c].pc # "store" /\ call[c].pc # "store"
      BY <1>1 DEF Over
    <3> QED
      BY <1>1, <3>1 DEF Renewal, Stale, Kept, Shape
  <2>2. /\ Cardinality(RejectedCalls') \in Nat /\ Cardinality(RejectedCalls) \in Nat
        /\ \/ /\ Cardinality(RejectedCalls') = Cardinality(RejectedCalls)
              /\ history'.causes = history.causes
           \/ /\ Cardinality(RejectedCalls') = Cardinality(RejectedCalls) + 1
              /\ history'.causes = history.causes + 1
    BY <1>1, RejectedStep DEF Over
  <2> QED
    BY <1>1, <2>1, <2>2, Numbers DEF Kept, Caused, Static
<1> QED
  BY <1>2, <1>3, <1>4, <1>5, <1>6, <1>7 DEF Kept

(* Time and revocations: an aging token is a cause for a new one.          *)
LEMMA WorldStep ==
  ASSUME Kept, UNCHANGED setup, Age \/ \E t \in live : Revoke(t)
  PROVE  Kept'
<1>1. /\ UNCHANGED <<setup, access, refresh, known, holder, issued, call>>
      /\ \/ UNCHANGED <<aged, history>>
         \/ /\ access # 0 /\ aged' = TRUE /\ ~aged
            /\ history' = [history EXCEPT !.causes = @ + 1]
  BY DEF Age, Revoke, manager, server
<1>2. /\ history' \in [requests : [Calls -> Nat], causes : Nat, newest : Nat, spent : SUBSET Nat]
      /\ history'.requests = history.requests /\ history'.newest = history.newest
      /\ history'.spent = history.spent
      /\ \/ aged' = aged /\ history'.causes = history.causes
         \/ history'.causes = history.causes + 1 /\ access # 0 /\ aged' = TRUE
  BY <1>1 DEF Kept, Shape
<1>3. Shape'
  <2>1. {known', aged'} \subseteq BOOLEAN /\ (access' = 0 => ~known' /\ ~aged')
    <3>1. known' = known /\ aged' \in {aged, TRUE} /\ (access' = 0 => aged' = aged /\ access = 0)
      BY <1>1
    <3>2. {known, aged} \subseteq BOOLEAN /\ (access = 0 => ~known /\ ~aged)
      BY DEF Kept, Shape
    <3> QED
      BY <3>1, <3>2, Zenon
  <2> QED
    BY <1>1, <1>2, <2>1 DEF Kept, Shape
<1>4. Mutex' /\ Counted' /\ Bearers' /\ Youngest'
  BY <1>1, <1>2 DEF Kept, Mutex, Counted, Bearers, Youngest, Static, Delegated
<1>5. Caused'
  <2>1. Cardinality(RejectedCalls') = Cardinality(RejectedCalls) /\ Cardinality(RejectedCalls) \in Nat
    <3>1. IsFiniteSet(RejectedCalls)
      BY CallsAssumption, FS_Subset DEF RejectedCalls
    <3> QED
      BY <1>1, <3>1, FS_CardinalityType DEF RejectedCalls
  <2>2. /\ Renewal \in Nat /\ Renewal' \in Nat
        /\ Renewal' <= Renewal + (history'.causes - history.causes)
    <3>1. history.causes \in Nat
      BY Numbers DEF Kept
    <3>2. Renewal \in {0, 1} /\ Renewal' \in {0, 1}
      BY DEF Renewal
    <3>3. aged' = aged => Renewal' = Renewal
      BY <1>1 DEF Renewal, Stale
    <3> QED
      BY <1>2, <3>1, <3>2, <3>3
  <2> QED
    BY <1>1, <1>2, <2>1, <2>2, Numbers DEF Kept, Caused, Static
<1> QED
  BY <1>3, <1>4, <1>5 DEF Kept

(* Every step keeps the invariant.                                         *)
LEMMA KeptStep ==
  ASSUME Kept, [Next]_vars
  PROVE  Kept'
<1>1. CASE UNCHANGED vars
  BY <1>1 DEF vars, manager, server, Kept, Shape, Mutex, Counted, Bearers, Youngest, Caused,
              Renewal, Stale, RejectedCalls, Static, Delegated
<1>2. ASSUME NEW c \in Calls, Do(c), UNCHANGED setup
      PROVE  Kept'
  <2>1. CASE Exchange(c)
    BY <1>2, <2>1, IssueStep, HolderStep DEF Exchange
  <2>2. CASE Login(c)
    BY <1>2, <2>2, IssueStep, HolderStep DEF Login
  <2> QED
    BY <1>2, <2>1, <2>2, LockStep, HolderStep, StoreStep, RequestStep DEF Do
<1> QED
  BY <1>1, <1>2, WorldStep DEF Next

(* The invariant holds in every state.                                     *)
LEMMA AlwaysKept == Spec => []Kept
<1>1. ASSUME Init
      PROVE  Kept
  <2>1. /\ setup \in Setups /\ access = 0 /\ refresh = 0 /\ known = FALSE /\ aged = FALSE
        /\ holder = None /\ issued = (IF Static THEN 1 ELSE 0)
        /\ call = [c \in Calls |-> [pc |-> "start", bearer |-> 0, attempt |-> 0, retried |-> FALSE,
                                    reply |-> [access |-> 0, refresh |-> 0]]]
        /\ history = [requests |-> [c \in Calls |-> 0], causes |-> 1, newest |-> 0, spent |-> {}]
    BY <1>1 DEF Init
  <2>2. issued \in Nat /\ issued <= 1 /\ issued \in 0 .. MaxTokens
    BY <2>1, TokenAssumption
  <2>3. Shape
    <3>1. call \in [Calls -> CallType]
      BY <2>1 DEF CallType, Pc
    <3>2. history \in [requests : [Calls -> Nat], causes : Nat, newest : Nat, spent : SUBSET Nat]
      BY <2>1
    <3>3. {known, aged} \subseteq BOOLEAN
      BY <2>1, Zenon
    <3>4. access \in 0 .. issued /\ refresh \in 0 .. issued /\ ~known /\ ~aged
      BY <2>1, <2>2
    <3> QED
      BY <2>1, <2>2, <3>1, <3>2, <3>3, <3>4 DEF Shape
  <2>4. Mutex
    BY <2>1, CallsAssumption DEF Mutex, Talks
  <2>5. Counted
    BY <2>1, TokenAssumption DEF Counted, Over
  <2>6. Bearers /\ Youngest
    BY <2>1, <2>2 DEF Bearers, Youngest
  <2>7. Caused
    <3>1. RejectedCalls = {}
      BY <2>1 DEF RejectedCalls
    <3>2. Cardinality(RejectedCalls) = 0
      BY <3>1, FS_EmptySet
    <3>3. Renewal = 1
      BY <2>1 DEF Renewal, Stale
    <3> QED
      BY <2>1, <3>2, <3>3 DEF Caused
  <2> QED
    BY <2>3, <2>4, <2>5, <2>6, <2>7 DEF Kept
<1> QED
  BY <1>1, KeptStep, PTL DEF Spec

-----------------------------------------------------------------------------
(* The theorem. *)

(* Calls that share a token manager (token.go:101, executor.go:203): one   *)
(* renews at a time, a call sends a bounded number of requests, the        *)
(* owner's token and a delegate's never mix, the cache holds the youngest  *)
(* token, no refresh token is presented again after its exchange, and each *)
(* login has a cause of its own.                                           *)
THEOREM TokensSafe == Spec => TokensKept
<1>1. Kept => TypeOK
  <2> SUFFICES ASSUME Kept
               PROVE  TypeOK
    OBVIOUS
  <2>1. Inside = (IF holder = None THEN {} ELSE {holder})
    BY CallsAssumption DEF Kept, Mutex, Talks, Shape, Inside
  <2>2. \A c \in Calls : call[c].bearer \in {0, Own} \union 1 .. issued
    <3>1. \A c \in Calls : call[c].bearer \in {0, Own} \union 0 .. issued
      BY DEF Kept, Bearers
    <3> QED
      BY <3>1, Numbers DEF Kept
  <2> QED
    BY <2>1, <2>2 DEF Kept, Shape, TypeOK
<1>2. Kept => RequestsBounded
  <2> SUFFICES ASSUME Kept, NEW c \in Calls
               PROVE  history.requests[c] <= MaxRetries + 2
    BY DEF RequestsBounded
  <2>1. /\ history.requests[c] \in Nat /\ call[c].attempt \in Nat /\ MaxRetries \in Nat
        /\ call[c].attempt <= MaxRetries
        /\ history.requests[c] <= call[c].attempt + (IF call[c].retried THEN 1 ELSE 0)
                                  + (IF call[c].pc \in Over THEN 1 ELSE 0)
    BY Numbers DEF Kept, Counted
  <2> QED
    BY <2>1
<1>3. Kept => DelegatedApart
  <2> SUFFICES ASSUME Kept
               PROVE  DelegatedApart
    OBVIOUS
  <2>1. access # Own
    BY Numbers DEF Kept, Own
  <2>2. \A n \in 0 .. issued : n # Own
    BY Numbers DEF Kept, Own
  <2> QED
    BY <2>1, <2>2 DEF Kept, Bearers, DelegatedApart
<1>4. Kept => CacheNewest
  BY DEF Kept, Youngest, CacheNewest
<1>5. Kept => SingleFlight
  <2> SUFFICES ASSUME Kept
               PROVE  SingleFlight
    OBVIOUS
  <2>1. Renewal \in Nat /\ Cardinality(RejectedCalls) \in Nat
    <3>1. IsFiniteSet(RejectedCalls)
      BY CallsAssumption, FS_Subset DEF RejectedCalls
    <3> QED
      BY <3>1, FS_CardinalityType DEF Renewal
  <2> QED
    BY <2>1, Numbers DEF Kept, Caused, SingleFlight
<1>6. Kept => \A c \in Calls : ~Static /\ Exchange(c) => refresh \notin history.spent
  BY DEF Kept, Youngest
<1>7. Kept => [\A c \in Calls : ~Static /\ Exchange(c) => refresh \notin history.spent]_vars
  BY <1>6
<1> QED
  BY <1>1, <1>2, <1>3, <1>4, <1>5, <1>7, AlwaysKept, PTL DEF TokensKept, NoReplay

-----------------------------------------------------------------------------
(* Readers of streams. *)

(* What comes on the body of a stream: messages, notes about the           *)
(* connection, and what ends it; and which endings are in good order.      *)
MessagesOf(b) ==
    CASE b = "socket"    -> {"next"}
      [] b = "lines"     -> {"result", "bare", "big"}
      [] b = "envelopes" -> {"message", "packed", "unknown", "big"}
      [] OTHER           -> {}

NotesOf(b) ==
    CASE b = "socket" -> {"ack", "ping", "other"}
      [] b = "lines"  -> {"blank"}
      [] OTHER        -> {}

EndingsOf(b) ==
    CASE b = "socket" -> {"complete", "error", "close", "eof"}
      [] b = "lines"  -> {"error", "eof"}
      [] OTHER        -> {"end", "endError", "malformed", "eof"}

WellEnded(b, k) ==
    CASE b = "socket" -> k \in {"complete", "close"}
      [] b = "lines"  -> k = "eof"
      [] OTHER        -> k = "end"

SayingsOf(b) == MessagesOf(b) \union NotesOf(b) \union EndingsOf(b) \union {"part"}

Words == {"next", "result", "bare", "big", "message", "packed", "unknown", "ack", "ping", "other", "blank",
          "complete", "error", "close", "eof", "end", "endError", "malformed", "part"}

Wire == [kind : Words, n : Nat]

Link == [asked : {"graphql", "gateway", "connect"},
         body : {"socket", "lines", "envelopes", "otherCodec", "compressed"},
         wire : Seq(Wire), up : BOOLEAN, said : Nat, items : Nat, verdict : {"open", "done", "failed"}]

Goroutine == [pc : {"open", "opened", "socket", "lines", "envelopes", "over"}, pushed : Seq(Nat),
              end : {"", "ended", "error", "cancelled"}, cancelled : BOOLEAN]

(* The messages before the k-th item on the wire, of those pushed or on it. *)
Before(p, w, k) == IF k = 1 THEN Len(p) ELSE w[k - 1].n

Ending(l, k) == l.wire[k].kind \in EndingsOf(l.body)

(* What is on the wire continues what was pushed.  The first item that     *)
(* ends the stream ends it as the server would say.                        *)
Travels(l, p) ==
    \A k \in 1 .. Len(l.wire) :
        /\ l.wire[k].kind \in SayingsOf(l.body)
        /\ l.wire[k].kind \in MessagesOf(l.body) => l.wire[k].n = Before(p, l.wire, k) + 1
        /\ l.wire[k].kind \in NotesOf(l.body) \union EndingsOf(l.body) => l.wire[k].n = Before(p, l.wire, k)
        /\ l.wire[k].kind = "part" => l.wire[k].n = 0 /\ k = Len(l.wire) /\ ~l.up
        /\ Ending(l, k) =>
              /\ l.wire[k].n = l.said /\ l.verdict # "open"
              /\ (\A j \in 1 .. (k - 1) : ~Ending(l, j)) =>
                    l.verdict = (IF WellEnded(l.body, l.wire[k].kind) THEN "done" ELSE "failed")

Open(l, p) ==
    l.up => /\ l.said = IF Len(l.wire) = 0 THEN Len(p) ELSE l.wire[Len(l.wire)].n
            /\ l.verdict # "open" => \E k \in 1 .. Len(l.wire) : Ending(l, k)

(* A part of a message is the last that a reader gets.                     *)
Whole(l, p) ==
    \A i \in 1 .. Len(p) : p[i] = i \/ (p[i] = 0 /\ i = Len(p) /\ Len(l.wire) = 0 /\ ~l.up)

(* How the protocol goes with what was asked for and how far the goroutine *)
(* is.                                                                     *)
AsOpened(l, r) ==
    /\ l.asked = "graphql" => l.body = "socket"
    /\ r.pc = "open" => Len(l.wire) = 0 /\ Len(r.pushed) = 0 /\ l.said = 0 /\ l.verdict = "open"
    /\ r.pc \in {"opened", "socket"} => l.body = "socket"
    /\ r.pc \in {"lines", "envelopes"} => l.body = r.pc

(* While it reads, nothing has been lost; when it has returned, what it    *)
(* pushed is what the server said before the end that it reports.          *)
Reading(l, r) ==
    r.pc # "over" => r.end = "" /\ Travels(l, r.pushed) /\ Open(l, r.pushed) /\ Whole(l, r.pushed)

HasRead(l, r) ==
    r.pc = "over" =>
        /\ r.end # ""
        /\ \A i \in 1 .. Len(r.pushed) :
              r.pushed[i] = i \/ (r.pushed[i] = 0 /\ i = Len(r.pushed) /\ r.end # "ended")
        /\ r.end = "ended" => l.verdict = "done" /\ Len(r.pushed) = l.said

Faithful(l, r) ==
    l \in Link /\ r \in Goroutine /\ AsOpened(l, r) /\ Reading(l, r) /\ HasRead(l, r)

-----------------------------------------------------------------------------
(* The words of the reader's own definitions. *)
LEMMA ReaderWords ==
  /\ Reader!Messages = MessagesOf(link.body) /\ Reader!Notes = NotesOf(link.body)
  /\ DOMAIN Reader!Verdicts = EndingsOf(link.body)
  /\ \A k \in EndingsOf(link.body) :
        Reader!Verdicts[k] = IF WellEnded(link.body, k) THEN "done" ELSE "failed"
<1>1. Reader!Messages = MessagesOf(link.body)
  BY DEF Reader!Messages, MessagesOf
<1>2. Reader!Notes = NotesOf(link.body)
  BY DEF Reader!Notes, NotesOf
<1>3. CASE link.body = "socket"
  <2>1. Reader!Verdicts = [complete |-> "done", error |-> "failed", close |-> "done", eof |-> "failed"]
    BY <1>3 DEF Reader!Verdicts
  <2>2. EndingsOf(link.body) = {"complete", "error", "close", "eof"}
        /\ \A k : WellEnded(link.body, k) <=> k \in {"complete", "close"}
    BY <1>3 DEF EndingsOf, WellEnded
  <2> QED
    BY <1>1, <1>2, <2>1, <2>2
<1>4. CASE link.body = "lines"
  <2>1. Reader!Verdicts = [error |-> "failed", eof |-> "done"]
    BY <1>4 DEF Reader!Verdicts
  <2>2. EndingsOf(link.body) = {"error", "eof"} /\ \A k : WellEnded(link.body, k) <=> k = "eof"
    BY <1>4 DEF EndingsOf, WellEnded
  <2> QED
    BY <1>1, <1>2, <2>1, <2>2
<1>5. CASE link.body \notin {"socket", "lines"}
  <2>1. Reader!Verdicts = [end |-> "done", endError |-> "failed", malformed |-> "failed", eof |-> "failed"]
    BY <1>5 DEF Reader!Verdicts
  <2>2. EndingsOf(link.body) = {"end", "endError", "malformed", "eof"} /\ \A k : WellEnded(link.body, k) <=> k = "end"
    BY <1>5 DEF EndingsOf, WellEnded
  <2> QED
    BY <1>1, <1>2, <2>1, <2>2
<1> QED
  BY <1>3, <1>4, <1>5

LEMMA WordsApart ==
  ASSUME NEW b \in {"socket", "lines", "envelopes", "otherCodec", "compressed"}
  PROVE  /\ \A k \in MessagesOf(b) : k \in Words /\ k # "part" /\ k \notin NotesOf(b) /\ k \notin EndingsOf(b)
         /\ \A k \in NotesOf(b) : k \in Words /\ k # "part" /\ k \notin EndingsOf(b)
         /\ \A k \in EndingsOf(b) : k \in Words /\ k # "part"
<1>1. CASE b = "socket"
  <2>1. MessagesOf(b) = {"next"} /\ NotesOf(b) = {"ack", "ping", "other"} /\ EndingsOf(b) = {"complete", "error", "close", "eof"}
    BY <1>1 DEF MessagesOf, NotesOf, EndingsOf
  <2> QED
    BY <2>1 DEF Words
<1>2. CASE b = "lines"
  <2>1. MessagesOf(b) = {"result", "bare", "big"} /\ NotesOf(b) = {"blank"} /\ EndingsOf(b) = {"error", "eof"}
    BY <1>2 DEF MessagesOf, NotesOf, EndingsOf
  <2> QED
    BY <2>1 DEF Words
<1>3. CASE b = "envelopes"
  <2>1. MessagesOf(b) = {"message", "packed", "unknown", "big"} /\ NotesOf(b) = {}
        /\ EndingsOf(b) = {"end", "endError", "malformed", "eof"}
    BY <1>3 DEF MessagesOf, NotesOf, EndingsOf
  <2> QED
    BY <2>1 DEF Words
<1>4. CASE b \in {"otherCodec", "compressed"}
  <2>1. MessagesOf(b) = {} /\ NotesOf(b) = {} /\ EndingsOf(b) = {"end", "endError", "malformed", "eof"}
    BY <1>4 DEF MessagesOf, NotesOf, EndingsOf
  <2> QED
    BY <2>1 DEF Words
<1> QED
  BY <1>1, <1>2, <1>3, <1>4

(* An item said is the last on the wire. *)
LEMMA SaidLater ==
  ASSUME NEW l \in Link, NEW p \in Seq(Nat), Travels(l, p), Open(l, p), Whole(l, p), l.up,
         NEW x \in Wire, NEW v \in {"open", "done", "failed"}, NEW s \in Nat,
         \/ x.kind \in MessagesOf(l.body) /\ x.n = l.said + 1 /\ s = x.n /\ l.verdict = "open" /\ v = "open"
         \/ x.kind \in NotesOf(l.body) /\ x.n = l.said /\ s = l.said /\ l.verdict = "open" /\ v = "open"
         \/ /\ x.kind \in EndingsOf(l.body) /\ x.n = l.said /\ s = l.said
            /\ v = IF l.verdict # "open" THEN l.verdict ELSE IF WellEnded(l.body, x.kind) THEN "done" ELSE "failed",
         NEW m, m.wire = Append(l.wire, x), m.said = s, m.verdict = v, m.up = l.up, m.body = l.body
  PROVE  Travels(m, p) /\ Open(m, p) /\ Whole(m, p)
<1> DEFINE w == l.wire
           u == Append(w, x)
<1>1. /\ w \in Seq(Wire) /\ u \in Seq(Wire) /\ Len(w) \in Nat /\ Len(u) = Len(w) + 1
      /\ \A k \in 1 .. Len(w) : u[k] = w[k]
      /\ u[Len(u)] = x /\ Len(p) \in Nat
  BY AppendProperties, LenProperties DEF Link
<1>2. m.wire = u /\ m.said = s /\ m.verdict = v /\ m.up = l.up /\ m.body = l.body
  OBVIOUS
<1>3. l.body \in {"socket", "lines", "envelopes", "otherCodec", "compressed"}
  BY DEF Link
<1>4. Before(p, u, Len(u)) = l.said
  BY <1>1 DEF Open, Before
<1>5. \A k \in 1 .. Len(w) : Before(p, u, k) = Before(p, w, k) /\ (Ending(m, k) <=> Ending(l, k))
  BY <1>1, <1>2 DEF Before, Ending
<1> HIDE DEF u, w
<1>6. ASSUME NEW k \in 1 .. Len(w)
      PROVE  /\ u[k].kind # "part" /\ u[k].kind \in SayingsOf(m.body)
             /\ u[k].kind \in MessagesOf(m.body) => u[k].n = Before(p, u, k) + 1
             /\ u[k].kind \in NotesOf(m.body) \union EndingsOf(m.body) => u[k].n = Before(p, u, k)
             /\ Ending(m, k) =>
                  /\ u[k].n = m.said /\ m.verdict # "open"
                  /\ (\A j \in 1 .. (k - 1) : ~Ending(m, j)) =>
                        m.verdict = (IF WellEnded(m.body, u[k].kind) THEN "done" ELSE "failed")
  <2>1. /\ w[k].kind \in SayingsOf(l.body)
        /\ w[k].kind \in MessagesOf(l.body) => w[k].n = Before(p, w, k) + 1
        /\ w[k].kind \in NotesOf(l.body) \union EndingsOf(l.body) => w[k].n = Before(p, w, k)
        /\ w[k].kind = "part" => ~l.up
        /\ Ending(l, k) =>
              /\ w[k].n = l.said /\ l.verdict # "open"
              /\ (\A j \in 1 .. (k - 1) : ~Ending(l, j)) =>
                    l.verdict = (IF WellEnded(l.body, w[k].kind) THEN "done" ELSE "failed")
    BY DEF Travels, w
  <2>2. \A j \in 1 .. (k - 1) : Ending(m, j) <=> Ending(l, j)
    BY <1>1, <1>5
  <2>3. Ending(l, k) => m.said = l.said /\ m.verdict = l.verdict
    BY <1>2, <2>1
  <2> QED
    BY <1>1, <1>2, <1>5, <2>1, <2>2, <2>3
<1>7. /\ x.kind \in SayingsOf(m.body) /\ x.kind # "part"
      /\ x.kind \in MessagesOf(m.body) => x.n = Before(p, u, Len(u)) + 1
      /\ x.kind \in NotesOf(m.body) \union EndingsOf(m.body) => x.n = Before(p, u, Len(u))
  BY <1>2, <1>3, <1>4, WordsApart DEF SayingsOf
<1>8. Ending(m, Len(u)) <=> x.kind \in EndingsOf(l.body)
  BY <1>1, <1>2 DEF Ending
<1>9. Ending(m, Len(u)) =>
           /\ x.n = m.said /\ m.verdict # "open"
           /\ (\A j \in 1 .. (Len(u) - 1) : ~Ending(m, j)) =>
                 m.verdict = (IF WellEnded(m.body, x.kind) THEN "done" ELSE "failed")
  <2> SUFFICES ASSUME Ending(m, Len(u))
               PROVE  /\ x.n = m.said /\ m.verdict # "open"
                      /\ (\A j \in 1 .. (Len(u) - 1) : ~Ending(m, j)) =>
                            m.verdict = (IF WellEnded(m.body, x.kind) THEN "done" ELSE "failed")
    OBVIOUS
  <2>1. /\ x.n = l.said /\ s = l.said
        /\ v = IF l.verdict # "open" THEN l.verdict ELSE IF WellEnded(l.body, x.kind) THEN "done" ELSE "failed"
    BY <1>3, <1>8, WordsApart
  <2>2. l.verdict # "open" => \E k \in 1 .. Len(w) : Ending(m, k)
    BY <1>5 DEF Open, w
  <2>3. 1 .. (Len(u) - 1) = 1 .. Len(w)
    BY <1>1
  <2> QED
    BY <1>2, <2>1, <2>2, <2>3
<1>10. Travels(m, p)
  <2> SUFFICES ASSUME NEW k \in 1 .. Len(u)
               PROVE  /\ u[k].kind \in SayingsOf(m.body)
                      /\ u[k].kind \in MessagesOf(m.body) => u[k].n = Before(p, u, k) + 1
                      /\ u[k].kind \in NotesOf(m.body) \union EndingsOf(m.body) => u[k].n = Before(p, u, k)
                      /\ u[k].kind # "part"
                      /\ Ending(m, k) =>
                            /\ u[k].n = m.said /\ m.verdict # "open"
                            /\ (\A j \in 1 .. (k - 1) : ~Ending(m, j)) =>
                                  m.verdict = (IF WellEnded(m.body, u[k].kind) THEN "done" ELSE "failed")
    BY <1>2 DEF Travels
  <2>1. CASE k = Len(u)
    BY <1>1, <1>7, <1>9, <2>1
  <2>2. CASE k \in 1 .. Len(w)
    BY <1>6, <2>2
  <2> QED
    BY <1>1, <2>1, <2>2
<1>11. Open(m, p)
  <2>1. m.said = u[Len(u)].n /\ Len(u) # 0
    BY <1>1, <1>2
  <2>2. m.verdict # "open" => \E k \in 1 .. Len(u) : Ending(m, k)
    <3>1. CASE x.kind \in EndingsOf(l.body)
      BY <1>1, <1>8, <3>1
    <3>2. CASE x.kind \notin EndingsOf(l.body)
      BY <1>2, <3>2
    <3> QED
      BY <3>1, <3>2
  <2> QED
    BY <1>2, <2>1, <2>2 DEF Open
<1>12. Whole(m, p)
  BY <1>2 DEF Whole
<1> QED
  BY <1>2, <1>10, <1>11, <1>12

(* The elements of a concatenation. *)
LEMMA JoinedLists ==
  ASSUME NEW S, NEW a \in Seq(S), NEW b \in Seq(S)
  PROVE  /\ a \o b \in Seq(S) /\ Len(a \o b) = Len(a) + Len(b)
         /\ \A k \in 1 .. (Len(a) + Len(b)) : (a \o b)[k] = IF k <= Len(a) THEN a[k] ELSE b[k - Len(a)]
<1>1. a \o b \in Seq(S) /\ Len(a \o b) = Len(a) + Len(b)
  BY ConcatProperties
<1>2. \A k \in 1 .. (Len(a) + Len(b)) : (a \o b)[k] = IF k <= Len(a) THEN a[k] ELSE b[k - Len(a)]
  BY ConcatProperties, Zenon
<1> QED
  BY <1>1, <1>2

(* A prefix of the wire arrives, perhaps with a part of what came next.    *)
LEMMA CutShort ==
  ASSUME NEW l \in Link, NEW p \in Seq(Nat), Travels(l, p), Whole(l, p), l.up,
         NEW n \in 0 .. Len(l.wire), NEW x \in Seq(Wire), Len(x) \in {0, 1},
         Len(x) = 1 => x[1].kind = "part" /\ x[1].n = 0
  PROVE  LET m == [l EXCEPT !.up = FALSE, !.wire = SubSeq(@, 1, n) \o x,
                            !.verdict = IF @ = "open" THEN "failed" ELSE @]
         IN  m \in Link /\ Travels(m, p) /\ Open(m, p) /\ Whole(m, p)
<1> DEFINE w == l.wire
           u == SubSeq(w, 1, n) \o x
           m == [l EXCEPT !.up = FALSE, !.wire = SubSeq(@, 1, n) \o x,
                          !.verdict = IF @ = "open" THEN "failed" ELSE @]
<1>1. /\ w \in Seq(Wire) /\ Len(w) \in Nat /\ n \in Nat /\ SubSeq(w, 1, n) \in Seq(Wire) /\ Len(SubSeq(w, 1, n)) = n
      /\ \A k \in 1 .. n : SubSeq(w, 1, n)[k] = w[k]
  BY LenProperties, SubSeqProperties DEF Link
<1>2. /\ u \in Seq(Wire) /\ Len(u) = n + Len(x)
      /\ \A k \in 1 .. n : u[k] = w[k]
      /\ Len(x) = 1 => u[n + 1].kind = "part" /\ u[n + 1].n = 0
  <2> DEFINE y == SubSeq(w, 1, n)
  <2>1. y \in Seq(Wire) /\ Len(y) = n /\ u = y \o x /\ \A k \in 1 .. n : y[k] = w[k]
    BY <1>1
  <2> HIDE DEF y, u, w
  <2>2. y \o x \in Seq(Wire) /\ Len(y \o x) = Len(y) + Len(x)
        /\ \A k \in 1 .. (Len(y) + Len(x)) : (y \o x)[k] = IF k <= Len(y) THEN y[k] ELSE x[k - Len(y)]
    BY <2>1, JoinedLists
  <2>3. \A k \in 1 .. n : u[k] = w[k]
    BY <1>1, <2>1, <2>2
  <2>4. ASSUME Len(x) = 1
        PROVE  u[n + 1] = x[1]
    BY <1>1, <2>1, <2>2, <2>4
  <2> QED
    BY <2>1, <2>2, <2>3, <2>4
<1>3. /\ m.wire = u /\ m.said = l.said /\ m.up = FALSE /\ m.body = l.body
      /\ m.verdict = IF l.verdict = "open" THEN "failed" ELSE l.verdict
      /\ m \in Link
  BY <1>2 DEF Link
<1>4. \A k \in 1 .. n : k \in 1 .. Len(w) /\ Before(p, u, k) = Before(p, w, k) /\ (Ending(m, k) <=> Ending(l, k))
  <2> HIDE DEF m, u
  <2>1. \A k \in 1 .. n : k \in 1 .. Len(w) /\ (k # 1 => k - 1 \in 1 .. n)
    BY <1>1
  <2> QED
    BY <1>2, <1>3, <2>1 DEF Before, Ending
<1>5. l.body \in {"socket", "lines", "envelopes", "otherCodec", "compressed"}
  BY DEF Link
<1> HIDE DEF m, u, w
<1>6. Travels(m, p)
  <2> SUFFICES ASSUME NEW k \in 1 .. Len(u)
               PROVE  /\ u[k].kind \in SayingsOf(m.body)
                      /\ u[k].kind \in MessagesOf(m.body) => u[k].n = Before(p, u, k) + 1
                      /\ u[k].kind \in NotesOf(m.body) \union EndingsOf(m.body) => u[k].n = Before(p, u, k)
                      /\ u[k].kind = "part" => u[k].n = 0 /\ k = Len(u) /\ ~m.up
                      /\ Ending(m, k) =>
                            /\ u[k].n = m.said /\ m.verdict # "open"
                            /\ (\A j \in 1 .. (k - 1) : ~Ending(m, j)) =>
                                  m.verdict = (IF WellEnded(m.body, u[k].kind) THEN "done" ELSE "failed")
    BY <1>3 DEF Travels
  <2>1. CASE k \in 1 .. n
    <3>1. /\ w[k].kind \in SayingsOf(l.body)
          /\ w[k].kind \in MessagesOf(l.body) => w[k].n = Before(p, w, k) + 1
          /\ w[k].kind \in NotesOf(l.body) \union EndingsOf(l.body) => w[k].n = Before(p, w, k)
          /\ w[k].kind # "part"
          /\ Ending(l, k) =>
                /\ w[k].n = l.said /\ l.verdict # "open"
                /\ (\A j \in 1 .. (k - 1) : ~Ending(l, j)) =>
                      l.verdict = (IF WellEnded(l.body, w[k].kind) THEN "done" ELSE "failed")
      BY <1>4, <2>1 DEF Travels, w
    <3>2. \A j \in 1 .. (k - 1) : Ending(m, j) <=> Ending(l, j)
      BY <1>4, <2>1
    <3>3. Ending(l, k) => m.said = l.said /\ m.verdict = l.verdict
      BY <1>3, <3>1
    <3> QED
      BY <1>2, <1>3, <1>4, <2>1, <3>1, <3>2, <3>3
  <2>2. CASE k = n + 1 /\ Len(x) = 1
    <3>1. u[k].kind = "part" /\ u[k].n = 0
      BY <1>2, <2>2
    <3>2. "part" \notin MessagesOf(m.body) \union NotesOf(m.body) \union EndingsOf(m.body)
      BY <1>3, <1>5, WordsApart
    <3>3. ~Ending(m, k)
      BY <1>3, <3>1, <3>2 DEF Ending
    <3> QED
      BY <1>2, <1>3, <2>2, <3>1, <3>2, <3>3 DEF SayingsOf
  <2>3. k \in 1 .. n \/ (k = n + 1 /\ Len(x) = 1)
    <3>1. k \in 1 .. (n + Len(x)) /\ n \in Nat
      BY <1>1, <1>2
    <3>2. CASE Len(x) = 0
      BY <3>1, <3>2
    <3>3. CASE Len(x) = 1
      BY <3>1, <3>3
    <3> QED
      BY <3>2, <3>3
  <2> QED
    BY <2>1, <2>2, <2>3
<1>7. Open(m, p) /\ Whole(m, p)
  BY <1>3 DEF Open, Whole
<1> QED
  BY <1>3, <1>6, <1>7 DEF m

(* The first item is taken off the wire, and pushed if it is a message.    *)
LEMMA TakenOff ==
  ASSUME NEW l \in Link, NEW p \in Seq(Nat), Travels(l, p), Open(l, p), Whole(l, p),
         Len(l.wire) # 0, ~Ending(l, 1), NEW q,
         \/ l.wire[1].kind \in MessagesOf(l.body) \union {"part"} /\ q = Append(p, l.wire[1].n)
         \/ l.wire[1].kind \in NotesOf(l.body) /\ q = p
  PROVE  LET m == [l EXCEPT !.wire = Tail(@)]
         IN  m \in Link /\ q \in Seq(Nat) /\ Travels(m, q) /\ Open(m, q) /\ Whole(m, q)
<1> DEFINE w == l.wire
           u == Tail(w)
           m == [l EXCEPT !.wire = Tail(@)]
<1>1. /\ w \in Seq(Wire) /\ Len(w) \in Nat \ {0} /\ Len(p) \in Nat
      /\ l.body \in {"socket", "lines", "envelopes", "otherCodec", "compressed"}
  BY LenProperties DEF Link
<1>2. u \in Seq(Wire) /\ Len(u) = Len(w) - 1 /\ \A k \in 1 .. Len(u) : u[k] = w[k + 1]
  <2>1. w # <<>>
    BY <1>1, EmptySeq
  <2> HIDE DEF w
  <2> QED
    BY <1>1, <2>1, HeadTailProperties
<1>3. m.wire = u /\ m.said = l.said /\ m.verdict = l.verdict /\ m.up = l.up /\ m.body = l.body /\ m \in Link
  BY <1>2 DEF Link
<1>4. /\ w[1].n \in Nat /\ 1 \in 1 .. Len(w)
      /\ w[1].kind \in MessagesOf(l.body) => w[1].n = Len(p) + 1
      /\ w[1].kind \in NotesOf(l.body) => w[1].n = Len(p)
      /\ w[1].kind = "part" => w[1].n = 0 /\ Len(w) = 1 /\ ~l.up
  <2>1. w[1] \in Wire /\ 1 \in 1 .. Len(w)
    BY <1>1, ElementOfSeq
  <2> QED
    BY <1>1, <2>1 DEF Travels, Before, Wire
<1>5. /\ q \in Seq(Nat) /\ Len(q) \in Nat
      /\ w[1].kind # "part" => Len(q) = w[1].n
      /\ Len(q) \in {Len(p), Len(p) + 1}
      /\ \A i \in 1 .. Len(q) : (q[i] = p[i] /\ i \in 1 .. Len(p)) \/ (i = Len(p) + 1 /\ q[i] = w[1].n)
  <2>1. CASE w[1].kind \in NotesOf(l.body)
    <3>1. w[1].kind \notin MessagesOf(l.body) \union {"part"}
      BY <1>1, <2>1, WordsApart
    <3> QED
      BY <1>1, <1>4, <2>1, <3>1
  <2>2. CASE w[1].kind \notin NotesOf(l.body)
    <3>1. q = Append(p, w[1].n) /\ w[1].kind \in MessagesOf(l.body) \union {"part"}
      BY <2>2
    <3>2. q \in Seq(Nat) /\ Len(q) = Len(p) + 1 /\ q[Len(p) + 1] = w[1].n /\ \A i \in 1 .. Len(p) : q[i] = p[i]
      BY <1>1, <1>4, <3>1, AppendProperties
    <3> QED
      BY <1>1, <1>4, <3>1, <3>2
  <2> QED
    BY <2>1, <2>2
<1>6. \A i \in 1 .. Len(p) : p[i] = i
  BY <1>1 DEF Whole
<1> HIDE DEF m, u, w
<1>7. \A k \in 1 .. Len(u) : Before(q, u, k) = Before(p, w, k + 1)
  <2> SUFFICES ASSUME NEW k \in 1 .. Len(u)
               PROVE  Before(q, u, k) = Before(p, w, k + 1)
    OBVIOUS
  <2>1. CASE k = 1
    <3>1. w[1].kind # "part"
      BY <1>1, <1>2, <1>4
    <3> QED
      BY <1>1, <1>2, <1>5, <2>1, <3>1 DEF Before
  <2>2. CASE k # 1
    <3>1. k - 1 \in 1 .. Len(u) /\ (k - 1) + 1 = k /\ (k + 1) - 1 = k /\ k + 1 # 1
      BY <1>1, <1>2, <2>2
    <3>2. u[k - 1] = w[k]
      BY <1>2, <3>1
    <3> QED
      BY <2>2, <3>1, <3>2 DEF Before
  <2> QED
    BY <2>1, <2>2
<1>8. \A k \in 1 .. Len(u) : Ending(m, k) <=> Ending(l, k + 1)
  BY <1>2, <1>3 DEF Ending, w
<1>9. Travels(m, q)
  <2> SUFFICES ASSUME NEW k \in 1 .. Len(u)
               PROVE  /\ u[k].kind \in SayingsOf(m.body)
                      /\ u[k].kind \in MessagesOf(m.body) => u[k].n = Before(q, u, k) + 1
                      /\ u[k].kind \in NotesOf(m.body) \union EndingsOf(m.body) => u[k].n = Before(q, u, k)
                      /\ u[k].kind = "part" => u[k].n = 0 /\ k = Len(u) /\ ~m.up
                      /\ Ending(m, k) =>
                            /\ u[k].n = m.said /\ m.verdict # "open"
                            /\ (\A j \in 1 .. (k - 1) : ~Ending(m, j)) =>
                                  m.verdict = (IF WellEnded(m.body, u[k].kind) THEN "done" ELSE "failed")
    BY <1>3 DEF Travels
  <2> DEFINE h == k + 1
  <2>1. h \in 1 .. Len(w) /\ u[k] = w[h]
    BY <1>1, <1>2
  <2>2. Before(q, u, k) = Before(p, w, h) /\ (Ending(m, k) <=> Ending(l, h))
    BY <1>7, <1>8
  <2>3. (\A j \in 1 .. (k - 1) : ~Ending(m, j)) => \A j \in 1 .. (h - 1) : ~Ending(l, j)
    <3> SUFFICES ASSUME \A j \in 1 .. (k - 1) : ~Ending(m, j), NEW j \in 1 .. (h - 1)
                 PROVE  ~Ending(l, j)
      OBVIOUS
    <3>1. CASE j = 1
      BY <3>1
    <3>2. CASE j # 1
      <4>1. j - 1 \in 1 .. (k - 1) /\ j - 1 \in 1 .. Len(u) /\ (j - 1) + 1 = j
        BY <1>1, <1>2, <3>2
      <4> QED
        BY <1>8, <4>1
    <3> QED
      BY <3>1, <3>2
  <2>4. k = Len(u) <=> h = Len(w)
    BY <1>1, <1>2
  <2> HIDE DEF h
  <2>5. /\ w[h].kind \in SayingsOf(l.body)
        /\ w[h].kind \in MessagesOf(l.body) => w[h].n = Before(p, w, h) + 1
        /\ w[h].kind \in NotesOf(l.body) \union EndingsOf(l.body) => w[h].n = Before(p, w, h)
        /\ w[h].kind = "part" => w[h].n = 0 /\ h = Len(w) /\ ~l.up
        /\ Ending(l, h) =>
              /\ w[h].n = l.said /\ l.verdict # "open"
              /\ (\A j \in 1 .. (h - 1) : ~Ending(l, j)) =>
                    l.verdict = (IF WellEnded(l.body, w[h].kind) THEN "done" ELSE "failed")
    BY <2>1 DEF Travels, w
  <2> QED
    BY <1>3, <2>1, <2>2, <2>3, <2>4, <2>5
<1>10. Open(m, q)
  <2> SUFFICES ASSUME l.up
               PROVE  /\ m.said = IF Len(u) = 0 THEN Len(q) ELSE u[Len(u)].n
                      /\ m.verdict # "open" => \E k \in 1 .. Len(u) : Ending(m, k)
    BY <1>3 DEF Open
  <2>1. l.said = w[Len(w)].n /\ w[1].kind # "part"
    BY <1>1, <1>4 DEF Open, w
  <2>2. m.said = IF Len(u) = 0 THEN Len(q) ELSE u[Len(u)].n
    <3>1. CASE Len(u) = 0
      <4>1. Len(w) = 1
        BY <1>1, <1>2, <3>1
      <4> QED
        BY <1>3, <1>5, <2>1, <3>1, <4>1
    <3>2. CASE Len(u) # 0
      <4>1. Len(u) \in 1 .. Len(u) /\ Len(u) + 1 = Len(w)
        BY <1>1, <1>2, <3>2
      <4>2. u[Len(u)] = w[Len(w)]
        BY <1>2, <4>1
      <4> QED
        BY <1>3, <2>1, <3>2, <4>2
    <3> QED
      BY <3>1, <3>2
  <2>3. ASSUME l.verdict # "open"
        PROVE  \E k \in 1 .. Len(u) : Ending(m, k)
    <3>1. PICK k \in 1 .. Len(w) : Ending(l, k)
      BY <2>3 DEF Open, w
    <3>2. k - 1 \in 1 .. Len(u) /\ (k - 1) + 1 = k
      BY <1>1, <1>2, <3>1
    <3> QED
      BY <1>8, <3>1, <3>2
  <2> QED
    BY <1>3, <2>2, <2>3
<1>11. Whole(m, q)
  <2> SUFFICES ASSUME NEW i \in 1 .. Len(q)
               PROVE  q[i] = i \/ (q[i] = 0 /\ i = Len(q) /\ Len(u) = 0 /\ ~l.up)
    BY <1>3 DEF Whole
  <2>1. CASE i \in 1 .. Len(p)
    <3>1. i # Len(p) + 1 /\ p[i] = i
      BY <1>1, <1>6, <2>1
    <3> QED
      BY <1>5, <3>1
  <2>2. CASE i = Len(p) + 1
    <3>1. q[i] = w[1].n /\ Len(q) = Len(p) + 1
      BY <1>1, <1>5, <2>2
    <3>2. CASE w[1].kind = "part"
      BY <1>1, <1>2, <1>4, <2>2, <3>1, <3>2
    <3>3. CASE w[1].kind # "part"
      BY <1>5, <2>2, <3>1, <3>3
    <3> QED
      BY <3>2, <3>3
  <2> QED
    BY <1>5, <2>1, <2>2
<1> QED
  BY <1>3, <1>5, <1>9, <1>10, <1>11 DEF m

-----------------------------------------------------------------------------
(* The steps of a reader and of its server. *)

LEMMA LinkAfter ==
  ASSUME NEW l, NEW r, Faithful(l, r), r.pc = "over", NEW m \in Link, m.asked = l.asked, m.body = l.body,
         l.verdict = "done" => m.verdict = "done" /\ m.said = l.said
  PROVE  Faithful(m, r)
  BY DEF Faithful, AsOpened, Reading, HasRead

LEMMA LinkDuring ==
  ASSUME NEW l, NEW r, Faithful(l, r), r.pc \notin {"open", "over"}, NEW m \in Link, m.asked = l.asked, m.body = l.body,
         Travels(m, r.pushed), Open(m, r.pushed), Whole(m, r.pushed)
  PROVE  Faithful(m, r)
  BY DEF Faithful, AsOpened, Reading, HasRead

LEMMA SaysStep ==
  ASSUME Faithful(link, reader), NEW k \in MessagesOf(link.body) \union NotesOf(link.body), Reader!Says(k)
  PROVE  Faithful(link', reader')
<1> DEFINE n == IF k \in MessagesOf(link.body) THEN link.said + 1 ELSE link.said
           x == [kind |-> k, n |-> n]
<1>1. /\ link.up /\ link.verdict = "open" /\ reader.pc # "open" /\ UNCHANGED reader
      /\ link' = [link EXCEPT !.wire = Append(@, x), !.items = @ + 1, !.said = n]
  BY ReaderWords DEF Reader!Says, Reader!At
<1>2. /\ link \in Link /\ reader \in Goroutine /\ reader.pushed \in Seq(Nat)
      /\ link.body \in {"socket", "lines", "envelopes", "otherCodec", "compressed"}
  BY DEF Faithful, Link, Goroutine
<1>3. n \in Nat /\ k \in Words /\ x \in Wire /\ x.kind = k /\ x.n = n /\ link.items + 1 \in Nat
  BY <1>2, WordsApart DEF Link, Wire
<1>4. link' = [link EXCEPT !.wire = Append(@, x), !.said = n, !.items = link.items + 1, !.verdict = "open"]
  BY <1>1, <1>2 DEF Link
<1> DEFINE u == Append(link.wire, x)
<1>5. u \in Seq(Wire)
  BY <1>2, <1>3, AppendProperties DEF Link
<1>6. /\ link' \in Link /\ link'.asked = link.asked /\ link'.body = link.body /\ link'.up = link.up
      /\ link'.wire = Append(link.wire, x) /\ link'.said = n /\ link'.verdict = "open"
  <2> HIDE DEF x, n, u
  <2>1. link' = [link EXCEPT !.wire = u, !.said = n, !.items = link'.items, !.verdict = "open"]
        /\ link'.items \in Nat
    BY <1>2, <1>3, <1>4 DEF Link, u
  <2> QED
    BY <1>2, <1>3, <1>5, <2>1 DEF Link, u
<1>7. CASE reader.pc = "over"
  <2>1. link.verdict = "done" => link'.verdict = "done" /\ link'.said = link.said
    BY <1>1, <1>6
  <2> QED
    BY <1>1, <1>6, <1>7, <2>1, LinkAfter
<1>8. CASE reader.pc # "over"
  <2>1. Travels(link, reader.pushed) /\ Open(link, reader.pushed) /\ Whole(link, reader.pushed)
    BY <1>8 DEF Faithful, Reading
  <2>2. \/ x.kind \in MessagesOf(link.body) /\ x.n = link.said + 1 /\ n = x.n /\ link.verdict = "open"
        \/ x.kind \in NotesOf(link.body) /\ x.n = link.said /\ n = link.said /\ link.verdict = "open"
    BY <1>1, <1>3
  <2> HIDE DEF x, n
  <2>3. Travels(link', reader.pushed) /\ Open(link', reader.pushed) /\ Whole(link', reader.pushed)
    <3>1. link.up /\ reader.pushed \in Seq(Nat) /\ link \in Link /\ link.said \in Nat
      BY <1>1, <1>2 DEF Link
    <3> QED
      BY <1>3, <1>6, <2>1, <2>2, <3>1, SaidLater
  <2> QED
    BY <1>1, <1>6, <1>8, <2>3, LinkDuring
<1> QED
  BY <1>7, <1>8

LEMMA EndsStep ==
  ASSUME Faithful(link, reader), NEW k \in EndingsOf(link.body), Reader!Ends(k)
  PROVE  Faithful(link', reader')
<1> DEFINE x == [kind |-> k, n |-> link.said]
           v == IF link.verdict = "open" THEN IF WellEnded(link.body, k) THEN "done" ELSE "failed" ELSE link.verdict
<1>1. /\ link.up /\ reader.pc # "open" /\ UNCHANGED reader
      /\ link' = [link EXCEPT !.wire = Append(@, x), !.verdict = v]
  BY ReaderWords DEF Reader!Ends, Reader!At
<1>2. /\ link \in Link /\ reader \in Goroutine /\ reader.pushed \in Seq(Nat)
      /\ link.body \in {"socket", "lines", "envelopes", "otherCodec", "compressed"}
      /\ link.said \in Nat /\ link.items \in Nat /\ link.verdict \in {"open", "done", "failed"}
  BY DEF Faithful, Link, Goroutine
<1>3. k \in Words /\ x \in Wire /\ x.kind = k /\ x.n = link.said /\ v \in {"open", "done", "failed"}
  BY <1>2, WordsApart DEF Wire
<1>4. link' = [link EXCEPT !.wire = Append(@, x), !.said = link.said, !.items = link.items, !.verdict = v]
  BY <1>1, <1>2 DEF Link
<1> DEFINE u == Append(link.wire, x)
<1>5. u \in Seq(Wire)
  BY <1>2, <1>3, AppendProperties DEF Link
<1>6. /\ link' \in Link /\ link'.asked = link.asked /\ link'.body = link.body /\ link'.up = link.up
      /\ link'.wire = Append(link.wire, x) /\ link'.said = link.said /\ link'.verdict = v
  <2> HIDE DEF x, v, u
  <2>1. link' = [link EXCEPT !.wire = u, !.said = link.said, !.items = link'.items, !.verdict = v]
        /\ link'.items \in Nat
    BY <1>2, <1>3, <1>4 DEF Link, u
  <2> QED
    BY <1>2, <1>3, <1>5, <2>1 DEF Link, u
<1>7. CASE reader.pc = "over"
  <2>1. link.verdict = "done" => link'.verdict = "done" /\ link'.said = link.said
    BY <1>1, <1>6
  <2> QED
    BY <1>1, <1>6, <1>7, <2>1, LinkAfter
<1>8. CASE reader.pc # "over"
  <2>1. Travels(link, reader.pushed) /\ Open(link, reader.pushed) /\ Whole(link, reader.pushed)
    BY <1>8 DEF Faithful, Reading
  <2>2. v = IF link.verdict # "open" THEN link.verdict ELSE IF WellEnded(link.body, x.kind) THEN "done" ELSE "failed"
    BY <1>3
  <2> HIDE DEF x, v
  <2>3. Travels(link', reader.pushed) /\ Open(link', reader.pushed) /\ Whole(link', reader.pushed)
    <3>1. link.up /\ reader.pushed \in Seq(Nat) /\ link \in Link /\ link.said \in Nat
      BY <1>1, <1>2 DEF Link
    <3> QED
      BY <1>3, <1>6, <2>1, <2>2, <3>1, SaidLater
  <2> QED
    BY <1>1, <1>6, <1>8, <2>3, LinkDuring
<1> QED
  BY <1>7, <1>8

LEMMA BreaksStep ==
  ASSUME Faithful(link, reader), Reader!Breaks
  PROVE  Faithful(link', reader')
<1> DEFINE e == [kind |-> "part", n |-> 0]
<1>1. PICK n \in 0 .. Len(link.wire), part \in BOOLEAN :
           link' = [link EXCEPT !.up = FALSE, !.wire = SubSeq(@, 1, n) \o (IF part THEN <<e>> ELSE <<>>),
                                !.verdict = IF @ = "open" THEN "failed" ELSE @]
  BY DEF Reader!Breaks
<1> DEFINE x == IF part THEN <<e>> ELSE <<>>
<1>2. link.up /\ reader.pc # "open" /\ UNCHANGED reader
  BY DEF Reader!Breaks, Reader!At
<1>3. link \in Link /\ reader \in Goroutine /\ reader.pushed \in Seq(Nat) /\ link.wire \in Seq(Wire) /\ Len(link.wire) \in Nat
  BY LenProperties DEF Faithful, Link, Goroutine
<1>4. x \in Seq(Wire) /\ Len(x) \in {0, 1} /\ (Len(x) = 1 => x[1].kind = "part" /\ x[1].n = 0)
  <2>1. e \in Wire /\ e.kind = "part" /\ e.n = 0
    BY DEF Wire, Words
  <2> HIDE DEF e
  <2>2. CASE part
    BY <2>1, <2>2
  <2>3. CASE ~part
    <3>1. x = <<>> /\ <<>> \in Seq(Wire) /\ Len(<<>>) = 0
      BY <2>3, EmptySeq
    <3> QED
      BY <3>1
  <2> QED
    BY <2>2, <2>3
<1>5. link' = [link EXCEPT !.up = FALSE, !.wire = SubSeq(@, 1, n) \o x, !.verdict = IF @ = "open" THEN "failed" ELSE @]
  BY <1>1
<1> HIDE DEF x, e
<1>6. CASE reader.pc = "over"
  <2> DEFINE y == SubSeq(link.wire, 1, n)
  <2>1. y \in Seq(Wire)
    BY <1>3, SubSeqProperties
  <2> HIDE DEF y
  <2>2. y \o x \in Seq(Wire)
    BY <1>4, <2>1, JoinedLists
  <2>3. link' \in Link /\ link'.asked = link.asked /\ link'.body = link.body /\ link'.said = link.said
        /\ (link.verdict = "done" => link'.verdict = "done")
    BY <1>3, <1>5, <2>2 DEF Link, y
  <2> QED
    BY <1>2, <1>6, <2>3, LinkAfter
<1>7. CASE reader.pc # "over"
  <2>1. Travels(link, reader.pushed) /\ Open(link, reader.pushed) /\ Whole(link, reader.pushed)
    BY <1>7 DEF Faithful, Reading
  <2>2. link' \in Link /\ Travels(link', reader.pushed) /\ Open(link', reader.pushed) /\ Whole(link', reader.pushed)
    BY <1>2, <1>3, <1>4, <1>5, <2>1, CutShort
  <2>3. link'.asked = link.asked /\ link'.body = link.body
    BY <1>3, <1>5 DEF Link
  <2> QED
    BY <1>2, <1>7, <2>2, <2>3, LinkDuring
<1> QED
  BY <1>6, <1>7

LEMMA WatchStep ==
  ASSUME Faithful(link, reader), Reader!Watch
  PROVE  Faithful(link', reader')
<1>1. UNCHANGED reader /\ link.up /\ link' = [link EXCEPT !.up = FALSE]
  BY DEF Reader!Watch
<1>2. /\ link' \in Link /\ link'.wire = link.wire /\ link'.said = link.said /\ link'.verdict = link.verdict
      /\ link'.body = link.body /\ link'.asked = link.asked /\ link'.up = FALSE
  BY <1>1 DEF Faithful, Link
<1>3. \A p : Travels(link, p) => Travels(link', p)
  BY <1>2 DEF Travels, Ending
<1>4. \A p : Whole(link, p) /\ Open(link, p) => Whole(link', p) /\ Open(link', p)
  BY <1>1, <1>2 DEF Whole, Open
<1>5. Faithful(link', reader)
  BY <1>2, <1>3, <1>4 DEF Faithful, AsOpened, Reading, HasRead
<1> QED
  BY <1>1, <1>5

LEMMA CancelStep ==
  ASSUME Faithful(link, reader), Reader!Cancel
  PROVE  Faithful(link', reader')
<1>1. UNCHANGED link /\ reader' = [reader EXCEPT !.cancelled = TRUE]
  BY DEF Reader!Cancel
<1>2. /\ reader' \in Goroutine /\ reader'.pc = reader.pc /\ reader'.pushed = reader.pushed /\ reader'.end = reader.end
  BY <1>1 DEF Faithful, Goroutine
<1>3. Faithful(link, reader')
  BY <1>2 DEF Faithful, AsOpened, Reading, HasRead
<1> QED
  BY <1>1, <1>3

LEMMA ReturnStep ==
  ASSUME Faithful(link, reader), reader.pc # "over", NEW err \in BOOLEAN,
         link' \in Link, link'.asked = link.asked, link'.body = link.body, link'.said = link.said,
         link'.verdict = link.verdict, reader' = Reader!Returned(reader, err),
         ~err => /\ link.verdict = "done" /\ Len(reader.pushed) = link.said
                 /\ \A i \in 1 .. Len(reader.pushed) : reader.pushed[i] = i
  PROVE  Faithful(link', reader')
<1> DEFINE e == IF reader.cancelled THEN "cancelled" ELSE IF err THEN "error" ELSE "ended"
<1>1. reader' = [reader EXCEPT !.pc = "over", !.end = e]
  BY DEF Reader!Returned
<1>2. e \in {"ended", "error", "cancelled"} /\ (e = "ended" => ~err)
  OBVIOUS
<1> HIDE DEF e
<1>3. /\ reader' \in Goroutine /\ reader'.pc = "over" /\ reader'.end = e /\ reader'.pushed = reader.pushed
  BY <1>1, <1>2 DEF Faithful, Goroutine
<1>4. Whole(link, reader.pushed)
  BY DEF Faithful, Reading
<1>5. HasRead(link', reader')
  BY <1>2, <1>3, <1>4 DEF HasRead, Whole
<1>6. AsOpened(link', reader') /\ Reading(link', reader')
  BY <1>3 DEF Faithful, AsOpened, Reading
<1> QED
  BY <1>3, <1>5, <1>6 DEF Faithful

(* What a reader is about to read. *)
LEMMA ItemFacts ==
  ASSUME Faithful(link, reader), reader.pc \notin {"open", "over"}, link.wire # <<>>
  PROVE  /\ link \in Link /\ reader \in Goroutine /\ reader.pushed \in Seq(Nat)
         /\ Reader!Item = link.wire[1] /\ Len(link.wire) # 0
         /\ link.wire[1].kind \in SayingsOf(link.body) /\ link.wire[1].n \in Nat
         /\ Travels(link, reader.pushed) /\ Open(link, reader.pushed) /\ Whole(link, reader.pushed)
         /\ Ending(link, 1) =>
               /\ Len(reader.pushed) = link.said /\ \A i \in 1 .. Len(reader.pushed) : reader.pushed[i] = i
               /\ link.verdict = IF WellEnded(link.body, link.wire[1].kind) THEN "done" ELSE "failed"
<1>1. /\ link \in Link /\ reader \in Goroutine /\ reader.pushed \in Seq(Nat) /\ Len(reader.pushed) \in Nat
      /\ link.wire \in Seq(Wire) /\ Len(link.wire) \in Nat \ {0}
  BY EmptySeq, LenProperties DEF Faithful, Link, Goroutine
<1>2. Travels(link, reader.pushed) /\ Open(link, reader.pushed) /\ Whole(link, reader.pushed)
  BY DEF Faithful, Reading
<1>3. Reader!Item = link.wire[1] /\ link.wire[1] \in Wire /\ 1 \in 1 .. Len(link.wire)
  BY <1>1, HeadTailProperties, ElementOfSeq DEF Reader!Item
<1>4. link.wire[1].kind \in SayingsOf(link.body) /\ link.wire[1].n \in Nat
  BY <1>2, <1>3 DEF Travels, Wire
<1>5. ASSUME Ending(link, 1)
      PROVE  /\ Len(reader.pushed) = link.said /\ \A i \in 1 .. Len(reader.pushed) : reader.pushed[i] = i
             /\ link.verdict = IF WellEnded(link.body, link.wire[1].kind) THEN "done" ELSE "failed"
  <2>1. link.wire[1].kind \in EndingsOf(link.body)
    BY <1>5 DEF Ending
  <2>2. link.wire[1].n = Len(reader.pushed) /\ link.wire[1].n = link.said
    BY <1>2, <1>3, <1>5, <2>1 DEF Travels, Before
  <2>3. \A j \in 1 .. (1 - 1) : ~Ending(link, j)
    OBVIOUS
  <2>4. link.verdict = IF WellEnded(link.body, link.wire[1].kind) THEN "done" ELSE "failed"
    BY <1>2, <1>3, <1>5, <2>3 DEF Travels
  <2>5. \A i \in 1 .. Len(reader.pushed) : reader.pushed[i] = i
    BY <1>1, <1>2 DEF Whole
  <2> QED
    BY <2>2, <2>4, <2>5
<1> QED
  BY <1>1, <1>2, <1>3, <1>4, <1>5

(* An item is read: it ends the stream, is pushed, or is passed over.      *)
LEMMA ItemReturned ==
  ASSUME Faithful(link, reader), reader.pc \notin {"open", "over"}, link.wire # <<>>,
         link' = [link EXCEPT !.wire = Tail(@)], NEW err \in BOOLEAN, Reader!Return(err),
         ~err => Ending(link, 1) /\ WellEnded(link.body, link.wire[1].kind)
  PROVE  Faithful(link', reader')
<1>1. /\ link \in Link /\ link.wire \in Seq(Wire) /\ Tail(link.wire) \in Seq(Wire)
  BY HeadTailProperties DEF Faithful, Link
<1>2. /\ link' \in Link /\ link'.asked = link.asked /\ link'.body = link.body /\ link'.said = link.said
      /\ link'.verdict = link.verdict
  BY <1>1 DEF Link
<1>3. ~err => /\ link.verdict = "done" /\ Len(reader.pushed) = link.said
              /\ \A i \in 1 .. Len(reader.pushed) : reader.pushed[i] = i
  BY ItemFacts
<1> QED
  BY <1>2, <1>3, ReturnStep DEF Reader!Return

LEMMA ItemKept ==
  ASSUME Faithful(link, reader), reader.pc \notin {"open", "over"}, link.wire # <<>>, ~Ending(link, 1),
         link' = [link EXCEPT !.wire = Tail(@)], reader' \in Goroutine, reader'.end = reader.end,
         AsOpened(link, reader'), reader'.pc \notin {"open", "over"},
         \/ link.wire[1].kind \in MessagesOf(link.body) \union {"part"}
            /\ reader'.pushed = Append(reader.pushed, link.wire[1].n)
         \/ link.wire[1].kind \in NotesOf(link.body) /\ reader'.pushed = reader.pushed
  PROVE  Faithful(link', reader')
<1> DEFINE m == [link EXCEPT !.wire = Tail(@)]
           q == reader'.pushed
<1>1. /\ link \in Link /\ reader.pushed \in Seq(Nat) /\ Len(link.wire) # 0
      /\ Travels(link, reader.pushed) /\ Open(link, reader.pushed) /\ Whole(link, reader.pushed)
  BY ItemFacts
<1>2. m \in Link /\ Travels(m, q) /\ Open(m, q) /\ Whole(m, q)
  BY <1>1, TakenOff
<1>3. link'.asked = link.asked /\ link'.body = link.body
  BY <1>1 DEF Link
<1>4. reader.end = ""
  BY DEF Faithful, Reading
<1> QED
  BY <1>2, <1>3, <1>4 DEF Faithful, AsOpened, Reading, HasRead

LEMMA OpenStep ==
  ASSUME Faithful(link, reader), Reader!Open
  PROVE  Faithful(link', reader')
<1>1. UNCHANGED link /\ reader.pc = "open" /\ reader.pc # "over"
  BY DEF Reader!Open, Reader!At
<1>2. CASE Reader!Return(TRUE)
  BY <1>1, <1>2, ReturnStep DEF Faithful, Reader!Return
<1>3. CASE ~Reader!Return(TRUE)
  <2> DEFINE pc == IF link.asked = "graphql" THEN "opened" ELSE Reader!Dispatch(link.asked, link.body)
  <2>1. reader' = [reader EXCEPT !.pc = pc] /\ (link.asked # "graphql" => pc # "refused")
    BY <1>3 DEF Reader!Open
  <2>2. /\ pc \in {"opened", "lines", "envelopes"} /\ (pc = "opened" => link.asked = "graphql")
        /\ pc \in {"lines", "envelopes"} => link.body = pc
    BY <2>1 DEF Reader!Dispatch
  <2> HIDE DEF pc
  <2>3. /\ reader' \in Goroutine /\ reader'.pc = pc /\ reader'.pushed = reader.pushed /\ reader'.end = reader.end
    BY <2>1, <2>2 DEF Faithful, Goroutine
  <2>4. AsOpened(link, reader')
    BY <2>2, <2>3 DEF Faithful, AsOpened
  <2>5. Reading(link, reader') /\ HasRead(link, reader')
    BY <1>1, <2>2, <2>3 DEF Faithful, Reading, HasRead
  <2> QED
    BY <1>1, <2>3, <2>4, <2>5 DEF Faithful
<1> QED
  BY <1>2, <1>3

LEMMA ReadFailsStep ==
  ASSUME Faithful(link, reader), Reader!ReadFails
  PROVE  Faithful(link', reader')
<1>1. UNCHANGED link /\ reader.pc # "over" /\ reader' = Reader!Returned(reader, TRUE)
  BY DEF Reader!ReadFails, Reader!Return
<1> QED
  BY <1>1, ReturnStep DEF Faithful

(* Nothing is pushed before the subscription was acknowledged.             *)
LEMMA HandshakeStep ==
  ASSUME Faithful(link, reader), Reader!Handshake
  PROVE  Faithful(link', reader')
<1>1. reader.pc = "opened" /\ link.wire # <<>> /\ link' = [link EXCEPT !.wire = Tail(@)]
  BY DEF Reader!Handshake, Reader!Take, Reader!At
<1>2. link.body = "socket" /\ Reader!Item = link.wire[1] /\ reader \in Goroutine
  BY <1>1, ItemFacts DEF Faithful, AsOpened
<1> DEFINE k == link.wire[1].kind
<1>3. CASE Reader!Return(TRUE)
  BY <1>1, <1>3, ItemReturned
<1>4. CASE ~Reader!Return(TRUE)
  <2>1. \/ k = "ping" /\ UNCHANGED reader
        \/ k = "ack" /\ reader' = [reader EXCEPT !.pc = "socket"]
    BY <1>2, <1>4 DEF Reader!Handshake, Reader!Acknowledges
  <2>2. k \in NotesOf(link.body)
    BY <1>2, <2>1 DEF NotesOf
  <2>3. ~Ending(link, 1)
    BY <1>2, <2>2, WordsApart DEF Ending
  <2> HIDE DEF k
  <2>4. reader' \in Goroutine /\ reader'.pc \in {"opened", "socket"} /\ reader'.pushed = reader.pushed /\ reader'.end = reader.end
    BY <1>1, <1>2, <2>1 DEF Goroutine
  <2>5. AsOpened(link, reader')
    BY <1>2, <2>4 DEF Faithful, AsOpened
  <2> QED
    BY <1>1, <2>2, <2>3, <2>4, <2>5, ItemKept DEF k
<1> QED
  BY <1>3, <1>4

(* A message is pushed with the number it has, a part with 0.              *)
LEMMA PushStep ==
  ASSUME Faithful(link, reader), reader.pc \notin {"open", "over"}, link.wire # <<>>,
         link.wire[1].kind \in MessagesOf(link.body) \union {"part"},
         link' = [link EXCEPT !.wire = Tail(@)], reader' = [reader EXCEPT !.pushed = Append(@, link.wire[1].n)]
  PROVE  Faithful(link', reader')
<1>1. reader \in Goroutine /\ link.wire[1].n \in Nat /\ link.body \in {"socket", "lines", "envelopes", "otherCodec", "compressed"}
  BY ItemFacts DEF Link
<1>2. Append(reader.pushed, link.wire[1].n) \in Seq(Nat)
  BY <1>1, AppendProperties DEF Goroutine
<1>3. /\ reader' \in Goroutine /\ reader'.pc = reader.pc /\ reader'.end = reader.end
      /\ reader'.pushed = Append(reader.pushed, link.wire[1].n)
  BY <1>1, <1>2 DEF Goroutine
<1>4. ~Ending(link, 1)
  BY <1>1, WordsApart DEF Ending
<1>5. AsOpened(link, reader')
  BY <1>3 DEF Faithful, AsOpened
<1> QED
  BY <1>3, <1>4, <1>5, ItemKept

(* What is about the connection is passed over.                            *)
LEMMA NoteStep ==
  ASSUME Faithful(link, reader), reader.pc \notin {"open", "over"}, link.wire # <<>>,
         link.wire[1].kind \in NotesOf(link.body), link' = [link EXCEPT !.wire = Tail(@)], UNCHANGED reader
  PROVE  Faithful(link', reader')
<1>1. link.body \in {"socket", "lines", "envelopes", "otherCodec", "compressed"}
  BY ItemFacts DEF Link
<1>2. ~Ending(link, 1)
  BY <1>1, WordsApart DEF Ending
<1> QED
  BY <1>2, ItemKept DEF Faithful

LEMMA ReadSocketStep ==
  ASSUME Faithful(link, reader), Reader!ReadSocket
  PROVE  Faithful(link', reader')
<1>1. reader.pc = "socket" /\ link.wire # <<>> /\ link' = [link EXCEPT !.wire = Tail(@)]
  BY DEF Reader!ReadSocket, Reader!Take, Reader!At
<1>2. link.body = "socket" /\ Reader!Item = link.wire[1] /\ link.wire[1].kind \in SayingsOf(link.body)
  BY <1>1, ItemFacts DEF Faithful, AsOpened
<1> DEFINE k == link.wire[1].kind
<1>3. /\ MessagesOf(link.body) = {"next"} /\ NotesOf(link.body) = {"ack", "ping", "other"}
      /\ EndingsOf(link.body) = {"complete", "error", "close", "eof"}
      /\ WellEnded(link.body, k) <=> k \in {"complete", "close"}
  BY <1>2 DEF MessagesOf, NotesOf, EndingsOf, WellEnded
<1>4. k \in {"next", "ack", "ping", "other", "complete", "error", "close", "eof", "part"}
  BY <1>2, <1>3 DEF SayingsOf
<1>5. CASE k = "next"
  <2>1. reader' = [reader EXCEPT !.pushed = Append(@, link.wire[1].n)]
    BY <1>2, <1>5 DEF Reader!ReadSocket, Reader!Push, Reader!CleanClose
  <2> QED
    BY <1>1, <1>3, <1>5, <2>1, PushStep
<1>6. CASE k \in {"complete", "close"}
  <2>1. Reader!Return(FALSE)
    BY <1>2, <1>6 DEF Reader!ReadSocket, Reader!CleanClose
  <2> QED
    BY <1>1, <1>3, <1>6, <2>1, ItemReturned DEF Ending
<1>7. CASE k \in {"error", "eof", "part"}
  <2>1. Reader!Return(TRUE)
    BY <1>2, <1>7 DEF Reader!ReadSocket, Reader!CleanClose
  <2> QED
    BY <1>1, <2>1, ItemReturned
<1>8. CASE k \in {"ack", "ping", "other"}
  <2>1. UNCHANGED reader
    BY <1>2, <1>8 DEF Reader!ReadSocket, Reader!CleanClose
  <2> QED
    BY <1>1, <1>3, <1>8, <2>1, NoteStep
<1> QED
  BY <1>4, <1>5, <1>6, <1>7, <1>8

LEMMA ReadLinesStep ==
  ASSUME Faithful(link, reader), Reader!ReadLines
  PROVE  Faithful(link', reader')
<1>1. reader.pc = "lines" /\ link.wire # <<>> /\ link' = [link EXCEPT !.wire = Tail(@)]
  BY DEF Reader!ReadLines, Reader!Take, Reader!At
<1>2. link.body = "lines" /\ Reader!Item = link.wire[1] /\ link.wire[1].kind \in SayingsOf(link.body)
  BY <1>1, ItemFacts DEF Faithful, AsOpened
<1> DEFINE k == link.wire[1].kind
<1>3. /\ MessagesOf(link.body) = {"result", "bare", "big"} /\ NotesOf(link.body) = {"blank"}
      /\ EndingsOf(link.body) = {"error", "eof"} /\ (WellEnded(link.body, k) <=> k = "eof")
  BY <1>2 DEF MessagesOf, NotesOf, EndingsOf, WellEnded
<1>4. k \in {"result", "bare", "big", "blank", "error", "eof", "part"}
  BY <1>2, <1>3 DEF SayingsOf
<1>5. CASE k \in {"result", "bare", "part"}
  <2>1. reader' = [reader EXCEPT !.pushed = Append(@, link.wire[1].n)]
    BY <1>2, <1>5 DEF Reader!ReadLines, Reader!Push, Reader!ErrorFrame
  <2> QED
    BY <1>1, <1>3, <1>5, <2>1, PushStep
<1>6. CASE k = "eof"
  <2>1. Reader!Return(FALSE)
    BY <1>2, <1>6 DEF Reader!ReadLines, Reader!ErrorFrame
  <2> QED
    BY <1>1, <1>3, <1>6, <2>1, ItemReturned DEF Ending
<1>7. CASE k \in {"error", "big"}
  <2>1. Reader!Return(TRUE)
    BY <1>2, <1>7 DEF Reader!ReadLines, Reader!ErrorFrame
  <2> QED
    BY <1>1, <2>1, ItemReturned
<1>8. CASE k = "blank"
  <2>1. UNCHANGED reader
    BY <1>2, <1>8 DEF Reader!ReadLines, Reader!ErrorFrame
  <2> QED
    BY <1>1, <1>3, <1>8, <2>1, NoteStep
<1> QED
  BY <1>4, <1>5, <1>6, <1>7, <1>8

LEMMA ReadEnvelopesStep ==
  ASSUME Faithful(link, reader), Reader!ReadEnvelopes
  PROVE  Faithful(link', reader')
<1>1. reader.pc = "envelopes" /\ link.wire # <<>> /\ link' = [link EXCEPT !.wire = Tail(@)]
  BY DEF Reader!ReadEnvelopes, Reader!Take, Reader!At
<1>2. link.body = "envelopes" /\ Reader!Item = link.wire[1]
  BY <1>1, ItemFacts DEF Faithful, AsOpened
<1> DEFINE k == link.wire[1].kind
<1>3. CASE k = "message"
  <2>1. reader' = [reader EXCEPT !.pushed = Append(@, link.wire[1].n)]
    BY <1>2, <1>3 DEF Reader!ReadEnvelopes, Reader!Push, Reader!CleanEnd
  <2>2. k \in MessagesOf(link.body)
    BY <1>2, <1>3 DEF MessagesOf
  <2> QED
    BY <1>1, <2>1, <2>2, PushStep
<1>4. CASE k = "end"
  <2>1. Reader!Return(FALSE)
    BY <1>2, <1>4 DEF Reader!ReadEnvelopes, Reader!CleanEnd
  <2>2. Ending(link, 1) /\ WellEnded(link.body, link.wire[1].kind)
    BY <1>2, <1>4 DEF Ending, EndingsOf, WellEnded
  <2> QED
    BY <1>1, <2>1, <2>2, ItemReturned
<1>5. CASE k \notin {"message", "end"}
  <2>1. Reader!Return(TRUE)
    BY <1>2, <1>5 DEF Reader!ReadEnvelopes, Reader!CleanEnd
  <2> QED
    BY <1>1, <2>1, ItemReturned
<1> QED
  BY <1>3, <1>4, <1>5

(* Every step of the server, the connection and the goroutine keeps the    *)
(* invariant of a reader.                                                  *)
LEMMA FaithfulStep ==
  ASSUME Faithful(link, reader), [Reader!Next]_<<link, reader>>
  PROVE  Faithful(link', reader')
<1>1. CASE UNCHANGED <<link, reader>>
  BY <1>1
<1>2. CASE \E k \in Reader!Messages \union Reader!Notes : Reader!Says(k)
  BY <1>2, ReaderWords, SaysStep
<1>3. CASE \E k \in DOMAIN Reader!Verdicts : Reader!Ends(k)
  BY <1>3, ReaderWords, EndsStep
<1>4. CASE Reader!Breaks
  BY <1>4, BreaksStep
<1>5. CASE Reader!Cancel
  BY <1>5, CancelStep
<1>6. CASE Reader!Watch
  BY <1>6, WatchStep
<1>7. CASE Reader!Reads
  BY <1>7, OpenStep, ReadFailsStep, HandshakeStep, ReadSocketStep, ReadLinesStep, ReadEnvelopesStep DEF Reader!Reads
<1> QED
  BY <1>1, <1>2, <1>3, <1>4, <1>5, <1>6, <1>7 DEF Reader!Next

LEMMA FaithfulInit ==
  ASSUME Reader!Init
  PROVE  Faithful(link, reader)
<1>1. PICK w \in Reader!Wires :
           link = [asked |-> w.asked, body |-> w.body, wire |-> <<>>, up |-> TRUE, said |-> 0, items |-> 0, verdict |-> "open"]
  BY DEF Reader!Init
<1>2. reader = [pc |-> "open", pushed |-> <<>>, end |-> "", cancelled |-> FALSE]
  BY DEF Reader!Init
<1>3. /\ w.asked \in {"graphql", "gateway", "connect"} /\ w.body \in {"socket", "lines", "envelopes", "otherCodec", "compressed"}
      /\ w.asked = "graphql" => w.body = "socket"
  BY DEF Reader!Wires
<1>4. <<>> \in Seq(Wire) /\ <<>> \in Seq(Nat)
  BY EmptySeq
<1>5. link \in Link /\ reader \in Goroutine
  BY <1>1, <1>2, <1>3, <1>4 DEF Link, Goroutine
<1>6. Len(link.wire) = 0 /\ Len(reader.pushed) = 0
  BY <1>1, <1>2, EmptySeq
<1>7. AsOpened(link, reader)
  BY <1>1, <1>2, <1>3, <1>6 DEF AsOpened
<1>8. Travels(link, reader.pushed) /\ Open(link, reader.pushed) /\ Whole(link, reader.pushed)
  BY <1>1, <1>6 DEF Travels, Open, Whole
<1> QED
  BY <1>2, <1>5, <1>7, <1>8 DEF Faithful, Reading, HasRead

LEMMA FaithfulReaders ==
  ASSUME Faithful(link, reader)
  PROVE  Reader!ReadersTrue
<1> DEFINE p == reader.pushed
<1>1. p \in Seq(Nat) /\ DOMAIN p = 1 .. Len(p) /\ Len(p) \in Nat /\ link.said \in Nat
  BY LenProperties DEF Faithful, Goroutine, Link
<1>2. CASE reader.pc = "over"
  <2>1. /\ \A i \in 1 .. Len(p) : p[i] = i \/ (p[i] = 0 /\ i = Len(p) /\ reader.end # "ended")
        /\ reader.end = "ended" => link.verdict = "done" /\ Len(p) = link.said
    BY <1>2 DEF Faithful, HasRead
  <2>2. ASSUME reader.end = "ended"
        PROVE  p = [i \in 1 .. link.said |-> i]
    <3>1. \A i \in 1 .. Len(p) : p[i] = i
      BY <2>1, <2>2
    <3>2. p = [i \in 1 .. Len(p) |-> p[i]]
      BY <1>1
    <3> HIDE DEF p
    <3> QED
      BY <2>1, <2>2, <3>1, <3>2
  <2> QED
    BY <1>1, <2>1, <2>2 DEF Reader!ReadersTrue, Reader!FramesTrue, Reader!EndTrue
<1>3. CASE reader.pc # "over"
  <2>1. reader.end = "" /\ Whole(link, p)
    BY <1>3 DEF Faithful, Reading
  <2> QED
    BY <1>1, <2>1 DEF Whole, Reader!ReadersTrue, Reader!FramesTrue, Reader!EndTrue
<1> QED
  BY <1>2, <1>3

-----------------------------------------------------------------------------
(* Stream sessions. *)

Frame == [seq : Nat, size : Nat]

Reasons == {"cancelled", "error", "ended", "stopped", "expired", "closed"}

StreamSession ==
    [frames : Seq(Frame), nextSeq : Nat, cursor : Nat, dropped : Nat, done : BOOLEAN, reason : Reasons \union {""},
     idle : Nat, age : Nat, cancelled : BOOLEAN, running : BOOLEAN]

Answer == [before : Seq(Frame), told : Nat, frames : Seq(Frame), left : Seq(Frame)]

Received == [polled : Seq(Frame), drops : Nat, stops : SUBSET Answer]

User == [op : {"none", "poll", "cancel", "finish", "report"}, id : Ids \union {NoSession}]

Closing == [todo : SUBSET Ids, at : Ids \union {NoSession}]

Room(l, fs) == Len(fs) <= l.maxFrames /\ (Stream!Bytes(fs) <= MaxBytes \/ Len(fs) = 1)

(* The frames of the ring are the newest ones, without a gap.              *)
Contiguous(s) ==
    /\ Len(s.frames) <= s.nextSeq /\ s.cursor <= s.nextSeq
    /\ \A k \in 1 .. Len(s.frames) : s.frames[k].seq = s.nextSeq - Len(s.frames) + k - 1

Ring(l, s) == Contiguous(s) /\ (s.frames # <<>> => Room(l, s.frames))

(* How many frames of the ring have not been polled.                       *)
Left(s) == IF s.cursor <= s.nextSeq - Len(s.frames) THEN Len(s.frames) ELSE s.nextSeq - s.cursor

Ledger(s, g) ==
    /\ \A k \in 1 .. Len(g.polled) : g.polled[k].seq < s.cursor
    /\ \A k \in 1 .. (Len(g.polled) - 1) : g.polled[k].seq < g.polled[k + 1].seq
    /\ s.nextSeq = Len(g.polled) + g.drops + s.dropped + Left(s)

(* What Stop answered is what polls have had and may still have.           *)
Answers(l, s, g) ==
    \A a \in g.stops :
        /\ s.done
        /\ g.polled \o Stream!Unread(s) = a.before \o (a.frames \o a.left)
        /\ g.drops + s.dropped = a.told
        /\ a.left # <<>> => ~(Len(a.frames) < l.pollFrames
                               /\ Stream!Bytes(a.frames \o <<a.left[1]>>) <= PollBytes)

Begun(s) == s.running \/ s.done

(* A session that is done while its reader runs on is cancelled.           *)
Life(s) ==
    /\ s.done <=> s.reason # ""
    /\ s.running /\ s.done => s.cancelled
    /\ ~Begun(s) => s = Stream!Fresh

Good(l, s, g) ==
    s \in StreamSession /\ g \in Received /\ Ring(l, s) /\ Ledger(s, g) /\ Answers(l, s, g) /\ Life(s)

(* What a session does not take back. *)
Follows(s, t) ==
    /\ s.done => t.done /\ t.reason = s.reason
    /\ s.cancelled => t.cancelled
    /\ Begun(s) => Begun(t)

Sessions ==
    /\ limits \in Limits /\ caller \in [Callers -> User]
    /\ sess \in [Ids -> StreamSession] /\ got \in [Ids -> Received]
    /\ \A i \in Ids : Good(limits, sess[i], got[i])

Tabled ==
    /\ table \subseteq Ids /\ \A i \in table : Begun(sess[i])
    /\ IsFiniteSet(Stream!LiveOnes) /\ Cardinality(Stream!LiveOnes) <= MaxSessions

Using ==
    /\ \A c \in Callers : caller[c].op # "none" => caller[c].id \in Ids /\ Begun(sess[caller[c].id])
    /\ \A c \in Callers : caller[c].op = "finish" => sess[caller[c].id].cancelled
    /\ \A c \in Callers : caller[c].op = "report" => sess[caller[c].id].done
    /\ closing \in Closing /\ \A i \in closing.todo : Begun(sess[i])
    /\ closing.at # NoSession => sess[closing.at].cancelled /\ Begun(sess[closing.at])
    /\ Stream!NoOrphan

Streaming == Sessions /\ Tabled /\ Using

-----------------------------------------------------------------------------
(* The operators of a session. *)

(* The limits are numbers, and a ring has room for a frame. *)
LEMMA LimitFacts ==
  ASSUME limits \in Limits
  PROVE  /\ limits.maxFrames \in Nat \ {0} /\ limits.maxLifetime \in Nat /\ limits.pollFrames \in Nat
         /\ limits.sizes \subseteq Nat /\ MarkerBytes \in Nat
         /\ MaxSessions \in Nat /\ MaxBytes \in Nat /\ MaxFrameBytes \in Nat /\ PollBytes \in Nat /\ IdleTTL \in Nat
  BY StreamAssumption

(* The sessions' copy of Chosen is Ordered's. *)
LEMMA StreamChosen ==
  ASSUME NEW S, NEW ts
  PROVE  Stream!Chosen(ts, S) = [n \in 1 .. Cardinality(S) |-> ts[InOrder(S)[n]]]
<1>1. \A T : Stream!Cardinality(T) = Cardinality(T)
  BY DEF Stream!Cardinality, Cardinality
<1>2. Stream!InOrder(S) = InOrder(S)
  <2> DEFINE before(i) == {j \in S : j < i}
  <2>1. ASSUME NEW n
        PROVE  (CHOOSE i \in S : Stream!Cardinality(before(i)) = n - 1) = CHOOSE i \in S : Cardinality(before(i)) = n - 1
    <3> HIDE DEF before
    <3>1. \A i : (Stream!Cardinality(before(i)) = n - 1) <=> (Cardinality(before(i)) = n - 1)
      BY <1>1
    <3> QED
      BY <3>1, Zenon
  <2>2. Stream!InOrder(S) = [n \in 1 .. Stream!Cardinality(S) |-> CHOOSE i \in S : Stream!Cardinality(before(i)) = n - 1]
    BY DEF Stream!InOrder
  <2>3. InOrder(S) = [n \in 1 .. Cardinality(S) |-> CHOOSE i \in S : Cardinality(before(i)) = n - 1]
    BY DEF InOrder
  <2> HIDE DEF before
  <2> QED
    BY <1>1, <2>1, <2>2, <2>3
<1> QED
  BY <1>1, <1>2 DEF Stream!Chosen

(* The numbers of an interval in their order. *)
LEMMA IntervalInOrder ==
  ASSUME NEW a \in Nat, NEW b \in Nat, a <= b + 1
  PROVE  /\ Cardinality(a .. b) = b - a + 1
         /\ \A n \in 1 .. (b - a + 1) : InOrder(a .. b)[n] = a + n - 1
<1>1. IsFiniteSet(a .. b) /\ Cardinality(a .. b) = b - a + 1 /\ a .. b \in SUBSET Nat
  BY FS_Interval
<1>2. ASSUME NEW n \in 1 .. (b - a + 1)
      PROVE  InOrder(a .. b)[n] = a + n - 1
  <2> DEFINE x == InOrder(a .. b)[n]
  <2>1. x \in a .. b /\ Cardinality({j \in a .. b : j < x}) = n - 1
    BY <1>1, InOrderFacts
  <2> HIDE DEF x
  <2>2. {j \in a .. b : j < x} = a .. (x - 1)
    BY <2>1
  <2>3. Cardinality(a .. (x - 1)) = x - a
    <3>1. x \in Int /\ x - 1 \in Int /\ a \in Int /\ a <= x
      BY <2>1
    <3>2. Cardinality(a .. (x - 1)) = IF a > x - 1 THEN 0 ELSE (x - 1) - a + 1
      BY <3>1, FS_Interval
    <3> QED
      BY <3>1, <3>2
  <2> DEFINE B == {j \in a .. b : j < x}
  <2>4. Cardinality(B) = n - 1 /\ Cardinality(B) = x - a /\ x \in Int
    <3>1. Cardinality(B) = n - 1 /\ x \in Int
      BY <2>1
    <3>2. B = a .. (x - 1)
      BY <2>2
    <3> QED
      BY <2>3, <3>1, <3>2
  <2>5. x = a + n - 1
    <3> HIDE DEF B
    <3> QED
      BY <2>4
  <2> QED
    BY <2>5 DEF x
<1> QED
  BY <1>1, <1>2

(* The unread frames are the last ones of the ring. *)
LEMMA UnreadFacts ==
  ASSUME NEW s \in StreamSession, Contiguous(s)
  PROVE  /\ Stream!Unread(s) \in Seq(Frame) /\ Len(Stream!Unread(s)) = Left(s) /\ Left(s) \in 0 .. Len(s.frames)
         /\ \A j \in 1 .. Left(s) : /\ Stream!Unread(s)[j].seq = s.nextSeq - Left(s) + j - 1
                                    /\ Stream!Unread(s)[j] = s.frames[Len(s.frames) - Left(s) + j]
<1> DEFINE fs == s.frames
           L == Len(fs)
           K == {k \in DOMAIN fs : fs[k].seq >= s.cursor}
           a == L - Left(s) + 1
           u == Stream!Unread(s)
<1>1. fs \in Seq(Frame) /\ L \in Nat /\ DOMAIN fs = 1 .. L /\ s.nextSeq \in Nat /\ s.cursor \in Nat
  BY LenProperties DEF StreamSession
<1>2. Left(s) \in 0 .. L /\ a \in Nat /\ a <= L + 1 /\ a >= 1
  BY <1>1 DEF Left, Contiguous
<1>3. \A k \in 1 .. L : fs[k].seq = s.nextSeq - L + k - 1
  BY DEF Contiguous
<1> HIDE DEF L, fs
<1>4. K = a .. L
  <2>1. ASSUME NEW k \in 1 .. L
        PROVE  s.nextSeq - L + k - 1 >= s.cursor <=> k >= a
    BY <1>1 DEF Left, Contiguous, L, fs
  <2>2. K = {k \in 1 .. L : k >= a}
    BY <1>1, <1>3, <2>1
  <2> HIDE DEF a
  <2>3. {k \in 1 .. L : k >= a} = a .. L
    BY <1>1, <1>2
  <2> QED
    BY <2>2, <2>3
<1>5. u = [n \in 1 .. Cardinality(K) |-> fs[InOrder(K)[n]]]
  BY StreamChosen DEF Stream!Unread, fs
<1>6. Cardinality(K) = Left(s) /\ \A n \in 1 .. Left(s) : InOrder(K)[n] = a + n - 1
  <2>1. L - a + 1 = Left(s)
    BY <1>1, <1>2
  <2> HIDE DEF a
  <2> QED
    <3>1. Cardinality(a .. L) = L - a + 1 /\ \A n \in 1 .. (L - a + 1) : InOrder(a .. L)[n] = a + n - 1
      BY <1>1, <1>2, IntervalInOrder
    <3> HIDE DEF K
    <3> QED
      BY <1>4, <2>1, <3>1
<1>7. \A n \in 1 .. Left(s) : a + n - 1 \in 1 .. L
  BY <1>1, <1>2
<1>8. u = [n \in 1 .. Left(s) |-> fs[a + n - 1]]
  <2> HIDE DEF K, a, u
  <2> QED
    BY <1>5, <1>6
<1>9. \A n \in 1 .. Left(s) : fs[a + n - 1] \in Frame
  BY <1>1, <1>7, ElementOfSeq DEF L
<1>10. u \in Seq(Frame) /\ Len(u) = Left(s)
  <2> HIDE DEF a, u
  <2> QED
    BY <1>2, <1>8, <1>9, IsASeq
<1>12. ASSUME NEW j \in 1 .. Left(s)
       PROVE  u[j] = fs[L - Left(s) + j]
  <2>1. u[j] = fs[a + j - 1]
    BY <1>8
  <2>2. a + j - 1 = L - Left(s) + j
    BY <1>1, <1>2
  <2> HIDE DEF a, u
  <2> QED
    BY <2>1, <2>2
<1>11. ASSUME NEW j \in 1 .. Left(s)
       PROVE  u[j].seq = s.nextSeq - Left(s) + j - 1
  <2>1. u[j] = fs[a + j - 1] /\ a + j - 1 \in 1 .. L
    BY <1>7, <1>8
  <2>2. u[j].seq = s.nextSeq - L + (a + j - 1) - 1
    BY <1>3, <2>1
  <2> HIDE DEF u
  <2>3. \A x \in Nat : x - L + (a + j - 1) - 1 = x - Left(s) + j - 1
    BY <1>1, <1>2, SMTT(20)
  <2> QED
    BY <1>1, <2>2, <2>3
<1> QED
  BY <1>2, <1>10, <1>11, <1>12 DEF L, fs

(* Eviction stops at the last frame. *)
LEMMA EvictedFacts ==
  ASSUME limits \in Limits, NEW fs \in Seq(Frame), Len(fs) # 0
  PROVE  /\ Stream!Evicted(fs) \in 0 .. (Len(fs) - 1)
         /\ Room(limits, SubSeq(fs, Stream!Evicted(fs) + 1, Len(fs)))
<1> DEFINE N == Len(fs)
           Fine(n) == Stream!Fits(SubSeq(fs, n + 1, N))
           S == {n \in 0 .. N : Fine(n)}
           P(n) == n \in 0 .. N /\ Fine(n) /\ \A k \in 0 .. (n - 1) : ~Fine(k)
           e == Stream!Evicted(fs)
<1>1. N \in Nat \ {0} /\ N - 1 \in 0 .. N
  BY LenProperties
<1>2. \A gs : Stream!Fits(gs) <=> Room(limits, gs)
  BY DEF Stream!Fits, Stream!MaxFrames, Room
<1>3. Fine(N - 1)
  <2>1. N \in N .. N /\ (N - 1) + 1 = N /\ N \in Int /\ \A i \in N .. N : fs[i] \in Frame
    BY <1>1, ElementOfSeq
  <2> HIDE DEF N
  <2>2. Len(SubSeq(fs, N, N)) = 1
    BY <2>1, SubSeqProperties
  <2>3. Room(limits, SubSeq(fs, N, N))
    BY <2>2, LimitFacts DEF Room
  <2> QED
    BY <1>2, <2>1, <2>3
<1> HIDE DEF Fine
<1>4. S \in SUBSET Nat /\ N - 1 \in S
  BY <1>1, <1>3
<1> HIDE DEF N
<1>5. \E n : P(n)
  <2>1. PICK x \in S : \A y \in S : x <= y
    BY <1>4, LeastNumber
  <2>2. ASSUME NEW k \in 0 .. (x - 1), Fine(k)
        PROVE  FALSE
    <3>1. k \in S /\ x \in Nat /\ k < x
      BY <1>1, <1>4, <2>2
    <3> QED
      BY <2>1, <3>1
  <2> QED
    BY <2>1, <2>2
<1>6. e = CHOOSE n \in 0 .. N : Fine(n) /\ \A k \in 0 .. (n - 1) : ~Fine(k)
  BY DEF Stream!Evicted, Fine, N
<1>7. P(e)
  <2> HIDE DEF e
  <2> QED
    BY <1>5, <1>6, Zenon
<1>8. e # N
  <2> HIDE DEF e
  <2>1. ASSUME e = N
        PROVE  FALSE
    <3>1. N - 1 \in 0 .. (e - 1)
      BY <1>1, <2>1
    <3> QED
      BY <1>3, <1>7, <3>1
  <2> QED
    BY <2>1
<1>9. e \in 0 .. (N - 1)
  <2> HIDE DEF e
  <2> QED
    BY <1>1, <1>7, <1>8
<1>10. Room(limits, SubSeq(fs, e + 1, N))
  BY <1>2, <1>7 DEF Fine
<1> QED
  BY <1>9, <1>10 DEF N

Consecutive(fs, m, f) == \A k \in 1 .. m : fs[k].seq = f + k - 1

(* The count of the frames that were never polled, and of them the evicted. *)
LEMMA LostFacts ==
  ASSUME NEW fs, NEW m \in Nat, NEW n \in 0 .. m, NEW f \in Int, NEW c \in Nat,
         Consecutive(fs, m, f)
  PROVE  Stream!Lost(fs, n, c) = IF c <= f THEN n ELSE IF c <= f + n THEN f + n - c ELSE 0
<1> DEFINE K == {k \in 1 .. n : fs[k].seq >= c}
<1>1. Stream!Lost(fs, n, c) = Cardinality(K)
  BY DEF Stream!Lost, Stream!Cardinality, Cardinality
<1>2. K = {k \in 1 .. n : f + k - 1 >= c}
  <2>1. \A k \in 1 .. n : k \in 1 .. m
    OBVIOUS
  <2> QED
    BY <2>1 DEF Consecutive
<1> DEFINE a == IF c <= f THEN 1 ELSE c - f + 1
<1>3. a \in Nat /\ n \in Nat /\ \A k \in 1 .. n : f + k - 1 >= c <=> k >= a
  OBVIOUS
<1>4. K = a .. n
  <2>1. K = {k \in 1 .. n : k >= a}
    BY <1>2, <1>3
  <2>2. a >= 1
    OBVIOUS
  <2> HIDE DEF a, K
  <2> QED
    BY <1>3, <2>1, <2>2
<1>5. Cardinality(a .. n) = IF a > n THEN 0 ELSE n - a + 1
  <2> HIDE DEF a
  <2> QED
    BY <1>3, FS_Interval
<1>6. Stream!Lost(fs, n, c) = IF a > n THEN 0 ELSE n - a + 1
  <2> HIDE DEF a, K
  <2> QED
    BY <1>1, <1>4, <1>5
<1> QED
  BY <1>6

(* A pushed frame: what is evicted for it counts as dropped if unread.     *)
LEMMA PushedFacts ==
  ASSUME limits \in Limits, NEW s \in StreamSession, NEW g \in Received, Ring(limits, s), Ledger(s, g), NEW size \in Nat
  PROVE  LET t == Stream!Pushed(s, size)
         IN  /\ t \in StreamSession /\ Ring(limits, t) /\ Ledger(t, g)
             /\ t.done = s.done /\ t.reason = s.reason /\ t.cancelled = s.cancelled /\ t.running = s.running
<1> DEFINE f  == [seq |-> s.nextSeq, size |-> Stream!Truncated(size)]
           fs == Append(s.frames, f)
           n  == Stream!Evicted(fs)
           gs == SubSeq(fs, n + 1, Len(fs))
           L  == Len(s.frames)
           d  == Stream!Lost(fs, n, s.cursor)
           t  == Stream!Pushed(s, size)
<1>1. t = [s EXCEPT !.frames = gs, !.nextSeq = s.nextSeq + 1, !.dropped = s.dropped + d]
  BY DEF Stream!Pushed
<1>2. /\ s.frames \in Seq(Frame) /\ L \in Nat /\ s.nextSeq \in Nat /\ s.cursor \in Nat /\ s.dropped \in Nat
      /\ L <= s.nextSeq /\ s.cursor <= s.nextSeq /\ \A k \in 1 .. L : s.frames[k].seq = s.nextSeq - L + k - 1
  BY LenProperties DEF StreamSession, Ring, Contiguous
<1>3. f \in Frame /\ f.seq = s.nextSeq
  <2>1. Stream!Truncated(size) \in Nat
    BY LimitFacts DEF Stream!Truncated
  <2> QED
    BY <1>2, <2>1 DEF Frame
<1> HIDE DEF f, L
<1>4. /\ fs \in Seq(Frame) /\ Len(fs) = L + 1 /\ fs[L + 1] = f /\ \A k \in 1 .. L : fs[k] = s.frames[k]
  BY <1>2, <1>3, AppendProperties DEF L
<1> HIDE DEF fs
<1>5. \A k \in 1 .. (L + 1) : fs[k].seq = s.nextSeq - L + k - 1
  <2> SUFFICES ASSUME NEW k \in 1 .. (L + 1)
               PROVE  fs[k].seq = s.nextSeq - L + k - 1
    OBVIOUS
  <2>1. CASE k = L + 1
    BY <1>2, <1>3, <1>4, <2>1
  <2>2. CASE k \in 1 .. L
    BY <1>2, <1>4, <2>2
  <2> QED
    BY <1>2, <2>1, <2>2
<1>6. n \in 0 .. L /\ Room(limits, gs)
  <2>1. Len(fs) # 0 /\ Len(fs) - 1 = L
    BY <1>2, <1>4
  <2> QED
    BY <1>4, <2>1, EvictedFacts
<1> HIDE DEF n
<1>7. /\ gs \in Seq(Frame) /\ Len(gs) = L + 1 - n /\ \A i \in 1 .. (L + 1 - n) : gs[i] = fs[n + i]
  <2>1. n + 1 \in Int /\ L + 1 \in Int /\ n + 1 <= L + 1 /\ (L + 1) - (n + 1) + 1 = L + 1 - n
    BY <1>2, <1>6
  <2>2. \A i \in (n + 1) .. (L + 1) : fs[i] \in Frame
    BY <1>2, <1>4, <1>6, ElementOfSeq
  <2>3. gs = SubSeq(fs, n + 1, L + 1)
    BY <1>4
  <2> HIDE DEF gs
  <2>4. /\ gs \in Seq(Frame) /\ Len(gs) = L + 1 - n /\ \A i \in 1 .. (L + 1 - n) : gs[i] = fs[(n + 1) + i - 1]
    BY <2>1, <2>2, <2>3, SubSeqProperties
  <2>5. \A i \in 1 .. (L + 1 - n) : (n + 1) + i - 1 = n + i
    BY <1>2, <1>6
  <2> QED
    BY <2>4, <2>5
<1> HIDE DEF gs
<1>8. \A i \in 1 .. (L + 1 - n) : gs[i].seq = (s.nextSeq + 1) - (L + 1 - n) + i - 1
  <2> SUFFICES ASSUME NEW i \in 1 .. (L + 1 - n)
               PROVE  gs[i].seq = (s.nextSeq + 1) - (L + 1 - n) + i - 1
    OBVIOUS
  <2>1. n + i \in 1 .. (L + 1) /\ gs[i] = fs[n + i]
    BY <1>2, <1>6, <1>7
  <2>2. gs[i].seq = s.nextSeq - L + (n + i) - 1
    BY <1>5, <2>1
  <2> QED
    BY <1>2, <1>6, <2>2
<1> DEFINE b == s.nextSeq - L
<1>9. d = IF s.cursor <= b THEN n ELSE IF s.cursor <= b + n THEN b + n - s.cursor ELSE 0
  <2> DEFINE m == L + 1
  <2>1. b \in Int /\ m \in Nat /\ n \in 0 .. m /\ s.cursor \in Nat
    BY <1>2, <1>6
  <2>2. Consecutive(fs, m, b)
    BY <1>5 DEF Consecutive
  <2> HIDE DEF b, m
  <2>3. Stream!Lost(fs, n, s.cursor) = IF s.cursor <= b THEN n ELSE IF s.cursor <= b + n THEN b + n - s.cursor ELSE 0
    BY <2>1, <2>2, LostFacts
  <2> QED
    BY <2>3
<1> HIDE DEF d
<1>10. d \in Nat
  BY <1>2, <1>6, <1>9
<1>11. /\ t \in StreamSession /\ t.frames = gs /\ t.nextSeq = s.nextSeq + 1 /\ t.cursor = s.cursor
       /\ t.dropped = s.dropped + d
       /\ t.done = s.done /\ t.reason = s.reason /\ t.cancelled = s.cancelled /\ t.running = s.running
  <2>1. s.nextSeq + 1 \in Nat /\ s.dropped + d \in Nat
    BY <1>2, <1>10
  <2> DEFINE q == s.nextSeq + 1
             e == s.dropped + d
  <2>2. t = [s EXCEPT !.frames = gs, !.nextSeq = q, !.dropped = e]
    BY <1>1
  <2>3. q \in Nat /\ e \in Nat
    BY <2>1
  <2> HIDE DEF q, e, t
  <2>4. /\ t \in StreamSession /\ t.frames = gs /\ t.nextSeq = q /\ t.cursor = s.cursor /\ t.dropped = e
        /\ t.done = s.done /\ t.reason = s.reason /\ t.cancelled = s.cancelled /\ t.running = s.running
    BY <1>7, <2>2, <2>3 DEF StreamSession
  <2> QED
    BY <2>4 DEF q, e
<1> HIDE DEF t
<1>12. Ring(limits, t)
  <2>1. Len(t.frames) = L + 1 - n /\ L + 1 - n <= s.nextSeq + 1 /\ s.cursor <= s.nextSeq + 1
    BY <1>2, <1>6, <1>7, <1>11
  <2>2. \A k \in 1 .. Len(t.frames) : t.frames[k].seq = t.nextSeq - Len(t.frames) + k - 1
    BY <1>8, <1>11, <2>1
  <2>3. Contiguous(t)
    BY <1>11, <2>1, <2>2 DEF Contiguous
  <2> QED
    BY <1>6, <1>11, <2>3 DEF Ring
<1>13. Ledger(t, g)
  <2>1. Left(t) = IF s.cursor <= (s.nextSeq + 1) - (L + 1 - n) THEN L + 1 - n ELSE (s.nextSeq + 1) - s.cursor
    BY <1>7, <1>11 DEF Left
  <2>2. Left(s) = IF s.cursor <= s.nextSeq - L THEN L ELSE s.nextSeq - s.cursor
    BY DEF Left, L
  <2> DEFINE x == Left(s)
             y == Left(t)
             c == s.cursor
             N == s.nextSeq
  <2>7. /\ x = IF c <= N - L THEN L ELSE N - c
        /\ y = IF c <= (N + 1) - (L + 1 - n) THEN L + 1 - n ELSE (N + 1) - c
        /\ d = IF c <= N - L THEN n ELSE IF c <= N - L + n THEN N - L + n - c ELSE 0
        /\ c \in Nat /\ N \in Nat /\ L \in Nat /\ n \in 0 .. L /\ L <= N /\ c <= N
    BY <1>2, <1>6, <1>9, <2>1, <2>2
  <2>3. d + Left(t) = Left(s) + 1 /\ Left(s) \in Nat /\ Left(t) \in Nat
    <3> HIDE DEF x, y, c, N
    <3>1. ASSUME c <= N - L PROVE d + y = x + 1 /\ x \in Nat /\ y \in Nat
      BY <2>7, <3>1
    <3>2. ASSUME ~(c <= N - L) /\ c <= N - L + n PROVE d + y = x + 1 /\ x \in Nat /\ y \in Nat
      BY <2>7, <3>2
    <3>3. ASSUME ~(c <= N - L + n) PROVE d + y = x + 1 /\ x \in Nat /\ y \in Nat
      BY <2>7, <3>3
    <3>4. d + y = x + 1 /\ x \in Nat /\ y \in Nat
      BY <2>7, <3>1, <3>2, <3>3
    <3> QED
      BY <3>4 DEF x, y
  <2>4. Len(g.polled) \in Nat /\ g.drops \in Nat
    BY LenProperties DEF Received
  <2>5. s.nextSeq = Len(g.polled) + g.drops + s.dropped + Left(s)
    BY DEF Ledger
  <2>6. t.nextSeq = Len(g.polled) + g.drops + t.dropped + Left(t)
    <3>1. s.nextSeq + 1 = Len(g.polled) + g.drops + (s.dropped + d) + Left(t)
      <4> DEFINE a == Len(g.polled)
                 o == g.drops
                 z == s.dropped
      <4>1. a \in Nat /\ o \in Nat /\ z \in Nat /\ d \in Nat /\ N \in Nat /\ N = a + o + z + x /\ d + y = x + 1
            /\ x \in Nat /\ y \in Nat
        BY <1>2, <1>10, <2>3, <2>4, <2>5
      <4> HIDE DEF a, o, z, x, y, N
      <4>2. N + 1 = a + o + (z + d) + y
        BY <4>1
      <4> QED
        BY <4>2 DEF a, o, z, x, y, N
    <3> QED
      BY <1>11, <3>1
  <2> QED
    BY <1>11, <2>6 DEF Ledger
<1> QED
  BY <1>11, <1>12, <1>13 DEF t

(* A poll takes the unread frames up to one it has no room for.            *)
LEMMA TakenFacts ==
  ASSUME NEW s \in StreamSession, Contiguous(s), NEW max \in Nat
  PROVE  \E n \in 0 .. Left(s) :
            /\ Stream!Taken(s, max) \in Seq(Frame) /\ Len(Stream!Taken(s, max)) = n
            /\ Stream!Taken(s, max) = SubSeq(Stream!Unread(s), 1, n)
            /\ \A j \in 1 .. n : Stream!Taken(s, max)[j].seq = s.nextSeq - Left(s) + j - 1
            /\ n < Left(s) => ~(n < max
                                /\ Stream!Bytes(SubSeq(Stream!Unread(s), 1, n + 1)) <= PollBytes)
<1> DEFINE u == Stream!Unread(s)
           N == Left(s)
           Ok(n) == n <= max /\ \A k \in 1 .. n : Stream!Bytes(SubSeq(u, 1, k)) <= PollBytes
           P(n) == n \in 0 .. N /\ Ok(n) /\ \A k \in (n + 1) .. N : ~Ok(k)
           T == {m \in 0 .. N : Ok(N - m)}
           e == CHOOSE n \in 0 .. Len(u) : Ok(n) /\ \A k \in (n + 1) .. Len(u) : ~Ok(k)
<1>1. /\ u \in Seq(Frame) /\ Len(u) = N /\ N \in Nat
      /\ \A j \in 1 .. N : u[j].seq = s.nextSeq - N + j - 1
  <2>1. Len(s.frames) \in Nat
    BY LenProperties DEF StreamSession
  <2> QED
    BY <2>1, UnreadFacts
<1>2. Ok(0)
  OBVIOUS
<1>3. Stream!Taken(s, max) = SubSeq(u, 1, e)
  BY DEF Stream!Taken
<1> HIDE DEF u, N, Ok
<1>4. \E n : P(n)
  <2>1. N \in T /\ T \in SUBSET Nat
    <3>1. N - N = 0
      BY <1>1
    <3> QED
      BY <1>1, <1>2, <3>1
  <2>2. PICK x \in T : \A y \in T : x <= y
    BY <2>1, LeastNumber
  <2>3. x \in 0 .. N /\ Ok(N - x) /\ N - x \in 0 .. N
    BY <1>1, <2>2
  <2>4. ASSUME NEW k \in ((N - x) + 1) .. N, Ok(k)
        PROVE  FALSE
    <3>1. N - k \in 0 .. N /\ N - (N - k) = k /\ N - k < x
      BY <1>1, <2>3, <2>4
    <3> DEFINE y == N - k
    <3>2. y \in T
      BY <2>4, <3>1
    <3>3. y \in Nat /\ x \in Nat /\ y < x /\ x <= y
      BY <2>1, <2>2, <3>1, <3>2
    <3> HIDE DEF y
    <3> QED
      BY <3>3
  <2> QED
    BY <2>3, <2>4
<1>5. P(e)
  <2>1. e = CHOOSE n \in 0 .. N : Ok(n) /\ \A k \in (n + 1) .. N : ~Ok(k)
    BY <1>1
  <2> HIDE DEF e
  <2> QED
    BY <1>4, <2>1, Zenon
<1> HIDE DEF e
<1>6. \A k \in 1 .. e : u[k] \in Frame
  <2>1. \A k \in 1 .. e : k \in 1 .. Len(u)
    BY <1>1, <1>5
  <2> QED
    BY <1>1, <2>1, ElementOfSeq
<1> DEFINE v == SubSeq(u, 1, e)
<1>7. v \in Seq(Frame) /\ Len(v) = e /\ \A j \in 1 .. e : v[j] = u[j]
  <2>1. e \in Nat /\ 1 <= e + 1
    BY <1>1, <1>5
  <2>2. v \in Seq(Frame) /\ Len(v) = (IF 1 <= e THEN e - 1 + 1 ELSE 0)
        /\ \A j \in 1 .. e - 1 + 1 : v[j] = u[1 + j - 1]
    BY <1>6, <2>1, SubSeqProperties
  <2> HIDE DEF v
  <2> QED
    BY <2>1, <2>2
<1>8. \A j \in 1 .. e : j \in 1 .. N
  BY <1>1, <1>5
<1>9. Stream!Taken(s, max) = v
  BY <1>3
<1> HIDE DEF v
<1>10. v \in Seq(Frame) /\ Len(v) = e /\ \A j \in 1 .. e : v[j].seq = s.nextSeq - N + j - 1
  BY <1>1, <1>7, <1>8
<1>11. \A j \in 1 .. e : Stream!Taken(s, max)[j].seq = s.nextSeq - N + j - 1
  BY <1>9, <1>10
<1>12. ASSUME e < N, e < max, Stream!Bytes(SubSeq(u, 1, e + 1)) <= PollBytes
       PROVE  FALSE
  <2>1. e + 1 \in (e + 1) .. N /\ e + 1 <= max /\ e \in Nat
    BY <1>1, <1>5, <1>12
  <2>2. \A k \in 1 .. e : Stream!Bytes(SubSeq(u, 1, k)) <= PollBytes
    BY <1>5 DEF Ok
  <2>3. \A k \in 1 .. (e + 1) : k \in 1 .. e \/ k = e + 1
    BY <2>1
  <2>4. Ok(e + 1)
    BY <1>12, <2>1, <2>2, <2>3 DEF Ok
  <2> QED
    BY <1>5, <2>1, <2>4
<1> DEFINE w == Stream!Taken(s, max)
<1>13. /\ w \in Seq(Frame) /\ Len(w) = e /\ w = SubSeq(u, 1, e)
       /\ \A j \in 1 .. e : w[j].seq = s.nextSeq - N + j - 1
       /\ e < N => ~(e < max /\ Stream!Bytes(SubSeq(u, 1, e + 1)) <= PollBytes)
  BY <1>3, <1>9, <1>10, <1>11, <1>12
<1>14. e \in 0 .. N
  BY <1>5
<1> HIDE DEF w
<1>15. \E n \in 0 .. N :
          /\ w \in Seq(Frame) /\ Len(w) = n
          /\ w = SubSeq(u, 1, n)
          /\ \A j \in 1 .. n : w[j].seq = s.nextSeq - N + j - 1
          /\ n < N => ~(n < max /\ Stream!Bytes(SubSeq(u, 1, n + 1)) <= PollBytes)
  BY <1>13, <1>14
<1> QED
  BY <1>15 DEF N, u, w

(* A session after a poll, and what was received of it by then.            *)
PolledBy(s, max) == [s EXCEPT !.idle = 0, !.dropped = 0, !.cursor = Stream!Cursor(s, Stream!Taken(s, max))]

Receives(g, s, max) == [g EXCEPT !.polled = @ \o Stream!Taken(s, max), !.drops = @ + s.dropped]

(* A poll: what it takes follows what was polled before.                   *)
LEMMA PollFacts ==
  ASSUME limits \in Limits, NEW s \in StreamSession, NEW g \in Received, Ring(limits, s), Ledger(s, g),
         NEW max \in Nat
  PROVE  /\ PolledBy(s, max) \in StreamSession /\ Receives(g, s, max) \in Received
         /\ Ring(limits, PolledBy(s, max)) /\ Ledger(PolledBy(s, max), Receives(g, s, max))
         /\ Receives(g, s, max).polled \o Stream!Unread(PolledBy(s, max)) = g.polled \o Stream!Unread(s)
         /\ Receives(g, s, max).drops + PolledBy(s, max).dropped = g.drops + s.dropped
         /\ Receives(g, s, max).stops = g.stops
         /\ PolledBy(s, max).done = s.done /\ PolledBy(s, max).reason = s.reason
         /\ PolledBy(s, max).cancelled = s.cancelled /\ PolledBy(s, max).running = s.running
<1> DEFINE t == PolledBy(s, max)
           h == Receives(g, s, max)
           u == Stream!Taken(s, max)
           N == s.nextSeq
           L == Len(s.frames)
           x == Left(s)
           p == g.polled
           c == Stream!Cursor(s, u)
<1>1. /\ L \in Nat /\ N \in Nat /\ s.cursor \in Nat /\ s.dropped \in Nat /\ g.drops \in Nat
      /\ p \in Seq(Frame) /\ Len(p) \in Nat /\ L <= N /\ s.cursor <= N
      /\ x = IF s.cursor <= N - L THEN L ELSE N - s.cursor
  BY LenProperties DEF StreamSession, Received, Ring, Contiguous, Left
<1>20. PICK n \in 0 .. x : /\ u \in Seq(Frame) /\ Len(u) = n /\ u = SubSeq(Stream!Unread(s), 1, n)
                           /\ \A j \in 1 .. n : u[j].seq = N - x + j - 1
  BY TakenFacts DEF Ring
<1>2. n \in 0 .. x /\ u \in Seq(Frame) /\ Len(u) = n /\ \A j \in 1 .. n : u[j].seq = N - x + j - 1
  BY <1>20
<1> HIDE DEF u
<1>3. x \in 0 .. L /\ n \in Nat /\ s.cursor <= N - x
  <2> HIDE DEF x, N, L
  <2>1. CASE s.cursor <= N - L
    BY <1>1, <1>2, <2>1
  <2>2. CASE ~(s.cursor <= N - L)
    BY <1>1, <1>2, <2>2
  <2> QED
    BY <2>1, <2>2
<1>4. c = IF n = 0 THEN s.cursor ELSE N - x + n
  <2>1. CASE n = 0
    <3>1. u = <<>>
      BY <1>2, <2>1, EmptySeq
    <3> QED
      BY <2>1, <3>1 DEF Stream!Cursor
  <2>2. CASE n # 0
    <3>1. u # <<>> /\ n \in 1 .. n
      BY <1>2, <1>3, <2>2, EmptySeq
    <3>2. Stream!Last(u) = u[n]
      BY <1>2 DEF Stream!Last
    <3>3. u[n].seq = N - x + n - 1
      BY <1>2, <3>1
    <3>4. c = u[n].seq + 1
      BY <3>1, <3>2 DEF Stream!Cursor
    <3> HIDE DEF x, N, L, c
    <3>6. x \in Int /\ N \in Int /\ n \in Int
      BY <1>1, <1>3
    <3>5. N - x + n - 1 + 1 = N - x + n
      BY <3>6
    <3>7. c = N - x + n
      BY <3>3, <3>4, <3>5
    <3> QED
      BY <2>2, <3>7
  <2> QED
    BY <2>1, <2>2
<1> HIDE DEF c, x, N, L, p
<1>5. c \in Nat /\ c <= N /\ s.cursor <= c /\ (n > 0 => c = N - x + n)
  <2>1. x \in Int /\ N \in Int /\ n \in Int /\ s.cursor \in Nat /\ n <= x /\ n >= 0 /\ s.cursor <= N - x /\ s.cursor <= N
    BY <1>1, <1>2, <1>3
  <2>2. CASE n = 0
    BY <1>4, <2>1, <2>2
  <2>3. CASE n # 0
    <3>1. c = N - x + n
      BY <1>4, <2>3
    <3>2. N - x + n \in Nat /\ N - x + n <= N /\ s.cursor <= N - x + n
      BY <2>1
    <3> QED
      BY <3>1, <3>2
  <2> QED
    BY <2>2, <2>3
<1>6. /\ t \in StreamSession /\ t.frames = s.frames /\ t.nextSeq = N /\ t.cursor = c /\ t.dropped = 0
      /\ t.done = s.done /\ t.reason = s.reason /\ t.cancelled = s.cancelled /\ t.running = s.running
  <2>1. t = [s EXCEPT !.idle = 0, !.dropped = 0, !.cursor = c]
    BY DEF PolledBy, c, u
  <2>2. s.nextSeq = N
    BY DEF N
  <2> HIDE DEF t
  <2> QED
    BY <1>5, <2>1, <2>2 DEF StreamSession
<1> DEFINE q == p \o u
           e == g.drops + s.dropped
<1>7. h \in Received /\ h.polled = q /\ h.drops = e /\ h.stops = g.stops /\ q \in Seq(Frame) /\ e \in Nat
  <2>1. h = [g EXCEPT !.polled = q, !.drops = e]
    BY DEF Receives, u, p
  <2>2. q \in Seq(Frame) /\ e \in Nat
    BY <1>1, <1>2, JoinedLists
  <2> HIDE DEF q, e
  <2> QED
    BY <2>1, <2>2 DEF Received
<1>8. Len(q) = Len(p) + n /\ \A k \in 1 .. (Len(p) + n) : q[k] = IF k <= Len(p) THEN p[k] ELSE u[k - Len(p)]
  BY <1>1, <1>2, JoinedLists
<1> HIDE DEF q, e
<1>9. Ring(limits, t)
  <2>1. Contiguous(t)
    BY <1>5, <1>6 DEF Ring, Contiguous, N
  <2> QED
    BY <1>6, <2>1 DEF Ring
<1>10. Left(t) = x - n /\ Left(t) \in Nat
  <2>1. Left(t) = IF c <= N - L THEN L ELSE N - c
    BY <1>6 DEF Left, L
  <2> DEFINE y == Left(t)
  <2> HIDE DEF y
  <2>2. y = IF c <= N - L THEN L ELSE N - c
    BY <2>1 DEF y
  <2>6. x \in Nat /\ L \in Nat /\ N \in Nat /\ n \in Nat /\ n <= x /\ x <= L
    BY <1>1, <1>2, <1>3
  <2>3. ASSUME n = 0 PROVE y = x - n
    <3>1. y = x
      BY <1>1, <1>4, <2>2, <2>3
    <3> QED
      BY <2>3, <2>6, <3>1
  <2>4. ASSUME n # 0 PROVE y = x - n
    <3>1. c = N - x + n /\ ~(N - x + n <= N - L) /\ N - (N - x + n) = x - n
      BY <1>4, <2>4, <2>6
    <3> QED
      BY <2>2, <3>1
  <2>5. y = x - n /\ y \in Nat
    BY <2>3, <2>4, <2>6
  <2> QED
    BY <2>5 DEF y
<1>11. /\ \A k \in 1 .. Len(p) : p[k].seq < s.cursor
       /\ \A k \in 1 .. (Len(p) - 1) : p[k].seq < p[k + 1].seq
       /\ N = Len(p) + g.drops + s.dropped + x
  BY DEF Ledger, N, p, x
<1> DEFINE K == Len(p)
<1>12. ASSUME NEW k \in 1 .. (K + n)
       PROVE  q[k].seq < c /\ (k <= K => q[k] = p[k] /\ q[k].seq < s.cursor)
              /\ (k > K => k - K \in 1 .. n /\ q[k] = u[k - K] /\ q[k].seq = N - x + (k - K) - 1)
  <2>1. CASE k <= K
    <3>1. k \in 1 .. K /\ q[k] = p[k] /\ p[k] \in Frame
      BY <1>1, <1>2, <1>8, <2>1, ElementOfSeq
    <3>2. p[k].seq < s.cursor /\ p[k].seq \in Nat
      BY <1>11, <3>1 DEF Frame
    <3> QED
      BY <1>1, <1>5, <2>1, <3>1, <3>2
  <2>2. CASE k > K
    <3>1. k - K \in 1 .. n /\ q[k] = u[k - K] /\ n > 0
      BY <1>1, <1>3, <1>8, <2>2
    <3>2. u[k - K].seq = N - x + (k - K) - 1
      BY <1>2, <3>1
    <3>3. N - x + (k - K) - 1 < c
      BY <1>1, <1>3, <1>5, <3>1, SMTT(20)
    <3> QED
      BY <2>2, <3>1, <3>2, <3>3, <1>1
  <2> QED
    BY <1>1, <1>3, <2>1, <2>2
<1>13. ASSUME NEW k \in 1 .. (K + n - 1)
       PROVE  q[k].seq < q[k + 1].seq
  <2>1. k \in 1 .. (K + n) /\ k + 1 \in 1 .. (K + n)
    BY <1>1, <1>3
  <2>2. CASE k + 1 <= K
    <3>1. k \in 1 .. (K - 1) /\ q[k] = p[k] /\ q[k + 1] = p[k + 1]
      BY <1>1, <1>12, <2>1, <2>2
    <3> QED
      BY <1>11, <3>1
  <2>3. CASE k = K
    <3>1. q[k].seq < s.cursor /\ q[k + 1].seq = N - x + ((k + 1) - K) - 1
      BY <1>1, <1>12, <2>1, <2>3
    <3>2. q[k] \in Frame
      BY <1>7, <1>8, <2>1, ElementOfSeq
    <3>3. N - x + ((k + 1) - K) - 1 = N - x
      BY <1>1, <1>3, <2>3
    <3> QED
      BY <1>1, <1>3, <3>1, <3>2, <3>3, SMTT(20) DEF Frame
  <2>4. CASE k > K
    <3>1. q[k].seq = N - x + (k - K) - 1 /\ q[k + 1].seq = N - x + ((k + 1) - K) - 1
      BY <1>1, <1>12, <2>1, <2>4
    <3>2. N - x + (k - K) - 1 < N - x + ((k + 1) - K) - 1
      BY <1>1, <1>3, <2>1
    <3> QED
      BY <3>1, <3>2
  <2> QED
    BY <1>1, <2>1, <2>2, <2>3, <2>4
<1>14. N = (Len(p) + n) + e + 0 + (x - n)
  <2> DEFINE a == Len(p)
             o == g.drops
             z == s.dropped
  <2>1. a \in Nat /\ o \in Nat /\ z \in Nat /\ x \in Nat /\ n \in Nat /\ N = a + o + z + x
    BY <1>1, <1>3, <1>11
  <2> HIDE DEF a, o, z
  <2>2. N = (a + n) + (o + z) + 0 + (x - n)
    BY <2>1
  <2> QED
    BY <2>2 DEF a, o, z, e
<1>15. Ledger(t, h)
  <2>1. \A k \in 1 .. Len(h.polled) : h.polled[k].seq < t.cursor
    BY <1>6, <1>7, <1>8, <1>12
  <2>2. \A k \in 1 .. (Len(h.polled) - 1) : h.polled[k].seq < h.polled[k + 1].seq
    BY <1>7, <1>8, <1>13
  <2>3. t.nextSeq = Len(h.polled) + h.drops + t.dropped + Left(t)
    BY <1>6, <1>7, <1>8, <1>10, <1>14
  <2> QED
    BY <2>1, <2>2, <2>3 DEF Ledger
<1>17. h.drops + t.dropped = g.drops + s.dropped
  BY <1>1, <1>6, <1>7 DEF e
<1>18. h.polled \o Stream!Unread(t) = p \o Stream!Unread(s)
  <2> DEFINE us == Stream!Unread(s)
             ut == Stream!Unread(t)
             fs == s.frames
  <2>1. us \in Seq(Frame) /\ Len(us) = x /\ \A j \in 1 .. x : us[j] = fs[L - x + j]
    BY UnreadFacts DEF Ring, x, L
  <2>2. ut \in Seq(Frame) /\ Len(ut) = x - n /\ \A j \in 1 .. (x - n) : ut[j] = fs[L - (x - n) + j]
    <3>1. Contiguous(t) /\ t.frames = fs
      BY <1>6, <1>9 DEF Ring
    <3> HIDE DEF t
    <3> QED
      BY <1>6, <1>10, <3>1, UnreadFacts DEF L
  <2> HIDE DEF us, ut, t, fs
  <2>3. \A j \in 1 .. n : u[j] = us[j]
    <3>1. \A i \in 1 .. n : us[i] \in Frame
      BY <1>2, <1>3, <2>1, ElementOfSeq
    <3>2. u = SubSeq(us, 1, n)
      BY <1>20 DEF us
    <3>3. \A i \in 1 .. n - 1 + 1 : SubSeq(us, 1, n)[i] = us[1 + i - 1]
      BY <1>3, <3>1, SubSeqProperties
    <3> QED
      BY <1>3, <3>2, <3>3
  <2>4. u \o ut \in Seq(Frame) /\ Len(u \o ut) = x
        /\ \A k \in 1 .. x : (u \o ut)[k] = IF k <= n THEN u[k] ELSE ut[k - n]
    <3>1. n + (x - n) = x /\ u \in Seq(Frame) /\ ut \in Seq(Frame) /\ Len(u) = n /\ Len(ut) = x - n
      BY <1>2, <1>3, <2>2
    <3>2. /\ u \o ut \in Seq(Frame) /\ Len(u \o ut) = Len(u) + Len(ut)
          /\ \A k \in 1 .. (Len(u) + Len(ut)) : (u \o ut)[k] = IF k <= Len(u) THEN u[k] ELSE ut[k - Len(u)]
      BY <3>1, JoinedLists
    <3> QED
      BY <3>1, <3>2
  <2>5. ASSUME NEW k \in 1 .. x
        PROVE  (u \o ut)[k] = us[k]
    <3>1. CASE k <= n
      BY <1>3, <2>3, <2>4, <3>1
    <3>2. CASE ~(k <= n)
      <4>1. k - n \in 1 .. (x - n) /\ L - (x - n) + (k - n) = L - x + k
        BY <1>1, <1>3, <3>2
      <4>2. ut[k - n] = fs[L - (x - n) + (k - n)]
        BY <2>2, <4>1
      <4> QED
        BY <2>1, <2>4, <3>2, <4>1, <4>2
    <3> QED
      BY <3>1, <3>2
  <2>6. u \o ut = us
    <3>1. Len(u \o ut) = Len(us) /\ \A k \in 1 .. Len(u \o ut) : (u \o ut)[k] = us[k]
      BY <2>1, <2>4, <2>5
    <3> QED
      BY <2>1, <2>4, <3>1, SeqEqual
  <2>7. (p \o u) \o ut = p \o (u \o ut)
    <3>1. p \in Seq(Frame) /\ u \in Seq(Frame) /\ ut \in Seq(Frame)
      BY <1>1, <1>2, <2>2
    <3> QED
      BY <3>1, ConcatAssociative
  <2>8. h.polled = p \o u
    BY <1>7 DEF q
  <2> QED
    BY <2>6, <2>7, <2>8 DEF us, ut
<1> HIDE DEF t, h
<1>16. /\ t \in StreamSession /\ h \in Received /\ Ring(limits, t) /\ Ledger(t, h)
       /\ h.polled \o Stream!Unread(t) = g.polled \o Stream!Unread(s)
       /\ h.drops + t.dropped = g.drops + s.dropped /\ h.stops = g.stops
       /\ t.done = s.done /\ t.reason = s.reason /\ t.cancelled = s.cancelled /\ t.running = s.running
  BY <1>6, <1>7, <1>9, <1>15, <1>17, <1>18 DEF p
<1> QED
  BY <1>16 DEF t, h

(* What Stop answers, and what it leaves out, is what polls have left.     *)
LEMMA AnswerFacts ==
  ASSUME limits \in Limits, NEW s \in StreamSession, NEW g \in Received, Ring(limits, s), NEW a,
         a = Stream!Answer(s, g)
  PROVE  /\ a \in Answer /\ a.before = g.polled /\ a.told = g.drops + s.dropped
         /\ a.frames \o a.left = Stream!Unread(s)
         /\ a.left # <<>> => ~(Len(a.frames) < limits.pollFrames
                                /\ Stream!Bytes(a.frames \o <<a.left[1]>>) <= PollBytes)
<1> DEFINE u == Stream!Unread(s)
           max == limits.pollFrames
           taken == Stream!Taken(s, max)
           x == Left(s)
<1>1. max \in Nat /\ s.dropped \in Nat /\ g.drops \in Nat /\ g.polled \in Seq(Frame) /\ Contiguous(s)
  BY LimitFacts DEF StreamSession, Received, Ring
<1>2. u \in Seq(Frame) /\ Len(u) = x /\ x \in Nat
  <2>1. Len(s.frames) \in Nat
    BY LenProperties DEF StreamSession
  <2> QED
    BY <1>1, <2>1, UnreadFacts
<1>3. PICK n \in 0 .. x : /\ taken \in Seq(Frame) /\ Len(taken) = n /\ taken = SubSeq(u, 1, n)
                          /\ n < x => ~(n < max /\ Stream!Bytes(SubSeq(u, 1, n + 1)) <= PollBytes)
  BY <1>1, TakenFacts
<1> DEFINE left == SubSeq(u, n + 1, x)
<1>4. a = [before |-> g.polled, told |-> g.drops + s.dropped, frames |-> taken, left |-> left]
  BY <1>2, <1>3 DEF Stream!Answer, Stream!PollFrames
<1> HIDE DEF u, taken, x, max
<1>5. /\ n \in Nat /\ n <= x /\ \A k \in 1 .. x : u[k] \in Frame
  BY <1>2, <1>3, ElementOfSeq
<1>6. \A k \in 1 .. n : taken[k] = u[k]
  <2>1. \A k \in 1 .. n : u[k] \in Frame
    BY <1>2, <1>5
  <2>2. \A k \in 1 .. n - 1 + 1 : SubSeq(u, 1, n)[k] = u[1 + k - 1]
    BY <1>5, <2>1, SubSeqProperties
  <2> QED
    BY <1>3, <1>5, <2>2
<1>7. left \in Seq(Frame) /\ Len(left) = x - n /\ \A k \in 1 .. (x - n) : left[k] = u[n + k]
  <2>1. \A k \in (n + 1) .. x : u[k] \in Frame
    BY <1>2, <1>5
  <2>2. /\ left \in Seq(Frame) /\ Len(left) = (IF n + 1 <= x THEN x - (n + 1) + 1 ELSE 0)
        /\ \A k \in 1 .. x - (n + 1) + 1 : left[k] = u[(n + 1) + k - 1]
    BY <1>2, <1>5, <2>1, SubSeqProperties
  <2> HIDE DEF left
  <2>3. x - (n + 1) + 1 = x - n /\ \A k \in 1 .. (x - n) : (n + 1) + k - 1 = n + k
    BY <1>2, <1>5
  <2> QED
    BY <1>2, <1>5, <2>2, <2>3
<1> HIDE DEF left
<1>8. taken \o left = u
  <2>1. /\ taken \o left \in Seq(Frame) /\ Len(taken \o left) = n + (x - n)
        /\ \A k \in 1 .. n + (x - n) : (taken \o left)[k] = IF k <= n THEN taken[k] ELSE left[k - n]
    BY <1>3, <1>7, JoinedLists
  <2>2. n + (x - n) = x
    BY <1>2, <1>5
  <2>3. ASSUME NEW k \in 1 .. x
        PROVE  (taken \o left)[k] = u[k]
    <3>1. CASE k <= n
      BY <1>5, <1>6, <2>1, <2>2, <3>1
    <3>2. CASE ~(k <= n)
      <4>1. k - n \in 1 .. (x - n) /\ n + (k - n) = k
        BY <1>2, <1>5, <3>2
      <4> QED
        BY <1>7, <2>1, <2>2, <3>2, <4>1
    <3> QED
      BY <3>1, <3>2
  <2> QED
    BY <1>2, <2>1, <2>2, <2>3, SeqEqual
<1>9. ASSUME left # <<>>
      PROVE  ~(n < max /\ Stream!Bytes(taken \o <<left[1]>>) <= PollBytes)
  <2>1. Len(left) # 0
    BY <1>7, <1>9, EmptySeq
  <2>2. n < x /\ 1 \in 1 .. (x - n)
    BY <1>2, <1>5, <1>7, <2>1
  <2>3. left[1] = u[n + 1]
    BY <1>7, <2>2
  <2>4. SubSeq(u, 1, n + 1) = taken \o <<u[n + 1]>>
    <3>1. 1 \in 1 .. Len(u) /\ n + 1 \in 1 .. Len(u) /\ (n + 1) - 1 = n
      BY <1>2, <1>5, <2>2
    <3>2. SubSeq(u, 1, n + 1) = SubSeq(u, 1, (n + 1) - 1) \o <<u[n + 1]>>
      BY <1>2, <3>1, SubSeqRecursiveSecond
    <3> QED
      BY <1>3, <3>1, <3>2
  <2> QED
    BY <1>3, <2>2, <2>3, <2>4
<1>10. g.drops + s.dropped \in Nat
  BY <1>1
<1> QED
  BY <1>1, <1>3, <1>4, <1>7, <1>8, <1>9, <1>10 DEF Answer, u, max

-----------------------------------------------------------------------------
(* What the steps do to the sessions, the table and the users.             *)

(* A session that has not started is of the declared shape and empty. *)
LEMMA FreshFacts ==
  /\ Stream!Fresh \in StreamSession /\ Stream!Fresh.frames = <<>> /\ Stream!Fresh.nextSeq = 0
  /\ Stream!Fresh.cursor = 0 /\ Stream!Fresh.dropped = 0 /\ ~Stream!Fresh.done /\ Stream!Fresh.reason = ""
  /\ ~Stream!Fresh.running /\ Len(Stream!Fresh.frames) = 0
<1>1. <<>> \in Seq(Frame) /\ Len(<<>>) = 0
  BY EmptySeq
<1> QED
  BY <1>1 DEF Stream!Fresh, StreamSession

(* The marks on a session touch neither its ring nor its ledger.           *)
LEMMA Marked ==
  ASSUME NEW l, NEW s, NEW g, Good(l, s, g), NEW t \in StreamSession,
         t.frames = s.frames, t.nextSeq = s.nextSeq, t.cursor = s.cursor, t.dropped = s.dropped, Life(t),
         s.done => t.done
  PROVE  Good(l, t, g)
<1>1. Ring(l, t)
  BY DEF Good, Ring, Contiguous
<1>2. Left(t) = Left(s)
  BY DEF Left
<1>3. Ledger(t, g)
  BY <1>2 DEF Good, Ledger
<1>4. Stream!Unread(t) = Stream!Unread(s)
  BY DEF Stream!Unread
<1>5. Answers(l, t, g)
  BY <1>4 DEF Good, Answers
<1> QED
  BY <1>1, <1>3, <1>5 DEF Good

(* A session that ends keeps the reason it had. *)
LEMMA FinishedFacts ==
  ASSUME NEW s \in StreamSession, NEW r \in Reasons, Life(s), NEW t, t = Stream!Finished(s, r)
  PROVE  /\ t \in StreamSession /\ t.done /\ t.reason \in Reasons /\ (s.done => t.reason = s.reason)
         /\ t.frames = s.frames /\ t.nextSeq = s.nextSeq /\ t.cursor = s.cursor /\ t.dropped = s.dropped
         /\ t.cancelled = s.cancelled /\ t.running = s.running
<1>1. CASE s.done
  <2>1. t = s
    BY <1>1 DEF Stream!Finished
  <2>2. s.reason # "" /\ s.reason \in Reasons
    BY <1>1 DEF Life, StreamSession
  <2> QED
    BY <1>1, <2>1, <2>2
<1>2. CASE ~s.done
  <2>1. t = [s EXCEPT !.done = TRUE, !.reason = r]
    BY <1>2 DEF Stream!Finished
  <2> QED
    BY <1>2, <2>1 DEF StreamSession
<1> QED
  BY <1>1, <1>2

(* No reason is the empty one. *)
LEMMA ReasonsSaid ==
  \A r \in Reasons : r # ""
  BY DEF Reasons

(* A step that changes one session, or all of them. *)
LEMMA OneSession ==
  ASSUME Sessions, NEW i \in Ids, NEW t, NEW h, Good(limits, t, h), Follows(sess[i], t),
         sess' = [sess EXCEPT ![i] = t], got' = [got EXCEPT ![i] = h], limits' = limits,
         caller' \in [Callers -> User]
  PROVE  Sessions' /\ \A j \in Ids : Follows(sess[j], sess'[j])
<1>1. t \in StreamSession /\ h \in Received
  BY DEF Good
<1>2. \A j \in Ids : sess'[j] = IF j = i THEN t ELSE sess[j]
  BY DEF Sessions
<1>3. \A j \in Ids : got'[j] = IF j = i THEN h ELSE got[j]
  BY DEF Sessions
<1>4. sess' \in [Ids -> StreamSession] /\ got' \in [Ids -> Received]
  BY <1>1 DEF Sessions
<1>5. \A j \in Ids : Good(limits, sess'[j], got'[j])
  BY <1>2, <1>3 DEF Sessions
<1>6. \A j \in Ids : Follows(sess[j], sess'[j])
  BY <1>2 DEF Follows
<1> QED
  BY <1>4, <1>5, <1>6 DEF Sessions

LEMMA AllSessions ==
  ASSUME Sessions, sess' = [i \in Ids |-> sess'[i]],
         \A i \in Ids : Good(limits, sess'[i], got[i]) /\ Follows(sess[i], sess'[i]),
         UNCHANGED <<limits, caller, got>>
  PROVE  Sessions' /\ \A j \in Ids : Follows(sess[j], sess'[j])
<1>1. \A i \in Ids : sess'[i] \in StreamSession
  BY DEF Good
<1>2. sess' \in [Ids -> StreamSession]
  BY <1>1
<1> QED
  BY <1>2 DEF Sessions

(* The live sessions of a table that only lost sessions. *)
LEMMA TablesAfter ==
  ASSUME Tabled, table' \subseteq table, \A j \in Ids : Follows(sess[j], sess'[j])
  PROVE  Tabled'
<1> DEFINE S == Stream!LiveOnes
           T == {i \in table' : ~sess'[i].done}
<1>1. S = {i \in table : ~sess[i].done} /\ T = Stream!LiveOnes'
  BY DEF Stream!LiveOnes
<1>2. T \in SUBSET S
  BY <1>1 DEF Tabled, Follows
<1>3. IsFiniteSet(S) /\ Cardinality(S) <= MaxSessions
  BY DEF Tabled
<1> HIDE DEF S, T
<1>4. IsFiniteSet(T) /\ Cardinality(T) <= Cardinality(S) /\ Cardinality(T) \in Nat /\ Cardinality(S) \in Nat
  BY <1>2, <1>3, FS_Subset, FS_CardinalityType
<1>5. Cardinality(T) <= MaxSessions
  BY <1>3, <1>4, StreamAssumption
<1>6. table' \subseteq Ids /\ \A i \in table' : Begun(sess'[i])
  BY DEF Tabled, Follows
<1> QED
  BY <1>1, <1>4, <1>5, <1>6 DEF Tabled

(* Whom nobody can stop: only those whom nobody could stop before.         *)
LEMMA UsersAfter ==
  ASSUME Using, \A j \in Ids : Follows(sess[j], sess'[j]),
         \A c \in Callers : \/ caller'[c] = caller[c]
                            \/ caller'[c].op = "none"
                            \/ /\ caller'[c].id \in Ids /\ Begun(sess'[caller'[c].id])
                               /\ caller'[c].op = "finish" => sess'[caller'[c].id].cancelled
                               /\ caller'[c].op = "report" => sess'[caller'[c].id].done,
         \/ closing' = closing
         \/ /\ closing' \in Closing /\ \A i \in closing'.todo : Begun(sess'[i])
            /\ closing'.at # NoSession => sess'[closing'.at].cancelled /\ Begun(sess'[closing'.at])
            /\ \A i \in closing.todo : i \in closing'.todo \/ sess'[i].cancelled,
         \A i \in Ids : sess'[i].running /\ i \notin table' =>
             \/ sess'[i].cancelled \/ i \in closing'.todo
             \/ \E c \in Callers : caller'[c] = [op |-> "cancel", id |-> i]
             \/ sess[i].running /\ i \notin table,
         \A c \in Callers, i \in Ids : caller[c] = [op |-> "cancel", id |-> i] =>
             caller'[c] = caller[c] \/ sess'[i].cancelled
  PROVE  Using'
<1>1. ASSUME NEW c \in Callers, caller'[c].op # "none"
      PROVE  caller'[c].id \in Ids /\ Begun(sess'[caller'[c].id])
  BY <1>1 DEF Using, Follows
<1>2. ASSUME NEW c \in Callers, caller'[c].op = "finish"
      PROVE  sess'[caller'[c].id].cancelled
  BY <1>2 DEF Using, Follows
<1>4. ASSUME NEW c \in Callers, caller'[c].op = "report"
      PROVE  sess'[caller'[c].id].done
  BY <1>4 DEF Using, Follows
<1>5. /\ closing' \in Closing /\ \A i \in closing'.todo : Begun(sess'[i])
      /\ closing'.at # NoSession => sess'[closing'.at].cancelled /\ Begun(sess'[closing'.at])
      /\ \A i \in closing.todo : i \in closing'.todo \/ sess'[i].cancelled
  <2>1. CASE closing' = closing
    <3>1. closing \in Closing /\ closing.todo \subseteq Ids /\ (closing.at # NoSession => closing.at \in Ids)
      BY DEF Using, Closing
    <3> QED
      BY <2>1, <3>1 DEF Using, Follows
  <2> QED
    BY <2>1
<1>3. ASSUME NEW i \in Ids, sess'[i].running, i \notin table'
      PROVE  sess'[i].cancelled \/ i \in closing'.todo \/ \E c \in Callers : caller'[c] = [op |-> "cancel", id |-> i]
  <2>1. CASE sess[i].running /\ i \notin table
    <3>1. sess[i].cancelled \/ i \in closing.todo \/ \E c \in Callers : caller[c] = [op |-> "cancel", id |-> i]
      BY <2>1 DEF Using, Stream!NoOrphan
    <3>2. sess[i].cancelled => sess'[i].cancelled
      BY DEF Follows
    <3>3. ASSUME NEW c \in Callers, caller[c] = [op |-> "cancel", id |-> i]
          PROVE  caller'[c] = [op |-> "cancel", id |-> i] \/ sess'[i].cancelled
      BY <3>3
    <3> QED
      BY <1>5, <3>1, <3>2, <3>3
  <2> QED
    BY <1>3, <2>1
<1> QED
  BY <1>1, <1>2, <1>3, <1>4, <1>5 DEF Using, Stream!NoOrphan

(* A step of which users and the table know nothing. *)
LEMMA Unnoticed ==
  ASSUME Tabled, Using, \A j \in Ids : Follows(sess[j], sess'[j]), UNCHANGED <<table, closing, caller>>,
         \A j \in Ids : sess'[j].running => sess[j].running
  PROVE  Tabled' /\ Using'
<1>1. Tabled'
  BY TablesAfter
<1> QED
  BY <1>1, UsersAfter

(* The steps, one by one. *)
LEMMA StartStep ==
  ASSUME Streaming, UNCHANGED limits, NEW i \in Ids, Stream!Start(i)
  PROVE  Streaming' /\ \A j \in Ids : Follows(sess[j], sess'[j])
<1> DEFINE s == sess[i]
           t == [s EXCEPT !.running = TRUE]
           g == got[i]
<1>1. /\ ~Begun(s) /\ Good(limits, s, g) /\ s \in StreamSession /\ s = Stream!Fresh /\ sess \in [Ids -> StreamSession]
      /\ got \in [Ids -> Received] /\ caller \in [Callers -> User]
  BY DEF Streaming, Sessions, Good, Life, Stream!Start, Stream!Started, Begun
<1>2. /\ t \in StreamSession /\ t.frames = s.frames /\ t.nextSeq = s.nextSeq /\ t.cursor = s.cursor
      /\ t.dropped = s.dropped /\ t.done = s.done /\ t.reason = s.reason /\ t.cancelled = s.cancelled /\ t.running
  BY <1>1 DEF StreamSession
<1>3. Life(t)
  BY <1>1, <1>2, FreshFacts DEF Life, Begun
<1>4. Good(limits, t, g)
  BY <1>1, <1>2, <1>3, Marked
<1>5. Follows(s, t)
  BY <1>1, <1>2, FreshFacts DEF Follows, Begun
<1>6. /\ sess' = [sess EXCEPT ![i] = t] /\ got' = [got EXCEPT ![i] = g] /\ table' = table \union {i}
      /\ caller' = caller /\ closing' = closing
  BY <1>1 DEF Stream!Start
<1>7. Sessions' /\ \A j \in Ids : Follows(sess[j], sess'[j])
  BY <1>1, <1>4, <1>5, <1>6, OneSession DEF Streaming
<1>8. sess'[i].running /\ \A j \in Ids \ {i} : sess'[j] = sess[j]
  BY <1>1, <1>2, <1>6
<1>9. Tabled'
  <2> DEFINE S == Stream!LiveOnes
             T == {j \in table' : ~sess'[j].done}
  <2>1. S = {j \in table : ~sess[j].done} /\ T = Stream!LiveOnes'
    BY DEF Stream!LiveOnes
  <2>2. T \in SUBSET (S \union {i})
    BY <1>6, <1>8, <2>1 DEF Streaming, Tabled
  <2>3. IsFiniteSet(S) /\ Cardinality(S) < MaxSessions
    BY DEF Streaming, Tabled, Stream!Start, Stream!Live, Stream!Cardinality, Cardinality
  <2> HIDE DEF S, T
  <2>4. IsFiniteSet(S \union {i}) /\ Cardinality(S \union {i}) <= Cardinality(S) + 1 /\ Cardinality(S) \in Nat
    BY <2>3, FS_AddElement, FS_CardinalityType
  <2>5. IsFiniteSet(T) /\ Cardinality(T) <= Cardinality(S \union {i}) /\ Cardinality(T) \in Nat
        /\ Cardinality(S \union {i}) \in Nat
    BY <2>2, <2>4, FS_Subset, FS_CardinalityType
  <2>6. Cardinality(T) <= MaxSessions
    BY <2>3, <2>4, <2>5, StreamAssumption
  <2>7. table' \subseteq Ids /\ \A j \in table' : Begun(sess'[j])
    BY <1>6, <1>8 DEF Streaming, Tabled, Begun
  <2> QED
    BY <2>1, <2>5, <2>6, <2>7 DEF Tabled
<1>10. Using'
  <2>1. \A j \in Ids : sess'[j].running /\ j \notin table' => sess[j].running /\ j \notin table
    BY <1>6, <1>8
  <2> QED
    BY <1>6, <1>7, <2>1, UsersAfter DEF Streaming
<1> QED
  BY <1>7, <1>9, <1>10 DEF Streaming

LEMMA PushFrameStep ==
  ASSUME Streaming, UNCHANGED limits, NEW i \in Ids, NEW size \in Stream!Sizes, Stream!Push(i, size)
  PROVE  Streaming' /\ \A j \in Ids : Follows(sess[j], sess'[j])
<1> DEFINE s == sess[i]
           t == Stream!Pushed(s, size)
           g == got[i]
<1>1. /\ limits \in Limits /\ Good(limits, s, g) /\ s \in StreamSession /\ g \in Received
      /\ sess \in [Ids -> StreamSession] /\ got \in [Ids -> Received] /\ caller \in [Callers -> User]
  BY DEF Streaming, Sessions
<1>2. size \in Nat
  BY <1>1, LimitFacts DEF Stream!Sizes
<1>3. /\ s.running /\ ~s.done /\ sess' = [sess EXCEPT ![i] = t] /\ got' = got /\ table' = table /\ caller' = caller
      /\ closing' = closing
  BY <1>1 DEF Stream!Push
<1>4. /\ t \in StreamSession /\ Ring(limits, t) /\ Ledger(t, g)
      /\ t.done = s.done /\ t.reason = s.reason /\ t.cancelled = s.cancelled /\ t.running = s.running
  BY <1>1, <1>2, PushedFacts DEF Good
<1> HIDE DEF t
<1>5. Good(limits, t, g) /\ Follows(s, t)
  <2>1. \A a \in g.stops : FALSE
    BY <1>1, <1>3 DEF Good, Answers
  <2> QED
    BY <1>1, <1>3, <1>4, <2>1 DEF Good, Answers, Life, Begun, Follows
<1>6. got' = [got EXCEPT ![i] = g]
  BY <1>1, <1>3
<1>7. Sessions' /\ \A j \in Ids : Follows(sess[j], sess'[j])
  BY <1>1, <1>3, <1>5, <1>6, OneSession DEF Streaming
<1>8. \A j \in Ids : sess'[j].running => sess[j].running
  BY <1>1, <1>3
<1>9. Tabled' /\ Using'
  BY <1>3, <1>7, <1>8, Unnoticed DEF Streaming
<1> QED
  BY <1>7, <1>9 DEF Streaming

LEMMA RunReturnsStep ==
  ASSUME Streaming, UNCHANGED limits, NEW i \in Ids, NEW err \in BOOLEAN, Stream!RunReturns(i, err)
  PROVE  Streaming' /\ \A j \in Ids : Follows(sess[j], sess'[j])
<1> DEFINE s == sess[i]
           r == IF s.cancelled THEN "cancelled" ELSE IF err THEN "error" ELSE "ended"
           f == Stream!Finished(s, r)
           t == [f EXCEPT !.running = FALSE]
           g == got[i]
<1>1. /\ Good(limits, s, g) /\ s \in StreamSession /\ Life(s)
      /\ sess \in [Ids -> StreamSession] /\ got \in [Ids -> Received] /\ caller \in [Callers -> User]
  BY DEF Streaming, Sessions, Good
<1>2. r \in Reasons
  BY DEF Reasons
<1>3. /\ s.running /\ sess' = [sess EXCEPT ![i] = t] /\ got' = got /\ table' = table /\ caller' = caller
      /\ closing' = closing
  BY <1>1 DEF Stream!RunReturns
<1> HIDE DEF r
<1>4. /\ f \in StreamSession /\ f.done /\ f.reason \in Reasons /\ (s.done => f.reason = s.reason)
      /\ f.frames = s.frames /\ f.nextSeq = s.nextSeq /\ f.cursor = s.cursor /\ f.dropped = s.dropped
      /\ f.cancelled = s.cancelled /\ f.running = s.running
  BY <1>1, <1>2, FinishedFacts
<1> HIDE DEF f
<1>5. /\ t \in StreamSession /\ t.done /\ t.reason = f.reason /\ ~t.running
      /\ t.frames = s.frames /\ t.nextSeq = s.nextSeq /\ t.cursor = s.cursor /\ t.dropped = s.dropped
      /\ t.cancelled = s.cancelled
  BY <1>4 DEF StreamSession
<1> HIDE DEF t
<1>6. Life(t) /\ Follows(s, t)
  BY <1>4, <1>5, ReasonsSaid DEF Life, Begun, Follows
<1>7. Good(limits, t, g) /\ got' = [got EXCEPT ![i] = g]
  BY <1>1, <1>3, <1>5, <1>6, Marked
<1>8. Sessions' /\ \A j \in Ids : Follows(sess[j], sess'[j])
  BY <1>1, <1>3, <1>6, <1>7, OneSession DEF Streaming
<1>9. \A j \in Ids : sess'[j].running => sess[j].running
  BY <1>1, <1>3, <1>5
<1>10. Tabled' /\ Using'
  BY <1>3, <1>8, <1>9, Unnoticed DEF Streaming
<1> QED
  BY <1>8, <1>10 DEF Streaming

(* A session that is looked up has begun. *)
LEMMA LookedUp ==
  ASSUME Streaming, UNCHANGED <<limits, sess, got, closing>>, NEW i \in Ids, NEW c \in Callers, NEW op \in {"poll", "cancel"},
         Stream!LookUp(c, i, op), table' \subseteq table, table \ {i} \subseteq table', op = "poll" => i \in table'
  PROVE  Streaming' /\ \A j \in Ids : Follows(sess[j], sess'[j])
<1>1. /\ caller \in [Callers -> User] /\ caller[c].op = "none" /\ i \in table
      /\ caller' = [caller EXCEPT ![c] = [op |-> op, id |-> i]]
  BY DEF Streaming, Sessions, Stream!LookUp, Stream!Idle
<1>2. caller' \in [Callers -> User]
  BY <1>1 DEF User
<1>3. caller'[c] = [op |-> op, id |-> i] /\ \A d \in Callers \ {c} : caller'[d] = caller[d]
  BY <1>1
<1>4. \A j \in Ids : Follows(sess[j], sess'[j])
  BY DEF Follows
<1>5. Sessions'
  BY <1>2 DEF Streaming, Sessions
<1>6. Tabled'
  BY <1>4, TablesAfter DEF Streaming
<1>7. Begun(sess[i])
  BY <1>1 DEF Streaming, Tabled
<1>8. Using'
  <2>1. ASSUME NEW d \in Callers
        PROVE  caller'[d] = caller[d] \/ (caller'[d].id \in Ids /\ Begun(sess'[caller'[d].id]) /\ caller'[d].op \notin {"finish", "report"})
    BY <1>3, <1>7
  <2>2. ASSUME NEW j \in Ids, sess'[j].running, j \notin table'
        PROVE  (\E d \in Callers : caller'[d] = [op |-> "cancel", id |-> j]) \/ (sess[j].running /\ j \notin table)
    <3>1. CASE j \in table
      <4>1. j = i /\ op = "cancel"
        BY <2>2, <3>1
      <4> QED
        BY <1>3, <4>1
    <3> QED
      BY <2>2, <3>1
  <2>3. ASSUME NEW d \in Callers, NEW j \in Ids, caller[d] = [op |-> "cancel", id |-> j]
        PROVE  caller'[d] = caller[d]
    <3>1. d # c
      BY <1>1, <2>3
    <3> QED
      BY <1>3, <3>1
  <2> QED
    BY <1>4, <2>1, <2>2, <2>3, UsersAfter DEF Streaming
<1> QED
  BY <1>4, <1>5, <1>6, <1>8 DEF Streaming

LEMMA PollBeginStep ==
  ASSUME Streaming, UNCHANGED limits, NEW i \in Ids, NEW c \in Callers, Stream!PollBegin(c, i)
  PROVE  Streaming' /\ \A j \in Ids : Follows(sess[j], sess'[j])
<1>1. Stream!LookUp(c, i, "poll") /\ UNCHANGED <<sess, got, closing>> /\ table' = table /\ i \in table
  BY DEF Stream!PollBegin, Stream!LookUp
<1> QED
  BY <1>1, LookedUp

LEMMA StopBeginStep ==
  ASSUME Streaming, UNCHANGED limits, NEW i \in Ids, NEW c \in Callers, Stream!StopBegin(c, i)
  PROVE  Streaming' /\ \A j \in Ids : Follows(sess[j], sess'[j])
<1>1. Stream!LookUp(c, i, "cancel") /\ UNCHANGED <<sess, got, closing>> /\ table' = table \ {i}
  BY DEF Stream!StopBegin
<1> QED
  BY <1>1, LookedUp

(* A caller is done with its session, or goes on to finish or report it.   *)
LEMMA Worked ==
  ASSUME Streaming, UNCHANGED <<limits, closing>>, NEW c \in Callers, NEW i \in Ids, NEW t, NEW h, NEW u \in User,
         i = caller[c].id, Good(limits, t, h), Follows(sess[i], t), t.running => sess[i].running,
         sess' = [sess EXCEPT ![i] = t], got' = [got EXCEPT ![i] = h], table' = table,
         caller' = [caller EXCEPT ![c] = u], u.op = "none" \/ (u.id = i /\ t.cancelled /\ (u.op = "report" => t.done)),
         Begun(sess[i]), caller[c].op = "cancel" => t.cancelled
  PROVE  Streaming' /\ \A j \in Ids : Follows(sess[j], sess'[j])
<1>1. caller \in [Callers -> User] /\ sess \in [Ids -> StreamSession]
  BY DEF Streaming, Sessions
<1>2. /\ caller' \in [Callers -> User] /\ caller'[c] = u /\ \A d \in Callers \ {c} : caller'[d] = caller[d]
      /\ sess'[i] = t /\ \A j \in Ids \ {i} : sess'[j] = sess[j]
  BY <1>1
<1>3. Sessions' /\ \A j \in Ids : Follows(sess[j], sess'[j])
  BY <1>2, OneSession DEF Streaming
<1>4. Tabled'
  BY <1>3, TablesAfter DEF Streaming
<1>5. Using'
  <2>1. Begun(sess'[i])
    BY <1>2 DEF Follows
  <2>2. ASSUME NEW d \in Callers
        PROVE  \/ caller'[d] = caller[d]
               \/ caller'[d].op = "none"
               \/ /\ caller'[d].id \in Ids /\ Begun(sess'[caller'[d].id]) /\ sess'[caller'[d].id].cancelled
                  /\ caller'[d].op = "report" => sess'[caller'[d].id].done
    BY <1>2, <2>1
  <2>3. \A j \in Ids : sess'[j].running /\ j \notin table' => sess[j].running /\ j \notin table
    BY <1>2
  <2>4. ASSUME NEW d \in Callers, NEW j \in Ids, caller[d] = [op |-> "cancel", id |-> j]
        PROVE  caller'[d] = caller[d] \/ sess'[j].cancelled
    <3>1. CASE d = c
      <4>1. j = i /\ caller[c].op = "cancel"
        BY <2>4, <3>1
      <4> QED
        BY <1>2, <4>1
    <3> QED
      BY <1>2, <3>1
  <2> QED
    BY <1>3, <2>2, <2>3, <2>4, UsersAfter DEF Streaming
<1> QED
  BY <1>3, <1>4, <1>5 DEF Streaming

LEMMA PollStep ==
  ASSUME Streaming, UNCHANGED limits, NEW c \in Callers, NEW max \in 1 .. Stream!PollFrames, Stream!Poll(c, max)
  PROVE  Streaming' /\ \A j \in Ids : Follows(sess[j], sess'[j])
<1> DEFINE i == caller[c].id
           s == sess[i]
           g == got[i]
           t == PolledBy(s, max)
           h == Receives(g, s, max)
<1>1. caller[c].op = "poll"
  BY DEF Stream!Poll
<1>2. /\ i \in Ids /\ limits \in Limits /\ Good(limits, s, g) /\ s \in StreamSession /\ g \in Received /\ Begun(s)
      /\ sess \in [Ids -> StreamSession] /\ got \in [Ids -> Received]
  BY <1>1 DEF Streaming, Sessions, Using
<1>3. max \in Nat
  <2>1. limits.pollFrames \in Nat
    BY <1>2, LimitFacts
  <2> QED
    BY <2>1 DEF Stream!PollFrames
<1>4. /\ sess' = [sess EXCEPT ![i] = t] /\ got' = [got EXCEPT ![i] = h] /\ table' = table
      /\ caller' = [caller EXCEPT ![c] = Stream!Idle] /\ closing' = closing
  BY <1>2 DEF Stream!Poll, PolledBy, Receives
<1>5. /\ t \in StreamSession /\ h \in Received /\ Ring(limits, t) /\ Ledger(t, h)
      /\ h.polled \o Stream!Unread(t) = g.polled \o Stream!Unread(s)
      /\ h.drops + t.dropped = g.drops + s.dropped /\ h.stops = g.stops
      /\ t.done = s.done /\ t.reason = s.reason /\ t.cancelled = s.cancelled /\ t.running = s.running
  <2>1. Ring(limits, s) /\ Ledger(s, g)
    BY <1>2 DEF Good
  <2> HIDE DEF i, s, g
  <2> QED
    BY <1>2, <1>3, <2>1, PollFacts
<1> HIDE DEF t, h, s, g
<1>6. Good(limits, t, h) /\ Follows(s, t)
  <2>1. Answers(limits, t, h)
    BY <1>2, <1>5 DEF Good, Answers
  <2> QED
    BY <1>2, <1>5, <2>1 DEF Good, Life, Begun, Follows
<1>7. Stream!Idle \in User /\ Stream!Idle.op = "none"
  BY DEF Stream!Idle, User
<1> QED
  BY <1>1, <1>2, <1>4, <1>5, <1>6, <1>7, Worked DEF s, g

LEMMA StopCancelStep ==
  ASSUME Streaming, UNCHANGED limits, NEW c \in Callers, Stream!StopCancel(c)
  PROVE  Streaming' /\ \A j \in Ids : Follows(sess[j], sess'[j])
<1> DEFINE i == caller[c].id
           s == sess[i]
           g == got[i]
           t == [s EXCEPT !.cancelled = TRUE]
           u == [caller[c] EXCEPT !.op = "finish"]
<1>1. caller[c].op = "cancel"
  BY DEF Stream!StopCancel
<1>2. /\ i \in Ids /\ Good(limits, s, g) /\ s \in StreamSession /\ Begun(s) /\ caller \in [Callers -> User]
      /\ sess \in [Ids -> StreamSession] /\ got \in [Ids -> Received]
  BY <1>1 DEF Streaming, Sessions, Using
<1>3. /\ sess' = [sess EXCEPT ![i] = t] /\ got' = [got EXCEPT ![i] = g] /\ table' = table
      /\ caller' = [caller EXCEPT ![c] = u] /\ closing' = closing
  BY <1>2 DEF Stream!StopCancel
<1>4. /\ t \in StreamSession /\ t.frames = s.frames /\ t.nextSeq = s.nextSeq /\ t.cursor = s.cursor
      /\ t.dropped = s.dropped /\ t.done = s.done /\ t.reason = s.reason /\ t.cancelled /\ t.running = s.running
  BY <1>2 DEF StreamSession
<1>5. u \in User /\ u.id = i /\ u.op = "finish"
  BY <1>2 DEF User
<1> HIDE DEF t, s, g, u
<1>6. Life(t) /\ Follows(s, t)
  BY <1>2, <1>4 DEF Good, Life, Begun, Follows
<1>7. Good(limits, t, g)
  BY <1>2, <1>4, <1>6, Marked
<1> QED
  BY <1>2, <1>3, <1>4, <1>5, <1>6, <1>7, Worked DEF s, g

LEMMA StopFinishStep ==
  ASSUME Streaming, UNCHANGED limits, NEW c \in Callers, Stream!StopFinish(c)
  PROVE  Streaming' /\ \A j \in Ids : Follows(sess[j], sess'[j])
<1> DEFINE i == caller[c].id
           s == sess[i]
           g == got[i]
           r == "stopped"
           t == Stream!Finished(s, r)
           u == [caller[c] EXCEPT !.op = "report"]
<1>1. caller[c].op = "finish"
  BY DEF Stream!StopFinish
<1>2. /\ i \in Ids /\ Good(limits, s, g) /\ s \in StreamSession /\ Begun(s) /\ s.cancelled
      /\ sess \in [Ids -> StreamSession] /\ got \in [Ids -> Received] /\ caller \in [Callers -> User]
  BY <1>1 DEF Streaming, Sessions, Using
<1>3. /\ sess' = [sess EXCEPT ![i] = t] /\ got' = [got EXCEPT ![i] = g] /\ table' = table
      /\ caller' = [caller EXCEPT ![c] = u] /\ closing' = closing
  BY <1>2 DEF Stream!StopFinish
<1>4. r \in Reasons /\ Life(s)
  BY <1>2 DEF Reasons, Good
<1>5. /\ t \in StreamSession /\ t.done /\ t.reason \in Reasons /\ (s.done => t.reason = s.reason)
      /\ t.frames = s.frames /\ t.nextSeq = s.nextSeq /\ t.cursor = s.cursor /\ t.dropped = s.dropped
      /\ t.cancelled = s.cancelled /\ t.running = s.running
  <2> HIDE DEF s, r
  <2> QED
    BY <1>2, <1>4, FinishedFacts
<1> HIDE DEF t, s, g
<1>6. Life(t) /\ Follows(s, t)
  BY <1>2, <1>4, <1>5, ReasonsSaid DEF Life, Begun, Follows
<1>7. Good(limits, t, g)
  BY <1>2, <1>5, <1>6, Marked
<1>8. u \in User /\ u.id = i /\ u.op = "report"
  BY <1>2 DEF User
<1> HIDE DEF u
<1> QED
  BY <1>1, <1>2, <1>3, <1>5, <1>6, <1>7, <1>8, Worked DEF s, g

LEMMA StopReportStep ==
  ASSUME Streaming, UNCHANGED limits, NEW c \in Callers, Stream!StopReport(c)
  PROVE  Streaming' /\ \A j \in Ids : Follows(sess[j], sess'[j])
<1> DEFINE i == caller[c].id
           s == sess[i]
           g == got[i]
           a == Stream!Answer(s, g)
           h == [g EXCEPT !.stops = @ \union {a}]
<1>1. caller[c].op = "report"
  BY DEF Stream!StopReport
<1>2. /\ i \in Ids /\ limits \in Limits /\ Good(limits, s, g) /\ s \in StreamSession /\ g \in Received /\ Begun(s)
      /\ s.done /\ sess \in [Ids -> StreamSession] /\ got \in [Ids -> Received]
  BY <1>1 DEF Streaming, Sessions, Using, Good
<1>3. /\ sess' = [sess EXCEPT ![i] = s] /\ got' = [got EXCEPT ![i] = h] /\ table' = table
      /\ caller' = [caller EXCEPT ![c] = Stream!Idle] /\ closing' = closing
  BY <1>2 DEF Stream!StopReport
<1>4. /\ a \in Answer /\ a.before = g.polled /\ a.told = g.drops + s.dropped /\ a.frames \o a.left = Stream!Unread(s)
      /\ a.left # <<>> => ~(Len(a.frames) < limits.pollFrames
                               /\ Stream!Bytes(a.frames \o <<a.left[1]>>) <= PollBytes)
  <2>1. Ring(limits, s)
    BY <1>2 DEF Good
  <2> HIDE DEF s, g
  <2> QED
    BY <1>2, <2>1, AnswerFacts
<1> HIDE DEF a, s, g
<1>5. h \in Received /\ h.polled = g.polled /\ h.drops = g.drops /\ h.stops = g.stops \union {a}
  BY <1>2, <1>4 DEF Received
<1> HIDE DEF h
<1>6. Ledger(s, h)
  BY <1>2, <1>5 DEF Good, Ledger
<1>7. Answers(limits, s, h)
  BY <1>2, <1>4, <1>5 DEF Good, Answers
<1>8. Good(limits, s, h) /\ Follows(s, s)
  BY <1>2, <1>5, <1>6, <1>7 DEF Good, Follows
<1>9. Stream!Idle \in User /\ Stream!Idle.op = "none"
  BY DEF Stream!Idle, User
<1> QED
  BY <1>1, <1>2, <1>3, <1>8, <1>9, Worked DEF s

(* Sweeping: who leaves the table running is cancelled.                    *)
LEMMA Cleared ==
  ASSUME Streaming, UNCHANGED <<limits, closing, caller, got>>, table' \subseteq table,
         sess' = [j \in Ids |-> sess'[j]],
         \A j \in Ids : /\ Good(limits, sess'[j], got[j]) /\ Follows(sess[j], sess'[j])
                        /\ sess'[j].running => sess[j].running
                        /\ sess'[j].running /\ j \in table \ table' => sess'[j].cancelled
  PROVE  Streaming' /\ \A j \in Ids : Follows(sess[j], sess'[j])
<1>1. Sessions' /\ \A j \in Ids : Follows(sess[j], sess'[j])
  BY AllSessions DEF Streaming
<1>2. Tabled'
  BY <1>1, TablesAfter DEF Streaming
<1>3. \A j \in Ids : sess'[j].running /\ j \notin table' => sess'[j].cancelled \/ (sess[j].running /\ j \notin table)
  OBVIOUS
<1>4. Using'
  BY <1>1, <1>3, UsersAfter DEF Streaming
<1> QED
  BY <1>1, <1>2, <1>4 DEF Streaming

LEMMA SweepStep ==
  ASSUME Streaming, UNCHANGED limits, Stream!Sweep
  PROVE  Streaming' /\ \A j \in Ids : Follows(sess[j], sess'[j])
<1>1. ASSUME NEW j \in Ids
      PROVE  /\ Good(limits, sess'[j], got[j]) /\ Follows(sess[j], sess'[j])
             /\ sess'[j].running => sess[j].running
             /\ sess'[j].running /\ j \in table \ table' => sess'[j].cancelled
  <2> DEFINE s == sess[j]
             t == sess'[j]
             g == got[j]
  <2>1. Good(limits, s, g) /\ s \in StreamSession /\ Life(s) /\ (j \in table => Begun(s))
    BY DEF Streaming, Sessions, Tabled, Good
  <2>2. t = IF j \in table /\ ~s.done /\ Stream!Overdue(s) THEN Stream!Expired(s) ELSE s
    BY DEF Stream!Sweep
  <2>3. j \in table \ table' => s.done
    BY DEF Stream!Sweep, Stream!Removable
  <2> HIDE DEF s, t, g
  <2>4. CASE j \in table /\ ~s.done /\ Stream!Overdue(s)
    <3>1. t = [s EXCEPT !.done = TRUE, !.reason = "expired", !.cancelled = TRUE]
      BY <2>2, <2>4 DEF Stream!Expired
    <3>2. "expired" \in Reasons
      BY DEF Reasons
    <3>3. /\ t \in StreamSession /\ t.frames = s.frames /\ t.nextSeq = s.nextSeq /\ t.cursor = s.cursor
          /\ t.dropped = s.dropped /\ t.done /\ t.reason = "expired" /\ t.cancelled /\ t.running = s.running
      BY <2>1, <3>1, <3>2 DEF StreamSession
    <3>4. Life(t) /\ Follows(s, t)
      BY <2>4, <3>3 DEF Life, Begun, Follows
    <3>5. Good(limits, t, g)
      BY <2>1, <3>3, <3>4, Marked
    <3> QED
      BY <3>3, <3>4, <3>5 DEF s, t, g
  <2>5. CASE ~(j \in table /\ ~s.done /\ Stream!Overdue(s))
    <3>1. t = s
      BY <2>2, <2>5
    <3>2. Follows(s, s)
      BY DEF Follows
    <3>3. s.running /\ s.done => s.cancelled
      BY <2>1 DEF Life
    <3> QED
      BY <2>1, <2>3, <3>1, <3>2, <3>3 DEF s, t, g
  <2> QED
    BY <2>4, <2>5
<1>2. table' \subseteq table /\ UNCHANGED <<closing, caller, got>> /\ sess' = [j \in Ids |-> sess'[j]]
  BY DEF Stream!Sweep
<1> QED
  BY <1>1, <1>2, Cleared

LEMMA CloseAllStep ==
  ASSUME Streaming, UNCHANGED limits, Stream!CloseAll
  PROVE  Streaming' /\ \A j \in Ids : Follows(sess[j], sess'[j])
<1>1. /\ UNCHANGED <<sess, caller, got>> /\ table' = {} /\ closing' = [closing EXCEPT !.todo = @ \union table]
      /\ closing \in Closing /\ table \subseteq Ids /\ \A i \in table \union closing.todo : Begun(sess[i])
  BY DEF Stream!CloseAll, Streaming, Using, Tabled
<1>2. \A j \in Ids : Follows(sess[j], sess'[j])
  BY <1>1 DEF Follows
<1>3. Sessions' /\ Tabled'
  <2>1. Sessions'
    BY <1>1 DEF Streaming, Sessions
  <2> QED
    BY <1>1, <1>2, <2>1, TablesAfter DEF Streaming
<1>4. Using'
  <2>1. closing' \in Closing /\ closing'.todo = closing.todo \union table /\ closing'.at = closing.at
    BY <1>1 DEF Closing
  <2>2. closing.at # NoSession => sess[closing.at].cancelled /\ Begun(sess[closing.at])
    BY DEF Streaming, Using
  <2> QED
    BY <1>1, <1>2, <2>1, <2>2, UsersAfter DEF Streaming
<1> QED
  BY <1>2, <1>3, <1>4 DEF Streaming

(* A session whose turn it is when everything is closed.                   *)
LEMMA Closed ==
  ASSUME Streaming, UNCHANGED <<limits, table, caller, got>>, NEW i \in Ids, NEW t, Good(limits, t, got[i]),
         Follows(sess[i], t), t.running => sess[i].running, sess' = [sess EXCEPT ![i] = t], t.cancelled, Begun(t),
         closing' \in Closing, closing'.todo \subseteq closing.todo, closing'.at \in {i, NoSession},
         closing.todo \ {i} \subseteq closing'.todo
  PROVE  Streaming' /\ \A j \in Ids : Follows(sess[j], sess'[j])
<1>1. sess \in [Ids -> StreamSession] /\ got \in [Ids -> Received] /\ caller \in [Callers -> User]
  BY DEF Streaming, Sessions
<1>2. sess'[i] = t /\ \A j \in Ids \ {i} : sess'[j] = sess[j]
  BY <1>1
<1>3. got' = [got EXCEPT ![i] = got[i]]
  BY <1>1
<1>4. Sessions' /\ \A j \in Ids : Follows(sess[j], sess'[j])
  BY <1>1, <1>3, OneSession DEF Streaming
<1>5. Tabled'
  BY <1>4, TablesAfter DEF Streaming
<1>6. /\ \A j \in closing'.todo : Begun(sess'[j])
      /\ closing'.at # NoSession => sess'[closing'.at].cancelled /\ Begun(sess'[closing'.at])
      /\ \A j \in closing.todo : j \in closing'.todo \/ sess'[j].cancelled
  <2>1. closing.todo \subseteq Ids /\ \A j \in closing.todo : Begun(sess[j])
    BY DEF Streaming, Using, Closing
  <2> QED
    BY <1>2, <1>4, <2>1 DEF Follows
<1>7. Using'
  <2>1. \A j \in Ids : sess'[j].running /\ j \notin table' => sess[j].running /\ j \notin table
    BY <1>2
  <2> QED
    BY <1>4, <1>6, <2>1, UsersAfter DEF Streaming
<1> QED
  BY <1>4, <1>5, <1>7 DEF Streaming

LEMMA CloseCancelStep ==
  ASSUME Streaming, UNCHANGED limits, NEW i \in Ids, Stream!CloseCancel(i)
  PROVE  Streaming' /\ \A j \in Ids : Follows(sess[j], sess'[j])
<1> DEFINE s == sess[i]
           t == [s EXCEPT !.cancelled = TRUE]
<1>1. /\ Good(limits, s, got[i]) /\ s \in StreamSession /\ Begun(s) /\ closing \in Closing
  BY DEF Streaming, Sessions, Using, Good, Stream!CloseCancel
<1>2. /\ UNCHANGED <<table, caller, got>> /\ sess' = [sess EXCEPT ![i] = t]
      /\ closing' = [todo |-> closing.todo \ {i}, at |-> i]
  BY DEF Stream!CloseCancel
<1>3. /\ t \in StreamSession /\ t.frames = s.frames /\ t.nextSeq = s.nextSeq /\ t.cursor = s.cursor
      /\ t.dropped = s.dropped /\ t.done = s.done /\ t.reason = s.reason /\ t.cancelled /\ t.running = s.running
  BY <1>1 DEF StreamSession
<1> HIDE DEF t, s
<1>4. Life(t) /\ Follows(s, t) /\ Begun(t)
  BY <1>1, <1>3 DEF Good, Life, Begun, Follows
<1>5. Good(limits, t, got[i])
  BY <1>1, <1>3, <1>4, Marked
<1>6. /\ closing' \in Closing /\ closing'.todo \subseteq closing.todo /\ closing'.at \in {i, NoSession}
      /\ closing.todo \ {i} \subseteq closing'.todo
  BY <1>1, <1>2 DEF Closing
<1> QED
  BY <1>2, <1>3, <1>4, <1>5, <1>6, Closed DEF s

LEMMA CloseFinishStep ==
  ASSUME Streaming, UNCHANGED limits, Stream!CloseFinish
  PROVE  Streaming' /\ \A j \in Ids : Follows(sess[j], sess'[j])
<1> DEFINE i == closing.at
           s == sess[i]
           r == "closed"
           t == Stream!Finished(s, r)
<1>1. closing.at # NoSession /\ closing \in Closing
  BY DEF Stream!CloseFinish, Streaming, Using
<1>2. i \in Ids
  BY <1>1 DEF Closing
<1>3. /\ Good(limits, s, got[i]) /\ s \in StreamSession /\ Life(s) /\ s.cancelled /\ Begun(s) /\ r \in Reasons
  BY <1>1, <1>2 DEF Streaming, Sessions, Using, Good, Reasons
<1>4. /\ UNCHANGED <<table, caller, got>> /\ sess' = [sess EXCEPT ![i] = t]
      /\ closing' = [closing EXCEPT !.at = NoSession]
  BY DEF Stream!CloseFinish
<1>5. /\ t \in StreamSession /\ t.done /\ t.reason \in Reasons /\ (s.done => t.reason = s.reason)
      /\ t.frames = s.frames /\ t.nextSeq = s.nextSeq /\ t.cursor = s.cursor /\ t.dropped = s.dropped
      /\ t.cancelled = s.cancelled /\ t.running = s.running
  <2> HIDE DEF s, r
  <2> QED
    BY <1>3, FinishedFacts
<1> HIDE DEF t, s
<1>6. Life(t) /\ Follows(s, t) /\ Begun(t)
  BY <1>3, <1>5, ReasonsSaid DEF Life, Begun, Follows
<1>7. Good(limits, t, got[i])
  BY <1>3, <1>5, <1>6, Marked
<1>8. /\ closing' \in Closing /\ closing'.todo \subseteq closing.todo /\ closing'.at \in {i, NoSession}
      /\ closing.todo \ {i} \subseteq closing'.todo
  BY <1>1, <1>4 DEF Closing
<1> HIDE DEF i
<1> QED
  BY <1>2, <1>3, <1>4, <1>5, <1>6, <1>7, <1>8, Closed DEF s

LEMMA TickStep ==
  ASSUME Streaming, UNCHANGED limits, Stream!Tick
  PROVE  Streaming' /\ \A j \in Ids : Follows(sess[j], sess'[j])
<1>1. ASSUME NEW j \in Ids
      PROVE  /\ Good(limits, sess'[j], got[j]) /\ Follows(sess[j], sess'[j])
             /\ sess'[j].running => sess[j].running
  <2> DEFINE s == sess[j]
             t == sess'[j]
             g == got[j]
             a == Stream!Least(s.idle + 1, IdleTTL + 1)
             b == Stream!Least(s.age + 1, Stream!MaxLifetime + 1)
  <2>1. Good(limits, s, g) /\ s \in StreamSession /\ Life(s) /\ limits \in Limits /\ (j \in table => Begun(s))
    BY DEF Streaming, Sessions, Good, Tabled
  <2>2. t = IF j \in table THEN [s EXCEPT !.idle = a, !.age = b] ELSE s
    BY DEF Stream!Tick
  <2>3. a \in Nat /\ b \in Nat
    <3>1. s.idle \in Nat /\ s.age \in Nat
      BY <2>1 DEF StreamSession
    <3>2. limits.maxLifetime \in Nat /\ IdleTTL \in Nat
      BY <2>1, LimitFacts
    <3> HIDE DEF s
    <3> QED
      BY <3>1, <3>2 DEF Stream!Least, Stream!MaxLifetime
  <2> HIDE DEF s, t, g, a, b
  <2>4. CASE j \in table
    <3>1. t = [s EXCEPT !.idle = a, !.age = b]
      BY <2>2, <2>4
    <3>2. /\ t \in StreamSession /\ t.frames = s.frames /\ t.nextSeq = s.nextSeq /\ t.cursor = s.cursor
          /\ t.dropped = s.dropped /\ t.done = s.done /\ t.reason = s.reason /\ t.cancelled = s.cancelled
          /\ t.running = s.running
      BY <2>1, <2>3, <3>1 DEF StreamSession
    <3>3. Life(t) /\ Follows(s, t)
      BY <2>1, <2>4, <3>2 DEF Life, Begun, Follows
    <3>4. Good(limits, t, g)
      BY <2>1, <3>2, <3>3, Marked
    <3> QED
      BY <3>2, <3>3, <3>4 DEF s, t, g
  <2>5. CASE j \notin table
    <3>1. t = s /\ Follows(s, s)
      BY <2>2, <2>5 DEF Follows
    <3> QED
      BY <2>1, <3>1 DEF s, t, g
  <2> QED
    BY <2>4, <2>5
<1>2. UNCHANGED <<table, closing, caller, got>> /\ sess' = [j \in Ids |-> sess'[j]]
  BY DEF Stream!Tick
<1> QED
  BY <1>1, <1>2, Cleared

-----------------------------------------------------------------------------
(* The invariant of the sessions holds at first and is kept. *)
LEMMA StreamingInit ==
  ASSUME Stream!Init
  PROVE  Streaming
<1> DEFINE s == Stream!Fresh
           g == [polled |-> <<>>, drops |-> 0, stops |-> {}]
<1>1. <<>> \in Seq(Frame) /\ Len(<<>>) = 0
  BY EmptySeq
<1>2. g \in Received /\ g.polled = <<>> /\ g.drops = 0 /\ g.stops = {}
  BY <1>1 DEF Received
<1>3. \A i \in Ids : sess[i] = s /\ got[i] = g
  BY DEF Stream!Init
<1>4. limits \in Limits /\ table = {} /\ caller = [c \in Callers |-> Stream!Idle] /\ Stream!Idle \in User
      /\ Stream!Idle.op = "none" /\ closing = [todo |-> {}, at |-> NoSession]
  BY DEF Stream!Init, Stream!Idle, User
<1>5. sess \in [Ids -> StreamSession] /\ got \in [Ids -> Received]
  BY <1>2, FreshFacts DEF Stream!Init
<1> HIDE DEF s, g
<1>15. s.frames = <<>> /\ Len(s.frames) = 0 /\ s.nextSeq = 0 /\ s.cursor = 0 /\ s.dropped = 0
  BY FreshFacts DEF s
<1>6. Ring(limits, s)
  BY <1>15 DEF Ring, Contiguous
<1>7. Left(s) = 0
  BY <1>15 DEF Left
<1>8. Ledger(s, g)
  BY <1>1, <1>2, <1>7, <1>15 DEF Ledger
<1>9. Life(s) /\ ~Begun(s)
  BY FreshFacts DEF Life, Begun, s
<1>10. Good(limits, s, g)
  BY <1>2, <1>6, <1>8, <1>9, FreshFacts DEF Good, Answers, s
<1>11. Sessions
  BY <1>3, <1>4, <1>5, <1>10 DEF Sessions
<1>12. Stream!LiveOnes = {} /\ IsFiniteSet({}) /\ Cardinality({}) = 0
  BY <1>4, FS_EmptySet DEF Stream!LiveOnes
<1>13. Tabled
  BY <1>4, <1>12, StreamAssumption DEF Tabled
<1>14. Using
  <2>1. \A i \in Ids : ~sess[i].running
    BY <1>3, FreshFacts DEF s
  <2>2. \A c \in Callers : caller[c].op = "none"
    BY <1>4
  <2>3. closing \in Closing /\ closing.todo = {} /\ closing.at = NoSession
    BY <1>4 DEF Closing
  <2> QED
    BY <2>1, <2>2, <2>3 DEF Using, Stream!NoOrphan
<1> QED
  BY <1>11, <1>13, <1>14 DEF Streaming

LEMMA StreamingStep ==
  ASSUME Streaming, [Stream!Next]_(Stream!vars)
  PROVE  Streaming' /\ \A j \in Ids : Follows(sess[j], sess'[j])
<1>1. CASE UNCHANGED Stream!vars
  <2>1. UNCHANGED <<limits, sess, table, closed, closing, caller, got>>
    BY <1>1 DEF Stream!vars
  <2>2. Sessions' /\ Tabled' /\ Using'
    BY <2>1 DEF Streaming, Sessions, Tabled, Using, Stream!LiveOnes, Stream!NoOrphan
  <2> QED
    BY <2>1, <2>2 DEF Streaming, Follows
<1>2. CASE Stream!Next
  <2> USE <1>2 DEF Stream!Next, Stream!Step
  <2>1. CASE \E i \in Ids : Stream!Start(i)
    BY <2>1, StartStep
  <2>2. CASE \E i \in Ids : \E size \in Stream!Sizes : Stream!Push(i, size)
    BY <2>2, PushFrameStep
  <2>3. CASE \E i \in Ids : \E err \in BOOLEAN : Stream!RunReturns(i, err)
    BY <2>3, RunReturnsStep
  <2>4. CASE \E i \in Ids : \E c \in Callers : Stream!PollBegin(c, i)
    BY <2>4, PollBeginStep
  <2>5. CASE \E i \in Ids : \E c \in Callers : Stream!StopBegin(c, i)
    BY <2>5, StopBeginStep
  <2>6. CASE \E c \in Callers : Stream!StopCancel(c)
    BY <2>6, StopCancelStep
  <2>7. CASE \E c \in Callers : Stream!StopFinish(c)
    BY <2>7, StopFinishStep
  <2>8. CASE \E c \in Callers : \E max \in 1 .. Stream!PollFrames : Stream!Poll(c, max)
    BY <2>8, PollStep
  <2>9. CASE Stream!Sweep
    BY <2>9, SweepStep
  <2>10. CASE Stream!CloseAll
    BY <2>10, CloseAllStep
  <2>11. CASE Stream!Tick
    BY <2>11, TickStep
  <2>12. CASE \E c \in Callers : Stream!StopReport(c)
    BY <2>12, StopReportStep
  <2>13. CASE \E i \in Ids : Stream!CloseCancel(i)
    BY <2>13, CloseCancelStep
  <2>14. CASE Stream!CloseFinish
    BY <2>14, CloseFinishStep
  <2> QED
    BY <2>1, <2>2, <2>3, <2>4, <2>5, <2>6, <2>7, <2>8, <2>9, <2>10, <2>11, <2>12, <2>13, <2>14
<1> QED
  BY <1>1, <1>2

(* What the invariant says of the sessions. *)
LEMMA StreamingKept ==
  ASSUME Streaming
  PROVE  Stream!TypeOK /\ Stream!LiveBounded /\ Stream!Accounted /\ Stream!StopAnswers /\ Stream!NoOrphan
<1>1. ASSUME NEW i \in Ids
      PROVE  /\ sess[i].frames # <<>> => Stream!Fits(sess[i].frames) /\ Stream!Last(sess[i].frames).seq = sess[i].nextSeq - 1
             /\ \A k \in 1 .. (Len(sess[i].frames) - 1) : sess[i].frames[k + 1].seq = sess[i].frames[k].seq + 1
             /\ ~Stream!Started(i) => sess[i] = Stream!Fresh
             /\ sess[i].done = (sess[i].reason # "")
             /\ \A k \in 1 .. (Len(got[i].polled) - 1) : got[i].polled[k].seq < got[i].polled[k + 1].seq
             /\ sess[i].nextSeq = Len(got[i].polled) + got[i].drops + sess[i].dropped + Len(Stream!Unread(sess[i]))
  <2> DEFINE s == sess[i]
             fs == s.frames
             L == Len(fs)
  <2>1. Good(limits, s, got[i]) /\ s \in StreamSession
    BY DEF Streaming, Sessions
  <2>2. /\ fs \in Seq(Frame) /\ L \in Nat /\ s.nextSeq \in Nat /\ s.done \in BOOLEAN
        /\ \A k \in 1 .. L : fs[k].seq = s.nextSeq - L + k - 1
    BY <2>1, LenProperties DEF StreamSession, Good, Ring, Contiguous
  <2>3. ASSUME fs # <<>>
        PROVE  Stream!Fits(fs) /\ Stream!Last(fs).seq = s.nextSeq - 1
    <3>1. L # 0 /\ Room(limits, fs)
      BY <2>1, <2>2, <2>3, EmptySeq DEF Good, Ring
    <3>4. L \in 1 .. L
      BY <2>2, <3>1
    <3>5. Stream!Last(fs) = fs[L]
      BY DEF Stream!Last
    <3>2. fs[L].seq = s.nextSeq - L + L - 1 /\ Stream!Last(fs) = fs[L]
      BY <2>2, <3>4, <3>5
    <3>3. s.nextSeq - L + L - 1 = s.nextSeq - 1
      BY <2>2
    <3> QED
      BY <3>1, <3>2, <3>3 DEF Stream!Fits, Stream!MaxFrames, Room
  <2>4. ASSUME NEW k \in 1 .. (L - 1)
        PROVE  fs[k + 1].seq = fs[k].seq + 1
    <3>1. k \in 1 .. L /\ k + 1 \in 1 .. L
      BY <2>2
    <3>2. fs[k + 1].seq = s.nextSeq - L + (k + 1) - 1 /\ fs[k].seq = s.nextSeq - L + k - 1
      BY <2>2, <3>1
    <3> HIDE DEF L, fs, s
    <3> QED
      BY <2>2, <3>2
  <2>5. (~Stream!Started(i) => s = Stream!Fresh) /\ s.done = (s.reason # "")
    BY <2>1, <2>2 DEF Good, Life, Begun, Stream!Started
  <2>6. Len(Stream!Unread(s)) = Left(s)
    BY <2>1, UnreadFacts DEF Good, Ring
  <2> HIDE DEF s
  <2>7. /\ \A k \in 1 .. (Len(got[i].polled) - 1) : got[i].polled[k].seq < got[i].polled[k + 1].seq
        /\ s.nextSeq = Len(got[i].polled) + got[i].drops + s.dropped + Len(Stream!Unread(s))
    BY <2>1, <2>6 DEF Good, Ledger
  <2> QED
    BY <2>3, <2>4, <2>5, <2>7 DEF s
<1>2. Stream!TypeOK /\ Stream!Accounted
  BY <1>1 DEF Stream!TypeOK, Stream!Accounted
<1>4. Stream!StopAnswers
  BY DEF Streaming, Sessions, Good, Answers, Stream!StopAnswers, Stream!PollFrames
<1>3. Stream!LiveBounded
  BY DEF Streaming, Tabled, Stream!LiveBounded, Stream!Cardinality, Cardinality
<1> QED
  BY <1>2, <1>3, <1>4 DEF Streaming, Using

(* What concurrent polls, pushes, stops and sweeps do to the sessions they *)
(* share, and what a session's goroutine reads from its stream (stream.go, *)
(* graphql_ws.go, grpc_stream.go): no session is lost, exceeded or         *)
(* unstoppable, no frame is lost without being reported or left out of the *)
(* full answer of a stop, an end stays as it was told and is the one the   *)
(* stream had.                                                             *)
THEOREM SessionsSafe == FSpec => SessionsKept
<1>1. FInit => Streaming /\ Reader!Init
  BY StreamingInit DEF FInit
<1>2. [FNext]_<<vars, stream, link, reader, scene>> => [Stream!Next]_(Stream!vars) /\ [Reader!Next]_<<link, reader>>
  BY DEF FNext, stream, Stream!vars
<1>3. Streaming /\ [Stream!Next]_(Stream!vars) => Streaming'
  BY StreamingStep
<1>4. Streaming /\ [Stream!Next]_(Stream!vars)
        => [\A i \in Ids : sess[i].done => sess'[i].done /\ sess'[i].reason = sess[i].reason]_(Stream!vars)
  BY StreamingStep DEF Follows
<1>5. Streaming => Stream!TypeOK /\ Stream!LiveBounded /\ Stream!Accounted /\ Stream!StopAnswers /\ Stream!NoOrphan
  BY StreamingKept
<1>6. Reader!Init => Faithful(link, reader)
  BY FaithfulInit
<1>7. Faithful(link, reader) /\ [Reader!Next]_<<link, reader>> => Faithful(link, reader)'
  BY FaithfulStep
<1>8. Faithful(link, reader) => Reader!ReadersTrue
  BY FaithfulReaders
<1> QED
  BY <1>1, <1>2, <1>3, <1>4, <1>5, <1>6, <1>7, <1>8, PTL DEF FSpec, SessionsKept, Stream!SessionsKept, Stream!FirstReasonWins

(* The runtime of forged APIs as a whole: what holds of its token managers *)
(* (token.go), its stream sessions (stream.go) and their readers           *)
(* (graphql_ws.go, grpc_stream.go, grpc_connect.go).                       *)
THEOREM ForgeSafe == FSpec => TokensKept /\ SessionsKept
<1>1. FInit => Init
  BY DEF FInit
<1>2. [FNext]_<<vars, stream, link, reader, scene>> => [Next]_vars
  BY DEF FNext
<1>3. FSpec => Spec
  BY <1>1, <1>2, PTL DEF FSpec, Spec
<1> QED
  BY <1>3, TokensSafe, SessionsSafe
=============================================================================
