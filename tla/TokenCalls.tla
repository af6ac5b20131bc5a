----------------------------- MODULE TokenCalls -----------------------------
(***************************************************************************)
(* Concurrent calls of a forged API that share one token manager: the      *)
(* cached bearer, the mutex that is held over the requests to the token    *)
(* endpoint, and the retry loop of each call, which renews a rejected      *)
(* bearer once.                                                            *)
(*                                                                         *)
(* A token is the number of the response that brought it; 0 is no token.   *)
(* A call may carry a bearer of its own instead (WithBearer).              *)
(***************************************************************************)
EXTENDS Integers, FiniteSets, FiniteSetsExt

CONSTANTS
    Calls,        \* concurrent calls
    Setups,       \* the integrations: kind of grant, and the calls with their own bearer
    MaxRetries,   \* Options.MaxRetries
    MaxTokens     \* bound on the tokens the server issues

ASSUME TokenAssumption ==
    /\ Setups \subseteq [static : BOOLEAN, delegated : SUBSET Calls]
    /\ MaxRetries \in Nat /\ MaxTokens \in Nat \ {0}

None == "none"
Own  == -1              \* the bearer of a delegated call
Over == {"done", "failed"}

ASSUME CallsAssumption == IsFiniteSet(Calls) /\ None \notin Calls

VARIABLES
    setup,              \* how this integration is set up; it never changes
    access, refresh,    \* tokenManager.access, .refresh
    known,              \* its expiry is known
    aged,               \* it is within the margin of its expiry
    holder,             \* the call in the mutex
    call,               \* the calls
    issued,             \* the tokens issued by the server
    live, renewable,    \* the access and refresh tokens the server accepts
    history             \* what happened so far, for the properties

manager == <<access, refresh, known, aged, holder>>
server  == <<issued, live, renewable>>
vars    == <<setup, manager, call, server, history>>

Static    == setup.static       \* AuthStatic: token 1 comes from the environment
Delegated == setup.delegated    \* the calls made WithBearer

Init ==
    /\ setup \in Setups
    /\ access = 0 /\ refresh = 0 /\ known = FALSE /\ aged = FALSE /\ holder = None
    /\ call = [c \in Calls |-> [pc |-> "start", bearer |-> 0, attempt |-> 0, retried |-> FALSE,
                                reply |-> [access |-> 0, refresh |-> 0]]]
    /\ issued = IF Static THEN 1 ELSE 0
    /\ live = {Own} \union 1 .. issued /\ renewable = 1 .. issued
    /\ history = [requests |-> [c \in Calls |-> 0], causes |-> 1, newest |-> 0, spent |-> {}]

Step(c, pc) == call' = [call EXCEPT ![c].pc = pc]

-----------------------------------------------------------------------------
(* The token manager. *)

(* Token and Refresh take the mutex.  Token is content with a cached bearer *)
(* that is not about to expire; else the cached refresh token is exchanged, *)
(* and without one the manager logs in.                                     *)
Enter(c) ==
    /\ holder' = c
    /\ Step(c, IF refresh # 0 THEN "exchange" ELSE "login")
    /\ UNCHANGED <<access, refresh, known, aged>>

Asks(c) == call[c].pc = "start" /\ c \notin Delegated

LockUnguarded(c) ==
    /\ Asks(c) \/ call[c].pc = "rejected"
    /\ Enter(c)
    /\ UNCHANGED <<server, history>>

Lock(c) ==
    /\ holder = None
    /\ \/ /\ Asks(c) /\ access # 0 /\ ~aged
          /\ call' = [call EXCEPT ![c].pc = "send", ![c].bearer = access]
          /\ UNCHANGED manager
       \/ /\ Asks(c) /\ (access = 0 \/ aged)
          /\ Enter(c)
       \/ /\ call[c].pc = "rejected"
          /\ Enter(c)
    /\ UNCHANGED <<server, history>>

(* The endpoint issues a token, with or without a refresh token; an answer *)
(* that does not arrive, or has no access token in it, is an error.        *)
Issue(c, lostPc) ==
    /\ issued < MaxTokens /\ issued' = issued + 1
    /\ live' = live \union {issued'}
    /\ \E r \in {0, issued'} :
         /\ renewable' = (IF r = 0 THEN renewable ELSE renewable \union {r})
         /\ \/ /\ call' = [call EXCEPT ![c].pc = "store", ![c].reply = [access |-> issued', refresh |-> r]]
               /\ UNCHANGED history
            \/ /\ Step(c, lostPc)
               /\ history' = [history EXCEPT !.causes = @ + 1]

(* A refused exchange falls back to a login, under the same lock. *)
Exchange(c) ==
    /\ call[c].pc = "exchange"
    /\ \/ refresh \in renewable /\ Issue(c, "login")
       \/ Step(c, "login") /\ UNCHANGED <<server, history>>
    /\ UNCHANGED manager

Release == holder' = None

LoginFailed(c) ==
    /\ call[c].pc = "login" /\ ~Static
    /\ Step(c, "failed") /\ Release
    /\ UNCHANGED <<access, refresh, known, aged, server, history>>

LoginFailedHolding(c) ==
    /\ call[c].pc = "login" /\ ~Static
    /\ Step(c, "failed")
    /\ UNCHANGED <<manager, server, history>>

(* A call that cannot renew its bearer ends with its 401. *)
FailLogin(c) == LoginFailed(c)

(* A login whose answer is lost is an error of the call. *)
Login(c) ==
    /\ call[c].pc = "login"
    /\ \/ /\ ~Static /\ Issue(c, "unlock")
       \/ /\ Static
          /\ call' = [call EXCEPT ![c].pc = "store", ![c].reply = [access |-> 1, refresh |-> 1]]
          /\ UNCHANGED <<server, history>>
    /\ UNCHANGED manager

Unlock(c) ==
    /\ call[c].pc = "unlock"
    /\ Step(c, "failed") /\ Release
    /\ UNCHANGED <<access, refresh, known, aged, server, history>>

(* store: an answer without a refresh token keeps the previous one.  The   *)
(* call goes on with the new bearer.                                       *)
KeepOldRefresh(new, old) == IF old # 0 THEN old ELSE new

NextRefresh(new, old) == IF new # 0 THEN new ELSE old

Store(c) ==
    /\ call[c].pc = "store"
    /\ LET r == call[c].reply
       IN  /\ access' = r.access /\ refresh' = NextRefresh(r.refresh, refresh)
           /\ call' = [call EXCEPT ![c].pc = "send", ![c].bearer = r.access,
                                   ![c].reply = [access |-> 0, refresh |-> 0]]
           /\ history' = [history EXCEPT !.newest = Max({@, r.access}),
                             !.spent = IF r.refresh \notin {0, refresh} THEN @ \union {refresh} ELSE @]
    /\ known' \in IF Static /\ access' = 1 THEN {FALSE} ELSE BOOLEAN
    /\ aged' = FALSE
    /\ Release
    /\ UNCHANGED server

-----------------------------------------------------------------------------
(* The loop of a call. *)

(* A bearer of the call's own goes before the token manager. *)
UseOwn(c) ==
    /\ call[c].pc = "start" /\ c \in Delegated
    /\ call' = [call EXCEPT ![c].pc = "send", ![c].bearer = Own]
    /\ UNCHANGED <<manager, server, history>>

CanAlways(c) == TRUE

CanRefresh(c) == c \notin Delegated

Sent(c) == history' = [history EXCEPT !.requests[c] = @ + 1]

Succeed(c) ==
    /\ call[c].pc = "send" /\ call[c].bearer \in live
    /\ Step(c, "done") /\ Sent(c)
    /\ UNCHANGED <<manager, server>>

(* The first 401 has the bearer renewed; the attempt is not counted. *)
RejectedAgain(c) ==
    /\ call[c].pc = "send" /\ call[c].bearer \notin live
    /\ IF CanRefresh(c)
         THEN /\ call' = [call EXCEPT ![c].pc = "rejected"]
              /\ history' = [history EXCEPT !.requests[c] = @ + 1, !.causes = @ + 1]
         ELSE Step(c, "failed") /\ Sent(c)
    /\ UNCHANGED <<manager, server>>

Rejected(c) ==
    /\ call[c].pc = "send" /\ call[c].bearer \notin live
    /\ IF ~call[c].retried /\ CanRefresh(c)
         THEN /\ call' = [call EXCEPT ![c].pc = "rejected", ![c].retried = TRUE]
              /\ history' = [history EXCEPT !.requests[c] = @ + 1, !.causes = @ + 1]
         ELSE Step(c, "failed") /\ Sent(c)
    /\ UNCHANGED <<manager, server>>

(* 429, 5xx and transport errors count; the wait before the next attempt   *)
(* ends early when the context is done.                                    *)
Busy(c) ==
    /\ call[c].pc = "send"
    /\ Sent(c)
    /\ \/ /\ call[c].attempt < MaxRetries
          /\ call' = [call EXCEPT ![c].attempt = @ + 1]
       \/ Step(c, "failed")
    /\ UNCHANGED <<manager, server>>

-----------------------------------------------------------------------------
(* Time passes, and the server revokes tokens. *)
Age ==
    /\ access # 0 /\ known /\ ~aged /\ aged' = TRUE
    /\ history' = [history EXCEPT !.causes = @ + 1]
    /\ UNCHANGED <<access, refresh, known, holder, call, server>>

Revoke(t) ==
    /\ t \in live
    /\ live' = live \ {t} /\ renewable' \in {renewable, renewable \ {t}}
    /\ UNCHANGED <<manager, call, issued, history>>

Do(c) ==
    \/ Lock(c) \/ Exchange(c) \/ FailLogin(c) \/ Login(c) \/ Unlock(c) \/ Store(c)
    \/ UseOwn(c) \/ Succeed(c) \/ Rejected(c) \/ Busy(c)

Next ==
    /\ Age \/ (\E t \in live : Revoke(t)) \/ \E c \in Calls : Do(c)
    /\ UNCHANGED setup

Spec == Init /\ [][Next]_vars

(* A goroutine goes on, the token endpoint answers or the client times     *)
(* out, and a freed mutex goes to the waiting goroutines in their order.   *)
Goes(c)  == Do(c) /\ UNCHANGED setup
Locks(c) == Lock(c) /\ UNCHANGED setup

LiveSpec == Spec /\ \A c \in Calls : WF_vars(Goes(c)) /\ SF_vars(Locks(c))

-----------------------------------------------------------------------------
(* Properties. *)

(* The mutex has one holder at most, and it is the call that talks to the  *)
(* token endpoint; the cache holds only tokens of the server.              *)
Inside == {c \in Calls : call[c].pc \in {"exchange", "login", "unlock", "store"}}
TypeOK ==
    /\ access \in 0 .. issued /\ refresh \in 0 .. issued /\ issued \in 0 .. MaxTokens
    /\ Inside = (IF holder = None THEN {} ELSE {holder})
    /\ \A c \in Calls : call[c].bearer \in {0, Own} \union 1 .. issued
    /\ {known, aged} \subseteq BOOLEAN /\ (access = 0 => ~known /\ ~aged)

(* "on a 401, refresh the token ONCE and retry the request a single extra  *)
(* time" (executor.go:203), whatever rejections and failures alternate.    *)
RequestsBounded == \A c \in Calls : history.requests[c] <= MaxRetries + 2

(* "injected by the owner for that one request only and never cached"      *)
(* (executor.go:36): no renewal puts the owner's token into a delegated    *)
(* call, or its token into the cache or another call.                      *)
DelegatedApart ==
    /\ access # Own
    /\ \A c \in Calls : call[c].pc \in {"send", "rejected"} \union Over /\ call[c].bearer # 0
                          => (call[c].bearer = Own) = (c \in Delegated)

(* Of all tokens received the cache has the one issued last: no late       *)
(* answer of the endpoint overwrites a younger token.                      *)
CacheNewest == ~Static => access = history.newest

(* A refresh token that has been exchanged for another one is not          *)
(* presented again (servers that rotate them take that for theft).         *)
NoReplay ==
    [][ \A c \in Calls : ~Static /\ Exchange(c) => refresh \notin history.spent ]_vars

(* "Serialized acquisition: the first caller logs in, the rest see the     *)
(* cache" (token_test.go:315): a burst of calls gets one token, unless a   *)
(* token aged, a call was rejected or an answer was lost.                  *)
SingleFlight == issued <= history.causes + (IF Static THEN 1 ELSE 0)

(* Every call comes to an end, with the mutex free. *)
CallsEnd == <>[](holder = None /\ \A c \in Calls : call[c].pc \in Over)

(* What concurrent calls do to the tokens they share: a delegate's token   *)
(* stays its own, the newest stays in the cache, a refresh token is used   *)
(* once, and neither logins nor retries multiply (token.go, executor.go).  *)
TokensKept ==
    /\ [](TypeOK /\ RequestsBounded /\ DelegatedApart /\ CacheNewest /\ SingleFlight)
    /\ NoReplay
=============================================================================
