---------------------------- MODULE ProviderCall ----------------------------
(***************************************************************************)
(* One call of a model provider: the attempts of the retry policy, the     *)
(* effort self-heal and the fallback model of the Claude provider, the     *)
(* staged degrade of the OpenAI-compatible ones, and the assembly of a     *)
(* streamed reply whose connection may break at any event.                 *)
(*                                                                         *)
(* A reply is a sequence of blocks, a block its kind and the number of its *)
(* fragments; a fragment is <<request, block, number>>.  A tool's input is *)
(* valid JSON when all its fragments are there, or none.  A server may     *)
(* give no reason for the end of a Chat Completions reply (silent).  Which *)
(* words an error message has, and so its class, is a choice.              *)
(***************************************************************************)
EXTENDS Integers, Sequences, FiniteSets, Ordered

CONSTANTS
    Setups,         \* [dialect, streams, effort, fallback]
    Replies(_),     \* the replies a server of a dialect may give: [blocks, cut, silent]
    MaxAttempts,    \* RetryPolicy.MaxAttempts
    BaseDelay, MaxDelay,
    Statuses,       \* HTTP statuses the server may answer with
    RetryAfters     \* and the values of Retry-After, 0 if there is none

Setup == [dialect : {"claude", "chat", "responses"}, streams : BOOLEAN, effort : BOOLEAN, fallback : BOOLEAN]

ASSUME ProviderAssumption ==
    /\ Setups \subseteq Setup /\ {MaxAttempts, BaseDelay, MaxDelay} \subseteq Nat \ {0}
    /\ Statuses \subseteq 200 .. 599 /\ RetryAfters \subseteq Nat

(* A reply that is cut lacks a fragment, so that its blocks have some.     *)
Block == [kind : {"text", "tool", "thinking"}, size : Nat \ {0}]

ASSUME ReplyAssumption ==
    \A s \in Setups : \A r \in Replies(s.dialect) :
        r \in [blocks : Seq(Block), cut : BOOLEAN, silent : BOOLEAN] /\ (r.silent => s.dialect = "chat")

VARIABLES
    setup,       \* how the provider was built; it never changes
    pc,
    attempt,     \* of retryWithPolicy
    stage,       \* of the degrade: 1 stream, 2 without stream_options, 3 no stream
    effort,      \* output_config.effort is sent
    model,
    err,         \* the error of the last attempt
    delay,       \* the wait before the next one
    reply,       \* what the server is sending
    acc,         \* the accumulators: block -> fragments
    sent,        \* block -> fragments sent
    committed,   \* text reached the callback
    cancelled,   \* the caller's context
    result,      \* what the call returned
    shown,       \* the text fragments the callback got
    history      \* requests, time slept, and more, for the properties

local  == <<attempt, stage, effort, model, err, delay>>
stream == <<reply, acc, sent>>
vars   == <<setup, pc, local, stream, committed, cancelled, result, shown, history>>

Claude  == setup.dialect = "claude"
NoReply == [blocks |-> <<>>, cut |-> FALSE, silent |-> FALSE]
NoError == "none"
None    == [text |-> <<>>, tools |-> <<>>, thinking |-> <<>>, stop |-> ""]

Init ==
    /\ setup \in Setups
    /\ pc = "check" /\ attempt = 1 /\ stage = IF setup.streams THEN 1 ELSE 3
    /\ effort = setup.effort /\ model = "primary" /\ err = NoError /\ delay = 0
    /\ reply = NoReply /\ acc = <<>> /\ sent = <<>>
    /\ committed = FALSE /\ cancelled = FALSE /\ shown = <<>>
    /\ result = [ok |-> FALSE, err |-> NoError, response |-> None]
    /\ history = [requests |-> 0, slept |-> 0, refused |-> FALSE, garbled |-> FALSE]

-----------------------------------------------------------------------------
(* Classification and backoff. *)
RetryAll(status) == IF status \in 200 .. 299 THEN "success" ELSE "transient"

ClassifyHTTP(status) ==
    CASE status \in 200 .. 299 -> "success"
      [] status \in {408, 429, 529} \/ status >= 500 -> "transient"
      [] OTHER -> "fatal"

(* Errors without a status.  A missing terminator is no error that the     *)
(* words of classifyTransportError know; Claude's stream errors do not     *)
(* come here.                                                              *)
ClassifyTransport(e) ==
    CASE e = "reset" -> "transient"
      [] OTHER -> "fatal"

ClaudeStreamClass(e) == "transient"

StreamClass(e) == IF Claude THEN ClaudeStreamClass(e) ELSE ClassifyTransport(e)

(* backoffFor: Retry-After up to the cap, else doubled each time up to the *)
(* cap, and then up to a fifth more or less.                               *)
Uncapped(n, after) == {IF after > 0 THEN after ELSE BaseDelay * 2 ^ (n - 1)}

Least(a, b) == IF a < b THEN a ELSE b

Jitter(d) == d \div 5

BackoffFor(n, after) ==
    IF after > 0 THEN {Least(after, MaxDelay)}
    ELSE LET d == Least(BaseDelay * 2 ^ (n - 1), MaxDelay)
         IN  {d - Jitter(d), d, d + Jitter(d)}

-----------------------------------------------------------------------------
(* Responses. *)
OfKind(blocks, kind) == InOrder({i \in DOMAIN blocks : blocks[i].kind = kind})

(* An empty or truncated input becomes the empty object. *)
AsReceived(i, frags) == frags

Input(i, frags) == IF Len(frags) = reply.blocks[i].size THEN frags ELSE <<>>

(* A stop reason that is missing from a Chat Completions stream is made up. *)
NoDefault(tools, reason) == reason

StopReason(tools, reason) ==
    CASE reason # "" -> reason
      [] reason = "" /\ tools # <<>> -> "tool_use"
      [] OTHER -> "end_turn"

Nonempty(ss) == SelectSeq(ss, LAMBDA s : s # <<>>)

(* finalize: the blocks in the order of their indices. *)
Arrived(kind) == InOrder({i \in DOMAIN acc : reply.blocks[i].kind = kind})

Assembled(reason) ==
    LET tools == [n \in DOMAIN Arrived("tool") |->
                    [id |-> Arrived("tool")[n], input |-> Input(Arrived("tool")[n], acc[Arrived("tool")[n]])]]
    IN  [text     |-> Nonempty([n \in DOMAIN Arrived("text") |-> acc[Arrived("text")[n]]]),
         thinking |-> Nonempty([n \in DOMAIN Arrived("thinking") |-> acc[Arrived("thinking")[n]]]),
         tools    |-> tools, stop |-> StopReason(tools, reason)]

(* The reason the server gives for a reply, and what mapFinishReason makes *)
(* of it: without one a reply in one piece has ended its turn.             *)
Reason(r) ==
    CASE r.silent -> ""
      [] ~r.silent /\ r.cut -> "max_tokens"
      [] ~r.silent /\ ~r.cut /\ OfKind(r.blocks, "tool") # <<>> -> "tool_use"
      [] OTHER -> "end_turn"

MapFinishReason(reason) == IF reason = "" THEN "end_turn" ELSE reason

(* A reply in one piece: an unstreamed one, and the one that ends a        *)
(* Responses stream.  A reply cut off at the token limit lacks the last    *)
(* fragment of its last block.  Claude's inputs are JSON inside the body,  *)
(* so never truncated; the others are strings, taken as they are.          *)
Cut(r, i) == IF r.cut /\ i = Len(r.blocks) THEN 1 ELSE 0

InOnePiece(r, n) ==
    LET frags(i) == [k \in 1 .. (r.blocks[i].size - Cut(r, i)) |-> <<n, i, k>>]
        all(kind) == [m \in DOMAIN OfKind(r.blocks, kind) |-> frags(OfKind(r.blocks, kind)[m])]
    IN  [text |-> Nonempty(all("text")), thinking |-> Nonempty(all("thinking")),
         tools |-> [m \in DOMAIN OfKind(r.blocks, "tool") |->
                      LET i == OfKind(r.blocks, "tool")[m]
                      IN  [id |-> i, input |-> IF Claude /\ Cut(r, i) = 1 THEN <<>> ELSE frags(i)]],
         stop |-> MapFinishReason(Reason(r))]

-----------------------------------------------------------------------------
(* How an attempt ends. *)
Return(ok, e, response) ==
    /\ pc' = "done" /\ result' = [ok |-> ok, err |-> e, response |-> response]
    /\ UNCHANGED local

Succeed(response) == Return(TRUE, NoError, response)

FirstStage == IF setup.streams THEN 1 ELSE 3

ExhaustedLate == attempt > MaxAttempts

Exhausted == attempt = MaxAttempts

(* The fallback's own error is dropped for the primary's. *)
Failed(class, e, after) ==
    CASE model = "secondary" -> Return(FALSE, err, None)
      [] model = "primary" /\ (class = "fatal" \/ Exhausted) ->
           /\ pc' = "failed" /\ err' = e
           /\ UNCHANGED <<attempt, stage, effort, model, delay, result>>
      [] OTHER ->
           /\ pc' = "sleep" /\ err' = e /\ delay' \in BackoffFor(attempt, after)
           /\ UNCHANGED <<attempt, stage, effort, model, result>>

(* withStreamRetry: nothing is tried again once text was shown. *)
Uncommitted(class) == class

Guarded(class) == IF ~Claude /\ committed THEN "fatal" ELSE class

-----------------------------------------------------------------------------
(* retryWithPolicy. *)
MaxWait == (IF Claude /\ setup.effort THEN 2 ELSE 1) * (MaxAttempts - 1) * (MaxDelay + Jitter(MaxDelay))

Check ==
    /\ pc = "check"
    /\ IF cancelled
         THEN /\ pc' = "failed" /\ err' = IF err = NoError THEN "cancelled" ELSE err
         ELSE /\ pc' = "send" /\ UNCHANGED err
    /\ UNCHANGED <<setup, attempt, stage, effort, model, delay, stream, committed, cancelled, result, shown, history>>

Wake ==
    /\ pc = "sleep"
    /\ IF cancelled
         THEN pc' = "failed" /\ UNCHANGED <<attempt, stage, delay, history>>
         ELSE /\ pc' = "check" /\ attempt' = attempt + 1 /\ stage' = FirstStage /\ delay' = 0
              /\ history' = [history EXCEPT !.slept = Least(@ + delay, MaxWait + 1)]
    /\ UNCHANGED <<setup, effort, model, err, stream, committed, cancelled, result, shown>>

(* runWithRetryAndFallback, after the retries; the other providers return. *)
Heals(e) == effort /\ e = "effort"

StillSet == effort

Stripped == FALSE

FallsBack(e) == setup.fallback /\ e \notin {"effort", "400"}

AfterRetries ==
    /\ pc = "failed"
    /\ \/ /\ Claude /\ Heals(err)
          /\ pc' = "check" /\ effort' = Stripped /\ attempt' = 1 /\ err' = NoError
          /\ UNCHANGED <<stage, model, delay, result>>
       \/ /\ Claude /\ ~Heals(err) /\ FallsBack(err)
          /\ pc' = "send" /\ model' = "secondary"
          /\ UNCHANGED <<attempt, stage, effort, err, delay, result>>
       \/ /\ ~(Claude /\ (Heals(err) \/ FallsBack(err)))
          /\ Return(FALSE, err, None)
    /\ UNCHANGED <<setup, stream, committed, cancelled, shown, history>>

-----------------------------------------------------------------------------
(* A request.  With a cancelled context none goes out.  They are counted   *)
(* to one more than the call may need.                                     *)
MaxRequests ==
    CASE Claude -> (IF setup.effort THEN 2 ELSE 1) * MaxAttempts + (IF setup.fallback THEN 1 ELSE 0)
      [] ~Claude /\ ~setup.streams -> MaxAttempts
      [] setup.dialect = "chat" /\ setup.streams -> 3 * MaxAttempts
      [] setup.dialect = "responses" /\ setup.streams -> 2 * MaxAttempts

Requested(refused) ==
    history' = [history EXCEPT !.requests = Least(@ + 1, MaxRequests + 1), !.refused = @ \/ (refused /\ model = "primary"),
                               !.garbled = FALSE]

TransportError(e) ==
    /\ pc = "send"
    /\ \/ cancelled /\ e = "cancelled" /\ UNCHANGED history
       \/ ~cancelled /\ e # "cancelled" /\ Requested(FALSE)
    /\ Failed(Guarded(ClassifyTransport(e)), e, 0)
    /\ UNCHANGED <<setup, stream, committed, cancelled, shown>>

(* A refused stream is asked for once more without stream_options, and     *)
(* then not streamed; only the OpenAI-compatible providers do so.          *)
Degrades(status) == ~Claude /\ status = 400 /\ stage < 3

NextStage == IF setup.dialect = "chat" THEN stage + 1 ELSE 3

(* Claude's calls take every 2xx for a reply, the others only 200; but     *)
(* what they raise for another 2xx has the class of a success, and the     *)
(* call returns no response and no error.                                  *)
Raised(status) == IF Claude THEN ClassifyHTTP(status) # "success" ELSE status # 200

StatusError(status, after) ==
    /\ pc = "send" /\ ~cancelled /\ Raised(status) /\ ~Degrades(status)
    /\ Requested(status = 401)
    /\ \/ Guarded(ClassifyHTTP(status)) = "success" /\ Succeed(None)
       \/ /\ Guarded(ClassifyHTTP(status)) # "success"
          /\ \E e \in IF status = 400 THEN IF effort THEN {"400", "effort"} ELSE {"400"} ELSE {"status"} :
               Failed(Guarded(ClassifyHTTP(status)), e, after)
    /\ UNCHANGED <<setup, stream, committed, cancelled, shown>>

Degrade ==
    /\ pc = "send" /\ ~cancelled /\ 400 \in Statuses /\ Degrades(400)
    /\ Requested(FALSE) /\ stage' = NextStage
    /\ UNCHANGED <<setup, pc, attempt, effort, model, err, delay, stream, committed, cancelled, result, shown>>

(* An unstreamed reply: whole, with an error in it, or not decodable.      *)
Complete(r) ==
    /\ pc = "send" /\ ~cancelled /\ stage = 3
    /\ Requested(FALSE)
    /\ \/ Succeed(InOnePiece(r, history.requests + 1))
       \/ Failed(Guarded("fatal"), "undecodable", 0)
       \/ Claude /\ Failed("transient", "reset", 0)
    /\ UNCHANGED <<setup, stream, committed, cancelled, shown>>

OpenStream(r) ==
    /\ pc = "send" /\ ~cancelled /\ stage < 3
    /\ Requested(FALSE)
    /\ pc' = "read" /\ reply' = r /\ acc' = <<>> /\ sent' = [i \in DOMAIN r.blocks |-> 0]
    /\ UNCHANGED <<setup, local, committed, cancelled, result, shown>>

-----------------------------------------------------------------------------
(* The events of a stream.  Claude sends its blocks one after the other,   *)
(* the others may mix them.                                                *)
Size(i)     == reply.blocks[i].size - Cut(reply, i)
Finished(i) == i \in DOMAIN acc /\ sent[i] = Size(i)

Start(i) ==
    /\ pc = "read" /\ i \in DOMAIN reply.blocks \ DOMAIN acc
    /\ Claude => \A j \in 1 .. (i - 1) : Finished(j)
    /\ acc' = [j \in DOMAIN acc \union {i} |-> IF j = i THEN <<>> ELSE acc[j]]
    /\ UNCHANGED <<setup, pc, local, reply, sent, committed, cancelled, result, shown, history>>

(* A fragment; one that cannot be parsed is skipped. *)
Delta(i) ==
    /\ pc = "read" /\ i \in DOMAIN acc /\ sent[i] < Size(i)
    /\ sent' = [sent EXCEPT ![i] = @ + 1]
    /\ LET f == <<history.requests, i, sent[i] + 1>>
       IN  /\ acc' = [acc EXCEPT ![i] = Append(@, f)]
           /\ IF reply.blocks[i].kind = "text"
                THEN shown' = Append(shown, f) /\ committed' = TRUE
                ELSE UNCHANGED <<shown, committed>>
    /\ UNCHANGED <<setup, pc, local, reply, cancelled, result, history>>

Garble(i) ==
    /\ pc = "read" /\ i \in DOMAIN acc /\ sent[i] < Size(i) /\ ~history.garbled
    /\ sent' = [sent EXCEPT ![i] = @ + 1]
    /\ history' = [history EXCEPT !.garbled = TRUE]
    /\ UNCHANGED <<setup, pc, local, reply, acc, committed, cancelled, result, shown>>

(* The terminator.  The Responses dialect repeats the whole reply in it;   *)
(* the chunk with the reason of a Chat Completions reply may be garbled.   *)
Terminate ==
    /\ pc = "read" /\ \A i \in DOMAIN reply.blocks : Finished(i)
    /\ \/ /\ setup.dialect = "responses"
          /\ \/ Succeed(InOnePiece(reply, history.requests))
             \/ Failed(Guarded("fatal"), "failed", 0)
       \/ setup.dialect # "responses" /\ Succeed(Assembled(Reason(reply)))
    /\ UNCHANGED <<setup, stream, committed, cancelled, shown, history>>

Unreasoned ==
    /\ pc = "read" /\ \A i \in DOMAIN reply.blocks : Finished(i)
    /\ setup.dialect = "chat" /\ ~history.garbled /\ Succeed(Assembled(""))
    /\ history' = [history EXCEPT !.garbled = TRUE]
    /\ UNCHANGED <<setup, stream, committed, cancelled, shown>>

(* The connection breaks, ends early, or carries an error event; what has  *)
(* been assembled is given up with the attempt.                            *)
Break(e) ==
    /\ pc = "read"
    /\ cancelled <=> e = "cancelled"
    /\ Failed(Guarded(StreamClass(e)), e, 0)
    /\ UNCHANGED <<setup, stream, committed, cancelled, shown, history>>

Cancel ==
    /\ ~cancelled /\ pc # "done" /\ cancelled' = TRUE
    /\ UNCHANGED <<setup, pc, local, stream, committed, result, shown, history>>

Read ==
    \/ Terminate \/ Unreasoned
    \/ \E e \in {"reset", "ended", "error", "cancelled"} : Break(e)
    \/ \E i \in DOMAIN reply.blocks : Start(i) \/ Delta(i) \/ Garble(i)

Work ==
    \/ Check \/ Wake \/ AfterRetries \/ Degrade \/ Read
    \/ \E e \in {"reset", "unknown", "cancelled"} : TransportError(e)
    \/ \E s \in Statuses, after \in RetryAfters : StatusError(s, after)
    \/ \E r \in Replies(setup.dialect) : Complete(r) \/ OpenStream(r)

Next == Work \/ Cancel

Spec == Init /\ [][Next]_vars

(* The goroutine goes on; the server answers, and a stream that does not   *)
(* go on breaks.                                                           *)
LiveSpec == Spec /\ WF_vars(Work)

-----------------------------------------------------------------------------
(* Properties. *)
TypeOK ==
    /\ setup \in Setups /\ pc \in {"check", "send", "read", "sleep", "failed", "done"}
    /\ attempt \in 1 .. MaxAttempts /\ stage \in 1 .. 3 /\ delay \in 0 .. (MaxDelay + Jitter(MaxDelay))
    /\ {effort, committed, cancelled, result.ok} \subseteq BOOLEAN /\ model \in {"primary", "secondary"}
    /\ DOMAIN acc \subseteq DOMAIN sent /\ (pc = "read" => DOMAIN sent = DOMAIN reply.blocks)

Returned == pc = "done" /\ result.ok

(* "The assembled response is byte-for-byte equivalent in shape to what    *)
(* CompleteWithTools returns" (streaming.go): when no event was garbled,   *)
(* blocks that arrived mixed, after broken attempts, make the response the *)
(* same reply gives in one piece.  One difference the code makes: tool     *)
(* calls without a reason are "tool_use" when streamed                     *)
(* (openai_streaming.go:255), the end of the turn when not                 *)
(* (openai_provider.go:267).                                               *)
Expected ==
    LET piece == InOnePiece(reply, history.requests)
    IN  IF reply.silent /\ piece.tools # <<>> THEN [piece EXCEPT !.stop = "tool_use"] ELSE piece

StreamEqualsUnstreamed ==
    Returned /\ result.response # None /\ stage < 3 /\ ~history.garbled /\ (Claude \/ ~reply.cut)
      => result.response = Expected

(* "(resp, nil, success): the operation completed" (retry.go, attemptFunc) *)
(* and "the status and Retry-After of a non-2xx reply" (openai_retry.go):  *)
(* a call that reports no error has a response.                            *)
RepliesGiven == Returned => result.response # None

ValidInputs ==
    \A t \in DOMAIN result.response.tools :
        LET input == result.response.tools[t].input
        IN  input = <<>> \/ Len(input) = reply.blocks[result.response.tools[t].id].size

(* A tool input that was cut or garbled on its way never leaves the        *)
(* accumulators of parseClaudeStream and parseOpenAIStream.                *)
AssembledInputsValid ==
    Returned /\ stage < 3 /\ setup.dialect # "responses" => ValidInputs

(* The same of every streamed response: "letting it reach a conversation   *)
(* turn poisons every subsequent request at marshal time"                  *)
(* (openai_responses_streaming.go).                                        *)
InputsValid == Returned /\ stage < 3 => ValidInputs

(* "It does not replay text the user has already seen" (openai_retry.go):  *)
(* through retries and degrades the callback gets the text of one request. *)
ShownOnce == ~Claude => \A k \in DOMAIN shown : shown[k][1] = history.requests

(* A refused credential is final for the primary model: no retry, degrade  *)
(* or effort self-heal asks it again (retry.go, "should fail fast").       *)
FailFast == ~(history.refused /\ pc = "send" /\ model = "primary")

(* "One retry budget per public call, not budget^2" (openai_retry.go): the *)
(* retries, stages, self-heal and fallback together stay within it, and so *)
(* does the time slept.                                                    *)
BudgetKept == history.requests <= MaxRequests /\ history.slept <= MaxWait

(* Every call returns, whatever the server does and whenever it is         *)
(* cancelled.                                                              *)
CallsEnd == <>(pc = "done")

(* A reply that was assembled from events is whole: equal to the reply in  *)
(* one piece, with no tool input that was cut on its way, and shown once.  *)
RepliesWhole == TypeOK /\ StreamEqualsUnstreamed /\ AssembledInputsValid /\ ShownOnce

(* The nested loops around a call stay within one budget of requests and   *)
(* of time, and stop at a refused credential (retry.go:232).               *)
RetriesBounded == BudgetKept /\ FailFast
=============================================================================
