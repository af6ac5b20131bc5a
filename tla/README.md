# rysh-cli-shared: TLA+ models, checks and proofs

`rysh-cli-shared` is the Go library behind the rysh terminal: an actor that
runs a language model in a loop of tool calls for each pane, the providers it
talks to, the tools it may use, and a board on which the agents of several
machines coordinate. This directory holds TLA+ modules that model its
stateful core, the TLC configurations that check them on small instances, and
TLAPS proofs of the results that matter for every instance.

`PROJECT.json` lists the components, the runs, the source lines behind each
definition, the hazards and the theorems.

## 1. Inventory

| Component (package) | State | Operations | What is hard | What makes it correct | Module |
|---|---|---|---|---|---|
| **Peer coordination board** (`peercoord`) | registrations, endpoints, leadership term and standbys, tasks with attempts, hashes of credentials | `init`, `join`, `register`, `heartbeat`, `leave`, `leader.*`, `board.pause`, `task.*` | requests arrive late, twice or out of order; daemons restart under new incarnations; leases run out; leaders change under open offers | attempts are fenced; one execution of a task; offers stay claimable; limits hold; finished work stays finished | `PeerCoord`, `TaskLifecycle`, `PeerCoordHistory` |
| **Prompt execution actor** (`agentic/llm_prompt_execution_actor.go`) | active orchestrator, queued prompt, cancel function, session memory, run budget | prompt, cancel, continue, set budget, fork memory, orchestrator done | the loop's goroutine runs beside the mailbox: completions arrive after a cancel, a newer prompt or a fork | the user keeps control, no work is lost, a fork is clean, automatic continuation stops | `PromptExecution` |
| **Orchestrator loop** (`agentic/orchestrator.go`) | conversation, counters, caps, cancelled context, pause reason | `runLoop`, `executeTool`, compaction, completion | failing calls, cut-off replies, caps, cancellation between two steps | every run ends; the recorded reason is the real one | `PromptExecution`, `ToolDispatch`, `Conversation`, `SubAgents` |
| **Approval gate** (`agentic/approval*.go`, `permissions.go`) | pending request, subscription, remembered decisions | ask, answer, echo, time out, cancel, remember | late and duplicate answers, echo of the actor's own messages, a request published before its subscription | a request is decided by its own first answer; a gate outranks "always" | `ApprovalGate`, `ToolDispatch` |
| **Session memory, conversation healing** (`agentic/session_memory.go`, `turn_model.go`, `provider/toolpairing.go`) | turns, pause checkpoint, time of the last write | merge, trim, compact, heal, persist, restore | crashes between throttled writes; cuts between a call and its result | every call keeps its result; a pause survives; a task outlives compaction | `Conversation` |
| **Sub-agents** (`agentic/sub_agent.go`) | pending children, hand-off channels, shared context | spawn, acknowledge, wait, time out, cancel, complete | a parent that gives up while its child starts or finishes | no orphan; results are the child's own; nobody waits for ever | `SubAgents` |
| **Grounding, read tracker, loop detection** (`agentic`) | files read, recent calls, gate | record, check, report | files change between read and edit; the history forgets | edits only of what was read; bounded repetition | `ToolDispatch` |
| **Provider adapters** (`provider`) | - | turns and conversations to three dialects and back | two paths written twice; truncated inputs; cache breakpoints | both paths send the same request, and the API accepts it | `WireFormat` |
| **Provider streaming, retry** (`provider`) | accumulators, attempt, stage, effort, model | send, read an event, back off, degrade, fall back | partial streams, errors in the middle, nested retry loops | the reply is whole and shown once; one budget | `ProviderCall` |
| **Publisher, codec, bridge** (`msg`, `bridge`) | waiters by token, shared inbox | publish, request, reply, time out | a reply races the timeout; late and double replies | a caller gets its own reply; the router never blocks; nothing leaks | `RequestReply` |
| **SecretNAT** (`secretnat`) | table of tokens for each conversation, switch, style, registered secrets | sanitize, restore, restore a stream, expire, close | tokens split over chunks; tables that expire or are lost in use | tokens lead back; requests carry no secret and stay stable; streams are exact | `SecretSessions`, `SecretStream` |
| **MCP client** (`mcpclient`) | identifiers, session, adopted tools | connect, list, call, follow redirects | goroutines share one client; endless catalogs; bodies of several messages | a call gets its own response; the policy is asked at every hop; listing is bounded | `McpClient` |
| **Forge token manager and executor** (`forge/runtime`) | bearer, refresh token, mutex | acquire, refresh, retry on 401 | concurrent rejections; lost answers; rotation | one refresh; no replay; bounded requests | `TokenCalls` |
| **Forge stream sessions and readers** (`forge/runtime`) | sessions, rings, readers of three protocols | start, push, poll, stop, sweep, close | sweeper, callers and reader at once; cut streams | frames accounted for; no request that nobody can stop; a reported end is true | `StreamSessions`, `StreamReaders` |
| **Forge ingest, exposure** (`forge/ingest`, `forge/ir`, `forge/toolpack`) | - | parse API descriptions | data-heavy, sequential | - | not modelled |
| **Output shaping, step events, metrics, profiles** (`agentic`) | - | format, observe, configure | - | - | not modelled |
| **Tools and registry** (`tools`) | registered tools | register, look up, execute | input and output of the host | - | not modelled |

Interaction. The user's client sends messages to the pane's actor. The actor
spawns an orchestrator with a context it can cancel; the orchestrator calls a
provider (through SecretNAT when it is enabled), asks the user for approval
over the publisher, runs tools from the registry (built-in, MCP or forge),
delegates to sub-agents, and sends `MsgOrchestratorDone` back to the actor.
Daemons of several machines talk to one coordination board, whose reducer
`Apply(store, auth, request, now)` is a pure function run under the host's
lock; the work a daemon claims there becomes prompts of its own panes.

## 2. Modules

### PeerCoord, TaskLifecycle, PeerCoordHistory

The variables are the fields of the store: `peer` and `peerSecrets`
(registrations and stored credential hashes), `agents` and `ready`
(endpoints), `lead` (leadership), `task` (each task with its current attempt)
and `execSecrets` (stored execution hashes). A refused request returns the
store it was given, so it is a stuttering step. Every action quantifies over
the fields a late or duplicated request can have wrong: the incarnation, the
term, the attempt, the version. So no channel is modelled: any request, old
or new, may arrive at any moment, any number of times, and the guards decide
as they do in the code.

Leases are the time left, because the code only compares a lease with the
current time; `Tick` runs them all down. Endpoint profiles are constants,
because registration never changes one. Attempts before the current one are
not kept: no operation reads them. Identifiers, texts, timestamps and the
returned events are left out.

`TaskLifecycle` is the abstract specification: a task moves through none,
open, active, submitted, done or ended; one task moves at a time; the right
to report belongs to the latest attempt alone. `PeerCoord` implements it under
the mapping `Life` (the phase of a state, its attempt number, and
`execSecrets` as the rights). `PeerCoordHistory` adds the executions that are
still alive on some machine.

### PromptExecution

The actor handles one message at a time, so a handler is one action. A leg is
one run of an orchestrator's loop; `orch[l]` is its state and its counters.
`Check` is the head of the loop (context, deadline, tokens, iterations, in
this order), and `CallError`, `CallEnd`, `CallTools`, `CallTruncated` are the
ways a call to the model comes back. Between them anything may happen.
`OrchestratorDone` is split into the six ways through
`handleOrchestratorDone`. Cancelling a leg only marks its context: the loop
goes on until it looks. A conversation is the set of legs whose work it
contains, which is what the properties tell apart.

### ToolDispatch

`executeTool` up to the effect of a call. Loop detection, the grounding gate,
the approval policy, the stale-edit check and the approval decision are one
step, as they run without a pause; the preview, the answer, the execution and
the update of the tracker are steps of their own, and between any two of them
other programs write, delete or touch the file and the host installs another
policy. A file's content is a version number and its modification time a
stamp, so that the tracker's comparison of stamps before contents is kept.
Each write makes a new version.

### ApprovalGate, RequestReply, SubAgents

Three exchanges between goroutines and actors, side by side in `Exchanges`. In `ApprovalGate` the
orchestrator publishes, subscribes and waits; each subscription has its queue
and its callback, which sends into a channel of capacity one; the actor
forwards what it hears, and its orchestrator publishes it again. In
`RequestReply` callers share one map of waiters and one inbox, whose only
goroutine routes the replies, and bridges start, stop and lose messages. In
`SubAgents` a call hands a spawn request to its own actor's mailbox and waits
for the acknowledgement and the completion, with the timeout, the shared
context and the clean-up of a stopped actor.

### Conversation, WireFormat

`Conversation` keeps the turns of a session, of the running loop and of the
key-value store: what a run appends, interruption, trimming, compaction,
notes about a change of model, forks, throttled writes, crashes and restores,
and the healing on the way to the wire. A restore message carries what the
host once read from the store (`ReadStore`); it is handled whenever the
mailbox gets to it, while a run is going or the session is paused, and after
forks and further writes. As in the code the longer conversation wins and
nothing is persisted. `WireFormat` grows every short
conversation out of blocks and compares, state by state, what the two code
paths of each dialect emit for it; the emitters are functions of the turns.
Claude's two builders are translated apart, as they were written: the native
one (`MessagesFromUnits`, over neutral units) and the one for conversation
turns (`BuildMessages`, with its own healing of head and pairing).

### ProviderCall

One call of a provider, with its nested loops: the attempts of the retry
policy, the effort self-heal and the fallback model of the Claude provider,
and the stages of degrade of the OpenAI-compatible ones. A reply is sent as
fragments of blocks in any mixture; an event may be garbled or lost, and the
stream may end early, fail or be cut at the token limit. A server of Chat
Completions may give no reason for the end of a reply. A 2xx status other than
200 is a reply for Claude; the OpenAI-compatible calls raise an error for it
(`Raised`), whose class is that of a success, and return neither a response
nor an error.

### SecretSessions, SecretStream

`SecretSessions` follows conversations, the handles their runs keep, and the
manager's tables through registration, switching, change of style, expiry,
closing and restart, with the switch of the manager and the override of a
session. Each turn is one piece of text; thinking blocks, keys of JSON objects
and inputs that do not parse are pieces that are never rewritten (`kept`), and
a registered value may be too short to be known (`short`). The system prompt
is one more piece; pictures are no text.
`SecretStream` is the restorer fed with a text in chunks, while the table
grows (`Mint`); its reference is the translation of the whole text, one pass
for each token as `RestoreAll` makes them. The value of a token is one symbol
of its own, so that no pass finds a token in a value or across its edge.
`ModelCalls` puts both beside `ProviderCall`: all are about a call to the
model, what it says and what comes back.

### McpClient

The client of one server, used by several goroutines: each request gets an
identifier under the mutex, asks the egress policy, carries the session the
client knows by then, may be redirected, and is answered by a body of which
`PickMessage` chooses one message. `Connect` is the handshake, its
acknowledgement and a paged listing; the tools it returns are adopted under
their registry names. Failures, timeouts and changes of the policy may come at
any step. `Tools` puts the client beside `ToolDispatch`: calls of the model
pass the gates of the one, and adopted tools are called through the other. The
two share no state. `Ordered` has the operators that the adoption of tools,
the assembling of replies and the pairing of calls with results use.

### TokenCalls, StreamSessions, StreamReaders

`TokenCalls` has concurrent calls of one integration: the cache and the mutex
that is held over the exchange, the retry loop of `Call`, and a token endpoint
that answers, refuses or loses its answer. `StreamSessions` has the sessions,
at the granularity of the manager's lock and of a session's lock, with callers
that hold a session between the two. `Stop` is four such steps: it takes the
session out of the table, cancels it, finishes it, and then, under the
session's lock once more, answers with the unread frames and the drops, as far
as a poll would go, without moving the cursor or resetting the count.
`CloseAll` empties the table in one step and then cancels and finishes what was
in it, one by one in any order, while everybody else goes on. A truncated
frame is longer than the limit by its marker. `StreamReaders` is the goroutine inside
one session, for GraphQL subscriptions (handshake, pings, close codes), lines
of a gateway and Connect envelopes: what the server says travels in order, the
network takes a suffix and leaves a part, and a cancellation reaches the
reader by closing its connection. `StreamSessions` assumes that a request
returns when its context is cancelled; `StreamReaders` shows it. `Forge` puts
the three side by side.

### Composition

Components that share no state run side by side as scenes, in `Exchanges`,
`Tools`, `ModelCalls`, `Forge` or an MC module: the initial state chooses a scene, and only its component moves. They are
brought together because they answer the same question (what goroutines and
actors wait for; what a conversation is; what an integration's calls share),
not to form a product. Real composition is in `PeerCoordHistory` (board and
machines), in `ApprovalGate` (actor, orchestrator and child on one subject),
in `PromptExecution` (actor and loops) and in `ProviderCall` (four loops
around one stream).

## 3. Runs

Deadlock is not checked: a board on which nobody asks for anything, a pane
without prompts and a conversation that is complete may rest, and the bounds
stop every behaviour somewhere.

| Run | Shows | Bounds, and why they are enough |
|---|---|---|
| `PeerCoordBoard` | offers follow the leader through handover and failover (`OpenOffersCurrent`); a version pins down what a client saw (`VersionFences`); credentials fence attempts (`CredentialsCurrent`), a registration leaves nothing behind (`RevokedIdle`), leases need the incarnation (`LeaseNeedsIncarnation`) | two scenes: "failover" with two leader endpoints, a standby, two terms and two versions of a task; "attempts" with one task, two attempts, two incarnations and five versions, enough to claim, end, retry and claim again |
| `PeerCoordTasks` | no two executions of a task at once (`OneExecution`), dependencies, a worker at its limit, the refinement of `TaskLifecycle` | two tasks, one slot, four versions, with the history variables |
| `Prompt` | control, work, clean forks, one finalizer; under fairness every leg and run ends (`LegsAndRunsEnd`) and a queued prompt starts (`QueuedStarts`) | two prompts, a budget of steps or of tokens and time, one fork, five legs |
| `ToolCalls` | loop detection, gates, no write before consent, no edit of what was not read again; the MCP client (`McpKept`) | seven calls, a threshold and history of two, three contents and two stamps of a file; two goroutines, three catalogs, seven bodies, five requests |
| `Approval` | the own and first answer decides and is heard; replies reach their callers; children end and report whole | two requests and two panes; two calls and two actors; trees of three agents, which is as deep as the code allows |
| `Conversation` | calls keep their results, a pause survives, the task is kept; both paths send one request the API accepts | five turns at most, trimmed to three, two legs, with crashes at any moment; late restore messages with one model, changes of the model without them; conversations of three turns and four blocks |
| `Forge` | tokens, sessions and readers; every call, request and cancelled reader ends | two calls, two tokens; a ring of two frames with three pushes of which some are truncated and some too large for a poll with another, two sessions of which one may live; three items on a stream before its end |
| `ModelCalls` | replies are whole, retries bounded, calls end; tokens lead back, requests are clean and stable; a stream shows what the whole text shows | six set-ups of the three dialects, two attempts, five statuses, replies of two blocks; one conversation of two turns with three values, one of them short, or two with three tables and a restart, or two with overrides of their own; texts of four symbols in chunks of up to three, with three tokens minted at any time: one that begins another, and one framed like a private key's |

What each property says in detail is at its definition. Several properties
are conjunctions of named parts, so that one run answers one question:

| Property | Parts |
|---|---|
| `LegsAndRunsEnd` | `LegsEnd`, `RunEnds` |
| `LoopsBounded`, `GatesHold` | the type invariant and `LoopBounded`; `GateHolds`, `GroundedFirst` |
| `McpKept` | `OwnResponse`, `Authorized`, `SessionEchoed`, `ListingBounded`, `NamesUnique` |
| `AnswersSettle` | the type invariant, `FirstAnswerWins`, `BlockedHarmless` |
| `RepliesSafe` | `OwnReply`, `RouterNeverBlocks`, `ReplyFound`, `NothingLeft` |
| `TreeSafe`, `DelegationEnds` | `OwnResult`, `FilesCarried`, `CapsShrink`; `SpawnAnswered`, `TreeEnds` |
| `ConversationWhole`, `TaskKept` | the type invariant, `StoredPaired`, `RequestAccepted`, `ResultsSent`; `BriefPinned`, `CheckpointKept` |
| `SameOnTheWire`, `RequestWellFormed` | `NativeEqualsShim`, `RoundTrip`; `ClaudeAccepts`, `EndCached` |
| `EveryCallEnds` | `CallsEnd` of the scene with the call |
| `TokensKept` | the type invariant, `RequestsBounded`, `DelegatedApart`, `CacheNewest`, `SingleFlight`, `NoReplay` |
| `SessionsKept` | the type invariant, `LiveBounded`, `Accounted`, `StopAnswers`, `NoOrphan`, `FirstReasonWins`; `FramesTrue`, `EndTrue` of the readers |
| `EverythingEnds` | `CallsEnd` of the tokens, `RequestsEnd` of the sessions, `CancelEnds` of the readers |
| `TokensReversible`, `RequestsTranslated` | the type invariant, `Isolated`, `Reversible`; `RequestClean`, `RequestStable`, `TableGrows` |
| `StreamExact` | `StreamEqualsWhole` of tables that are `Apart`; `HeldAmbiguous` of any |
| `RepliesWhole`, `RetriesBounded` | the type invariant, `StreamEqualsUnstreamed`, `AssembledInputsValid`, `ShownOnce`; `BudgetKept`, `FailFast` |

The bound on legs does not make `LegsAndRunsEnd` true: a completion that would
start one leg too many is disabled, which would leave its leg waiting for ever
and violate it. Task and incarnation identities are interchangeable in the
board's model, and `Sym` says so; the runs with a liveness property use no
symmetry.

### Disagreements

Four runs state what a comment of the code says and show, by a counterexample,
that the code does something else.

| Run | Statement | What happens |
|---|---|---|
| `PromptCancel` | "user cancel (double-Ctrl+C / @@stop) disarms it" (`msg/agentic_messages.go:97`) | a cancel between a leg's return at a cap and the handling of its completion does not stop the automatic continuation |
| `ProviderCut` | an invalid tool input must not reach a turn: "letting it reach a conversation turn poisons every subsequent request at marshal time" (`provider/openai_responses_streaming.go:211`) | the terminal event of a Responses stream goes through `responsesToAgentic`, which has no such guard, so a reply cut at the token limit returns truncated arguments |
| `SecretFramed` | the restorer "restores synthetic tokens in a streamed text where a token may straddle chunk boundaries", and "complete tokens inside s are NOT held" (`secretnat/stream.go:7`, `:57`) | the token of a private key begins and ends in five dashes (`detectors_builtin.go:103`): when a chunk ends with the whole token, its last dashes are held back as a possible beginning, the token is cut, and both parts are shown unrestored. The same holds of a JWT's token, which ends in the `E` (`:122`) that begins `ENVKV_SNAT_` (`generator.go:65`) |
| `WireReturned` | the neutral turns made of conversation turns by rule C1 go to the API with "the same wire content either way" (`provider/turns.go:25`) | attachments of an assistant turn are not sent; if its text is empty and they begin with a text, the rule promotes that text to the turn's own, and it is sent |

Two more comments are false of the model, and stand in it as named definitions
that no run checks. `RepliesGiven` of `ProviderCall`: "(resp, nil, success):
the operation completed" (`provider/retry.go:210`), whereas an OpenAI-compatible
call that gets a status of 201 to 299 returns no response and no error
(`openai_provider.go:250`, `openai_streaming.go:138`, `openai_responses.go:289`,
`openai_responses_streaming.go:146`, classed at `retry.go:103`).
`CheckpointGuarded` of `Conversation`: an external restore is not to "drop the
pause checkpoint" (`llm_prompt_execution_actor.go:417`), whereas a restore
message that was read earlier and is longer than what is in memory is adopted
while the session is paused (`:421`), so that a continue works on other turns
than those the pause stored, and a stop of the actor then writes them over the
checkpoint. Who reads the store and sends such a message is the host, which is
not part of this repository.

Reading the code for the models also turned up the following. The models
contain this behaviour; no run is devoted to it.

* Board: `task.uncertain` overwrites a requested cancel, after which success
  may be submitted (`engine.go:657`); `task.retry` does not test the limit of
  pending tasks (`engine.go:566` against `:436`).
* Pane: a fork leaves the queued prompt behind (`llm_prompt_execution_actor.go:538`);
  a budget armed while a plain prompt runs continues that prompt (`:827`); a
  leg started when no token is left gets no cap (`:708`).
* Session: a clean finish within two seconds of the last write is not
  persisted (`session_memory.go:170`); trimming may cut every user turn
  (`llm_prompt_execution_actor.go:1389`); a note about a model switch may
  stand between a call and its results (`turn_model.go:82`); compaction pins
  the first prompt of the session, not the run's (`orchestrator.go:1795`).
  `TaskKept` speaks of compaction and of continuing, not of a task that
  trimming cut off.
* Tools: an edit that waited for approval is applied to a file that changed
  meanwhile (`orchestrator.go:1072`, `:1078`); a headless run executes `bash`
  behind a closed grounding gate (`grounding.go:130`); `PermAllow` does not
  skip the prompt (`orchestrator.go:1064` against `permissions.go:24`).
* Approvals and sub-agents: responses circulate between the actor and its
  orchestrator (`orchestrator.go:1528`); a timed-out child runs on, and its
  files are not reported (`:2294`, `:2302`); a parent with a cap below five
  spawns a child with five (`:2260`).
* Providers: streamed text of the Claude provider may be shown again by a
  retry; a retry drops the partial result that "callers can surface"
  (`streaming.go:378`); the jitter may exceed `MaxDelay` (`retry.go:47`); the
  fallback model is also tried after a 401; the Chat dialect drops a result's
  error flag, which the Responses dialect writes as a prefix; tool
  calls without a finish reason are `tool_use` when streamed and `end_turn`
  when not (`openai_streaming.go:255` against `openai_provider.go:267`), though
  the first means to "default it the way mapFinishReason would" (`:253`).
* Forge: every rejected call refreshes a token that another has just renewed
  (`token.go:186`); a frame above the poll budget, of which the largest
  frames are sixteen times, is never returned, nor anything behind it
  (`stream.go:274`); what does not fit into the answer of `Stop` is lost without
  a count of what is pending (`:300`), and a poll that looked the session up
  before gets what `Stop` returned once more; a session that `CloseAll` took
  out of the table runs on, and may end for a reason of its own, until it is
  its turn (`:388`); the pending count includes evicted frames
  (`stream.go:331`); an expired session is gone at the next sweep
  (`stream.go:365`); the first part of a gateway line that was cut off is
  pushed as a message of its own before the error (`grpc_stream.go:133`).
* SecretNAT: numbering starts again after a restart, so that an old token may
  stand for another value (`mapping.go:75`); handles of expired and of closed
  tables go on being used (`secretnat.go:139`, `:118`). Thinking blocks are not translated
  (`natprovider.go:141`), nor keys of JSON objects and inputs that do not parse
  (`sanitize.go:190`), and registered values under six bytes are dropped
  (`sanitize.go:21`). `RequestClean` says what that leaves: with translation on
  the only secret a request can carry is in such a piece, written by the model,
  which was told the value in clear before, when translation was off or the
  secret not yet known. That detectors find no value that is too short, and
  that the model puts no secret there which it was not told, is the model's
  (`Reply`).
* MCP: an empty batch of messages lets `pickMessage` index an empty slice
  (`transport_http.go:253`); a catalog that ends exactly at the cap reports no
  dropped tool although there is another page (`client.go:319`); the response
  to another request reads as an empty last page; a single body's identifier
  is not compared.

### Fairness

* `Prompt`: weak fairness of each loop's step and of the handling of each
  completion. The latter is the actor's mailbox, which is emptied in order and
  whose handlers do not wait for a loop. The former is the Go scheduler, and
  one assumption about the environment: a call to the model comes back with a
  reply or an error. The code does not enforce that by itself: the providers'
  HTTP clients have no timeout (`provider/agentic_provider.go:422`,
  `provider/openai_provider.go:54`), and the deadline of a run is looked at
  between calls only (`agentic/orchestrator.go:578`).
* `Approval`: the waiting goroutine, each subscription's callback and the
  mailboxes make progress. No human has to answer, and the five-minute timeout
  is not fair: it must not be what ends the wait of an answered request. In
  the tree, mail is handled, goroutines go on and a cancelled run ends; a run
  that is not cancelled need not end.
* `Forge`: a call goes on, the token endpoint answers or its client times out,
  and the mutex is handed to its waiters, which is strong fairness of taking
  it (a `sync.Mutex` does not starve). The clock and the sweeper's ticker run,
  and a cancelled request returns, which the readers show under fairness of
  the reader and of the goroutine that closes its connection.
* `ModelCalls`: the goroutine of the call goes on, and a stream that sends
  nothing more breaks.

Users, clocks (except the sweeper's), forks, budgets and networks are under no
fairness. The board has no liveness property: every one of its steps is a
request somebody may or may not send. In a run with scenes fairness speaks of
the steps of the scene's own component, which is the only one with enabled
steps.

## 4. Proofs

Eight modules hold the proofs. They are about every value of the constants
that satisfies the assumptions named in the modules: any sets of sessions,
endpoints, calls, requests, actors or files, any finite set of tasks, any
positive limits. The assumptions say what the constants are (that a limit is
positive, that a list is a list, that a tool which works on a file names one,
that a body without messages is an empty batch or an event stream, that there
are finitely many secret values, that a ring has room for a frame) and nothing
about when or how often the environment does something. That a table is `Apart`, which
one half of `StreamSafe` needs, is a premise of the property and not an
assumption: without it the statement is false (run `SecretFramed`). Two assumptions say what comes
from outside `Conversation`. `CallsAssumption`: a reply names each of its calls
differently, as the APIs promise and as the code, which pairs by name, takes
for granted. `ForksAssumption`: a fork brings turns that are `Whole`. They are
those of another session (`handleGetSessionMemory` hands them out), and what
the theorem says of every session's turns is the same `Whole`. Another limit
is stated with its theorem: `RejectedSafe` is about the tools that preview, as
the code's do (`Previews`).

| Module | Theorem | States |
|---|---|---|
| `PeerCoordProofs` | `TypeCorrect`, `CredentialsSafe` | `[]TypeOK`, `[](TypeOK /\ CredentialsCurrent)` |
| | `LifecycleImplemented` | `Spec => Life!LSpec`: the board implements `TaskLifecycle` |
| | `OffersSafe`, `DependenciesSafe`, `CapacitySafe`, `RevokedSafe` | `[]` of `OpenOffersCurrent`, `DepsComplete`, `CapacityRespected`, `RevokedIdle` |
| | `FinishedSafe`, `VersionsSafe`, `LeasesSafe` | the action properties `FinishedStays`, `VersionFences`, `LeaseNeedsIncarnation` |
| | `ExecutionsSafe` | `HSpec => []OneExecution` |
| `PromptExecutionProofs` | `TypeCorrect`, `ControlSafe`, `WorkSafe`, `ForkSafe`, `PauseSafe`, `FinalizerSafe` | `[]` of `TypeOK`, `ControlKept`, `WorkKept`, `ForkClean`, `PausedIdle`, `FinalizerOnce` |
| `ToolsProofs` | `LoopsSafe`, `GatesSafe` | `[]LoopsBounded`, `[]GatesHold` of `ToolDispatch` |
| | `RejectedSafe`, `RereadSafe` | the action properties `RejectedUntouched`, `RereadAfterRefusal` |
| | `ClientSafe` | `[]McpKept` of `McpClient` |
| | `ToolsSafe` | `TSpec => [](LoopsBounded /\ GatesHold /\ McpKept)`: all of them, in the specification of the run |
| `ExchangesProofs` | `AnswersOwned`, `AnswersSettled` | `[]OwnAnswer`, `[]AnswersSettle` of `ApprovalGate` |
| | `RequestsSafe`, `TreesSafe` | `[]RepliesSafe` of `RequestReply`, `[]TreeSafe` of `SubAgents` |
| | `ExchangesSafe` | `ESpec => [](RepliesSafe /\ TreeSafe)`: both, in the specification of the run |
| `ForgeProofs` | `TokensSafe`, `SessionsSafe` | `TokensKept`, `SessionsKept`, their action properties too, with `StopAnswers` |
| | `ForgeSafe` | `FSpec => TokensKept /\ SessionsKept`: both, in the specification of the run |
| `ConversationProofs` | `PausesDurable`, `TasksKept` | `[]PauseDurable`, `TaskKept` |
| | `ConversationSafe` | `[]ConversationWhole` |
| `ProviderProofs` | `RetriesSafe`, `RepliesAssembled` | `[]RetriesBounded`, `[]RepliesWhole` |
| | `TokensRestored`, `RequestsClean` | `CSpec => []TokensReversible` and `CSpec => RequestsTranslated`, of conversations with secrets, in the specification of the run |
| | `StreamSafe` | `CSpec => []StreamExact`, of any finite set of tokens (`TokensFinite`), minted in any order, any texts and chunks (`MaxChunk \in Nat`) |
| `OrderedProofs` | - | the lemmas about the operators of `Ordered`, and about lists of whatever elements |

`TypeOK` and `FinishedStays` of the board and `TypeOK` and `PausedIdle` of the
pane are proved and not run by themselves. Each property below is not
inductive as it stands; what follows is what had to be added, which is what
the code relies on.

### The board

The argument turns on one lemma, `TaskSteps`: every step either leaves the
life of every task alone (`Calm`) or moves exactly one task along one edge
(`Moves`). It needs `CredentialsCurrent`, because the only guard between the
worker of a superseded attempt and the task is the stored hash. With it the
refinement and most invariants follow from the list of edges without looking
at the operations again. `CredentialsCurrent` is inductive together with
`TypeOK`; so are the other invariants, each with these two. Each record
update has a lemma that says which fields it keeps. `OneExecution`, of the
executions that `PeerCoordHistory` remembers, follows from the same edges: as
long as an execution has not ended, no edge takes its task out of the active
states or to another attempt.

### The pane

`TypeOK` needs `StepKept`: the number of resumes is a division by the
iterations of a leg, and an armed budget never has zero of them. The next
four properties are not inductive one by one. Together they are, once
strengthened to `Control`: the active leg is the awaited one, works on the
session's conversation and can be cancelled unless it was (`ActiveSound`);
any other running loop was cancelled by a fork and started before it
(`Abandoned`); what is awaited started after the latest fork
(`AwaitedSound`); the session holds exactly the completed legs since then
(`SessionSound`). `FinalizerOnce` needs `FinalizerRecorded`: a budget whose
finalizer ran remembers it for as long as it is armed.

### Tools and approvals

`LoopBounded` counts over a window that shifts. `RecentFacts` says where each
remembered call is after a shift, and the count of a call in the new window is
that in the old one, at most one more, and one more only for a call that was
let through, which the detection did just when the count was below the
threshold. `GatesHold` needs what is true at each stage of a call (`Kept`): a
call under way passed the gates when they were looked at, and a policy that
changes later changes nothing for it. `RereadAfterRefusal` rests on `Behind`:
the stamp and the content of a refused file are not those the tracker has.
That uses that the model numbers each content anew when it is written; a file
that is set back to a content the model knows may be edited, and the property
says so.

In `ApprovalGate` the two properties need where the first answer is. `Genuine`
says that all that is on its way, in a queue, in a channel or echoed by the
actor, was given to the request it names. `Ahead` says of a request that waits
that its first answer is in the channel, or that the channel is empty and
nothing of the request comes before that answer in the queue of its callback.

### The client of a tool server

The invariant (`McpSound`) says for each goroutine where it is in its request
and what that needs (`Local`), and two things of all of them. Identifiers that
are in use differ and are not above the counter (`Ids`). During the handshake
nobody else uses the client (`Handshake`), because it is handed out only when
the listing has returned; that is why a server which gives out a session with
the handshake never changes that of another request. `Routed` says that the
hosts which the policy allows now are among those allowed since the request
began: a hop that passes the policy goes to one of these. `Paging` counts: the
requests of a listing are its pages and the handshake's two, and the tools so
far are the pages so far, joined, unless a response to another request was
taken for one of them. That flattening is joining page by page
(`JoinedFacts`) is again proved by a least counterexample. `ExecutorsFacts`
compares two adopted tools: the later one was looked at after the earlier one.

### Messages and sub-agents

In `RequestReply` a token is given once and to one request (`Tokens`), the map
names open calls (`Registered`), a reply in a slot or on its way to one has
taken its call out of the map (`Delivered`), and a call that waits without one
is in it (`Findable`). That the router never blocks is `Delivered`: what it
holds is for an empty slot.

In `SubAgents` the mailbox of an agent names its own children only, a request
once and before the child started, a completion after it ended (`Letters`);
an acknowledgement and a result say what is true (`Truthful`); whoever waits
waits for a child of its own (`Attached`); and each other child of an agent
that never gave up has not started and never will, or has ended with its files
carried up (`Children`). `TreeSafe` follows.

### Tokens

`TokensKept` has a part that counts. `Caused` says that the tokens issued,
the calls that were rejected and the renewal that is due never exceed the
causes there have been, which is why no storm of rejections makes more
logins than it has rejections. The other parts are who has the mutex
(`Mutex`), the requests of each call (`Counted`), the bearers of delegated
calls (`Bearers`) and the age of what is in the cache and of the reply that
waits to be stored (`Youngest`).

### Stream sessions and their readers

`SessionsKept` counts frames. The ring holds the newest frames without a gap
(`Contiguous`), so that a frame's place follows from the number it has, and
the unread frames are the last `Left` of them; that the model's `Unread`,
which chooses by number, is this tail is `UnreadFacts`. With it the account
(`Ledger`) is arithmetic: a push adds one frame and moves the unread ones
among the evicted to the drops (`PushedFacts`), a poll moves a prefix of the
unread frames to what was polled (`PollFacts`). `EvictedFacts` and
`TakenFacts` say what the two searches find: there is something to find
because one frame always fits, and a poll of none always does. What a `Stop`
answered stays true of the session (`Answers`), because a session that is done
takes no more frames, and a poll only moves frames from the unread ones to the
polled, in order.

`LiveBounded`, `NoOrphan` and `FirstReasonWins` rest on what a session never
takes back (`Follows`: an end with its reason, a cancellation, a start) and on
what is true while somebody holds a session that has left the table (`Using`):
who is about to finish it has cancelled it, and a session that is done while
its request runs on is cancelled (`Life`). A session that `CloseAll` has taken
out of the table and not yet cancelled is one of those it still has to do.

Of a reader the invariant (`Faithful`) says that what is on the wire continues
what was pushed: the items carry the server's numbers in order, the first item
that ends the stream ends it as the server would say, a part of a message can
only be the last thing on a broken connection (`Travels`), and while the
connection is up nothing that the server said is missing (`Open`). Taking the
first item off and losing a suffix keep it (`TakenOff`, `CutShort`).

### The session

`PauseDurable` and `TaskKept` need of the conversation only its shape, that
the conversation of a run opens with a user's turn (`Headed`), and that a pause
was written. A restore message may have been on its way for any time; that is
why `PauseDurable` compares the turns in memory with those in the store only
where no longer conversation was adopted. The work is in lemmas about the operators: what closing the dangling
calls, trimming, healing the head, adding a note and compacting do to the
first and to the last turn of any list of turns. They use that a set
of numbers has a least one (`LeastOf`) and that what closing adds is a list
(`CloseTurns`), which counts the calls that have no result.

`ConversationWhole` is about what a session stores, what a run works on and
what it sends. Its invariant, `Conserved`, says that a conversation is `Sound`
wherever it is kept: every call has its result, with nothing but results
between the two, and every result its call, except for results at the very
beginning, whose call was trimmed away. What is stored (`Stored`) is also no
longer than its window and opens with the user unless no user's turn is left.
Each operation that writes keeps that:

* closing the dangling calls answers exactly the calls of the last reply that
  have no result yet (`CloseCalled`), so an interrupted reply may be stored;
* trimming, which cuts anywhere, can only separate results at the head from
  their call (`TrimSound`), and healing the head drops those unless no user's
  turn is left (`HealSound`);
* compaction cuts at a turn that is not a result (`CompactSound`).

A request is such a conversation with notes about a change of the model put
behind some of its turns (`Noted`), and notes do tear results from their call.
So the invariant says of a request only that: whatever list of turns goes in,
as long as it opens with the user, healing leaves no call and no result
without its other half (`HealMatched`), and the API accepts the messages made
of such turns (`MessagesAccepted`). If no note was added, healing is the
identity (`HealWhole`), so that no result is lost. These three speak of lists
that are filtered and flattened; a list is flattened when its blocks stand in
it one behind the other (`Placed`), and that `FlattenSeq`, a recursive
function, does so is proved by a least counterexample (`FlattenPlaces`).

### Providers

`RetriesBounded` is about four nested loops, and its invariant is a ledger.
`Budget` says that the requests sent and those that the call may still need
(the stages left of this attempt, the attempts after it, those after the
effort self-heal, the fallback) never exceed `MaxRequests`; `Patience` says
the same of the time slept, with the longest wait for each sleep that is left.
Each step of a loop pays for what it takes: a failed attempt gives up an
attempt, a degrade a stage, the self-heal the effort. `Refusals` is where a
call may be once a credential was refused.

`RepliesWhole` needs that while a stream is read the accumulators hold what
was sent of this reply, in order, unless an event was garbled (`Accumulated`),
and that a call which has shown text does not try again (`NoReplay`). Then
what `finalize` makes of the accumulators is what one piece would have been:
both list the blocks of a kind in the order of their indices. That sorting a
finite set lists its members and nothing else (`InOrderFacts` of
`OrderedProofs`) is induction over data, which the installed provers cannot do with an induction theorem.
It is proved by a least counterexample instead, from the library's fact that
`<` on the natural numbers is well-founded.

### Secrets

`TokensReversible` and `RequestsTranslated` are about the tables of tokens,
of which each session has its own, and about runs that keep the handle of a
table after its session expired, was closed or was lost in a restart. A table
gives each value a number of its own, from one on (`Numbered`), which needs
that there are finitely many values, and it only grows (`Extends`). The
handles of different conversations differ, and a run's is never newer than its
session's (`Handles`), so no conversation reads another's table. A turn shows
what it stood for or its token in a table that is not newer than the run's
handle (`Written`). A request says what its turns are shown as under the
table, the registered secrets and the switch it was made with (`Sent`), apart
from the pieces that are never rewritten; since
tables only grow it would say the same now, which is why the next request
under the same circumstances repeats it. What went out in clear is counted,
and such a piece repeats what was counted (`Repeated`). The table after a request
(`Afterwards`) is a recursive function over the turns; that it exists, and
that it extends the table before and names every value in between, is proved
by a least counterexample.

`StreamExact` compares two translations of a text, both recursive over it. The
invariant (`StreamKept`) is that what is held back is the beginning of a token,
and, as long as the table is `Apart` and no token was written before it was
minted (`Regular`), that what a stream has shown is the translation of the text
before its tail, and that the tail begins where no token stands across,
whatever the text goes on with (`Border`). A chunk moves this place
(`BorderMoves`): a token across the new place that is still incomplete would
have been an ambiguous end longer than the longest, which `holdbackLen` holds;
one that is complete would end in the beginning of the held token, against
`Apart`. A token that is minted meanwhile stands nowhere in the text so far, so
that its pass changes nothing there (`RestoreMore`): no other pass brings it
about (`StandsKept`). A text cut where no token straddles is translated part by
part (`RestoreApart`): each pass replaces the parts apart from each other
(`ReplaceApart`) and brings about no occurrence that straddles
(`StraddlesKept`), because it replaces symbols only by a value, which is in no
token (`ReplaceKept`). That a pass exists as a recursive function, and that it
takes two parts apart, is proved by a least counterexample over the length.

### Only model-checked

* Every liveness property: the prover has no fairness and no `ENABLED`.
* `SameOnTheWire` and `RequestWellFormed`, which compare two emitters built of
  nested folds over the blocks of a conversation.
* The four counterexamples of section 3.

## 5. What is not modelled

* In the actor: the handlers that only store a setting for later runs
  (grounding mode, pane profile, approval panes, seats) and answer queries.
* In the loop: output and step events, usage records, the texts of prompts,
  and the tools a sub-agent inherits.
* In SecretNAT: secrets registered or removed, or the switch toggled, while a
  stream is being read (references are tokens there like any other). A tool
  input restored under another table than the one its token was written for is
  modelled, and promised nothing.
* The matching of permission patterns, of secret detectors and of error
  messages: each is a constant or a choice.
* In the providers: tool schemas, usage accounting, overrides of the model for
  one request.
* In the MCP client: the kind of an error, the rendering of a result for the
  model, the checks of the configuration.
* In forge: the building of requests and the shaping of results, and the
  parsing of API descriptions (`forge/ingest`, `forge/ir`,
  `forge/toolpack/exposure.go`), which is sequential and data-heavy.
* Output shaping, step events, metrics, pane profiles, the built-in tools and
  the registry: formatting, observation and input and output of the host,
  without state that others depend on.
* The subjects of messages and their encoding, which are data.

## 6. Plan

Done: all the components with a state machine, in the order board, pane,
tools and approvals, session, forge, publisher, providers, SecretNAT, MCP; and
the proofs of section 4, which state every safety property of the runs except
the two about the wire formats. What is left, by what would be worth
most:

1. A proof about the wire formats: that the two emitters of a dialect agree,
   by a least counterexample over the blocks, as for `StreamExact`.
2. Setting grounding mode, pane profile and seats in the pane, which only
   store, and the usage records of the loop.
