---------------------------- MODULE Conversation ----------------------------
(***************************************************************************)
(* The turns of a session: what a run appends, what interruption, trimming *)
(* and compaction cut away, what a request puts on the wire, and what is   *)
(* in the key-value store when the process dies.                           *)
(*                                                                         *)
(* A turn keeps its role, the calls of an assistant turn, the call that a  *)
(* tool turn answers and whether the tool really ran, the model that wrote *)
(* it, and the task whose text it carries verbatim.  The completion of a   *)
(* run is handled in the step that ends it; PromptExecution has the        *)
(* mailbox in between.                                                     *)
(***************************************************************************)
EXTENDS Integers, Sequences, FiniteSets, SequencesExt, FiniteSetsExt, Ordered

CONSTANTS
    CallLists,    \* the lists of calls a reply may make
    Models,       \* the models a pane may select
    Hard,         \* maxConversationTurnsHard: more turns are trimmed
    Target,       \* maxConversationTurns: this many turns are kept
    KeepRecent,   \* compactionKeepRecentTurns
    MaxIter,      \* the iteration cap of a run
    MaxTasks,     \* bound on the tasks typed by the user
    MaxLegs,      \* bound on the runs that are started
    ForkTurns,    \* what a fork from another pane may carry
    Crashes       \* whether the process may stop

ASSUME BoundsAssumption ==
    /\ {Hard, Target, KeepRecent, MaxIter, MaxTasks, MaxLegs} \subseteq Nat \ {0}
    /\ Target <= Hard /\ Crashes \in BOOLEAN

NoCall == "none"

(* A reply numbers its calls apart.                                        *)
ASSUME CallsAssumption ==
    \A cs \in CallLists : IsList(cs) /\ NoCall \notin ToSet(cs) /\ IsInjective(cs)

VARIABLES
    turns,      \* SessionMemory.turns
    paused,     \* SessionMemory.paused
    kv,         \* the last persisted turns and pause
    recent,     \* the last write is less than minWriteInterval old
    up,         \* the actor is running
    conv,       \* the conversation of the running orchestrator
    running,    \* there is one
    iteration,
    sent,       \* the transcript of the request in flight, or <<>>
    model,      \* the active model
    queued,     \* the task waiting for the cancelled run, or 0
    task,       \* the task typed last
    legs,       \* the runs started so far
    clean,      \* the latest run finished cleanly
    offered     \* the turns in a restore message on its way, or <<>>

session == <<turns, paused, kv, recent>>
run     == <<conv, running, iteration, sent>>
own     == <<session, run, up, model, queued, task, legs, clean>>
vars    == <<own, offered>>

-----------------------------------------------------------------------------
(* Turns. *)
Turn(role, calls, id, ran, by, brief) ==
    [role |-> role, calls |-> calls, id |-> id, ran |-> ran, by |-> by, brief |-> brief]

User(t)         == Turn("user", <<>>, NoCall, FALSE, "none", t)
Note            == User(0)
Assistant(cs)   == Turn("assistant", cs, NoCall, FALSE, model, 0)
ToolTurn(c)     == Turn("tool", <<>>, c, TRUE, "none", 0)
Synthetic(c)    == Turn("tool", <<>>, c, FALSE, "none", 0)
Calls(t)        == ToSet(t.calls)

(* The end of the run of tool turns after position i. *)
RunEnd(ts, i) == Max({j \in i .. Len(ts) : \A k \in (i + 1) .. j : ts[k].role = "tool"})

-----------------------------------------------------------------------------
(* Healing. *)

HealToLastUser(ts) ==
    LET users == {i \in DOMAIN ts : ts[i].role = "user"}
    IN  IF users = {} THEN ts ELSE SubSeq(ts, Max(users), Len(ts))

(* HealConversationHead: the first turn is a user turn, if there is one. *)
HealConversationHead(ts) ==
    LET users == {i \in DOMAIN ts : ts[i].role = "user"}
    IN  IF users = {} THEN ts ELSE SubSeq(ts, Min(users), Len(ts))

(* HealToolPairing: behind an assistant turn come the first result of each *)
(* of its calls and synthetic results for the others; any other tool turn  *)
(* is dropped.                                                             *)
Answered(ts, i) ==
    {k \in (i + 1) .. RunEnd(ts, i) :
        /\ ts[k].id \in Calls(ts[i])
        /\ \A l \in (i + 1) .. (k - 1) : ts[l].id # ts[k].id}

Results(ts, i) ==
    LET got  == Answered(ts, i)
        cs   == ts[i].calls
        lost == Chosen(cs, {n \in DOMAIN cs : \A k \in got : ts[k].id # cs[n]})
    IN  Chosen(ts, got) \o [n \in DOMAIN lost |-> Synthetic(lost[n])]

HealKeepingOrphans(ts) ==
    FlattenSeq([i \in DOMAIN ts |-> IF ts[i].role = "assistant" THEN <<ts[i]>> \o Results(ts, i)
                                                              ELSE <<ts[i]>>])

HealToolPairing(ts) ==
    FlattenSeq([i \in DOMAIN ts |-> CASE ts[i].role = "assistant" -> <<ts[i]>> \o Results(ts, i)
                                      [] ts[i].role = "user"      -> <<ts[i]>>
                                      [] OTHER                    -> <<>>])

(* ValidateToolPairing: the calls without a result and the results without *)
(* a call.                                                                 *)
Unpaired(ts) ==
    {i \in DOMAIN ts :
        \/ ts[i].role = "assistant"
           /\ \E c \in Calls(ts[i]) : \A k \in (i + 1) .. RunEnd(ts, i) : ts[k].id # c
        \/ ts[i].role = "tool"
           /\ \A o \in 1 .. (i - 1) : RunEnd(ts, o) >= i => ts[o].calls = <<>>}

(* CloseDanglingToolCalls: the calls of the last assistant turn that have  *)
(* no result after it get a synthetic one, unless a user turn follows it.  *)
CloseNone(ts) == ts

CloseDanglingToolCalls(ts) ==
    LET last == {i \in DOMAIN ts : ts[i].role = "assistant"
                                   /\ \A k \in (i + 1) .. Len(ts) : ts[k].role = "tool"}
        Open(i, c) == \A k \in (i + 1) .. Len(ts) : ts[k].id # c
        Lost(i) == Chosen(ts[i].calls, {n \in DOMAIN ts[i].calls : Open(i, ts[i].calls[n])})
        lost == Lost(Max(last))
    IN  IF last = {} THEN ts ELSE ts \o [n \in DOMAIN lost |-> Synthetic(lost[n])]

(* Bound: close the tail, trim to Target turns when there are more than    *)
(* Hard, heal the head.                                                    *)
TrimNever(ts) == ts

Trim(ts) == IF Len(ts) > Hard THEN SubSeq(ts, Len(ts) - Target + 1, Len(ts)) ELSE ts

Bound(ts) == HealConversationHead(Trim(CloseDanglingToolCalls(ts)))

-----------------------------------------------------------------------------
(* What a session may hold, and so what a fork may carry: turns whose      *)
(* calls are all answered, where only a window that was trimmed begins     *)
(* with results whose call is gone.                                        *)
IsTurns(ts) == \A i \in DOMAIN ts : /\ ts[i].role \in {"user", "assistant", "tool"}
                                    /\ ts[i].calls # <<>> => ts[i].role = "assistant"
                                    /\ (ts[i].id # NoCall) = (ts[i].role = "tool")

Answers(ts, k, i) ==
    /\ i < k /\ ts[i].role = "assistant" /\ ts[k].id \in Calls(ts[i])
    /\ \A j \in (i + 1) .. k : ts[j].role = "tool"

Whole(ts) ==
    /\ \A i \in DOMAIN ts : \A c \in Calls(ts[i]) : \E k \in DOMAIN ts : ts[k].id = c /\ Answers(ts, k, i)
    /\ \A k \in DOMAIN ts : ts[k].role = "tool" =>
          \/ \A j \in 1 .. k : ts[j].role = "tool"
          \/ \E i \in DOMAIN ts : Answers(ts, k, i)
    /\ \A k, l \in DOMAIN ts : k < l /\ (\A j \in k .. l : ts[j].role = "tool") => ts[k].id # ts[l].id

ASSUME ForksAssumption ==
    \A ts \in ForkTurns :
        IsList(ts) /\ (\A i \in DOMAIN ts : IsList(ts[i].calls)) /\ IsTurns(ts) /\ Whole(ts)

-----------------------------------------------------------------------------
(* Compaction: the oldest turns become one summary turn, which carries the *)
(* brief of the first of them; the cut moves past tool turns.              *)
NaiveCut(c) == Len(c) - KeepRecent

SafeCut(c) ==
    LET desired == Len(c) - KeepRecent
        safe    == {i \in desired .. (Len(c) - 1) : c[i + 1].role # "tool"}
    IN  IF desired <= 0 \/ safe = {} THEN 0 ELSE Min(safe)

Unpinned(head) == Note

Summary(head) == User(IF head.role = "user" THEN head.brief ELSE 0)

Compacted(c) ==
    IF Len(c) <= KeepRecent + 1 \/ SafeCut(c) = 0 THEN c
    ELSE <<Summary(c[1])>> \o SubSeq(c, SafeCut(c) + 1, Len(c))

-----------------------------------------------------------------------------
(* The request: a note behind each assistant turn that another model than  *)
(* the next one wrote, then the two heals, then one message for each run   *)
(* of tool turns.                                                          *)
NextWriter(c, i) ==
    LET later == {k \in (i + 1) .. Len(c) : c[k].role = "assistant"}
    IN  IF later = {} THEN model ELSE c[Min(later)].by

WithModelNotes(c) ==
    FlattenSeq([i \in DOMAIN c |->
        IF c[i].role = "assistant" /\ NextWriter(c, i) # c[i].by THEN <<c[i], Note>>
                                                                 ELSE <<c[i]>>])

OnWire(c) == HealToolPairing(HealConversationHead(c))

Message(role, uses, results) == [role |-> role, uses |-> uses, results |-> results]

Messages(ts) ==
    LET Batch(i) == {ts[k].id : k \in i .. RunEnd(ts, i)}
        Opens(i) == ts[i].role # "tool" \/ i = 1 \/ ts[i - 1].role # "tool"
    IN  FlattenSeq([i \in DOMAIN ts |->
            CASE ts[i].role = "user"              -> <<Message("user", {}, {})>>
              [] ts[i].role = "assistant"         -> <<Message("assistant", Calls(ts[i]), {})>>
              [] ts[i].role = "tool" /\ Opens(i)  -> <<Message("user", {}, Batch(i))>>
              [] OTHER                            -> <<>>])

-----------------------------------------------------------------------------
(* Persistence.  A write within minWriteInterval of the last one is        *)
(* skipped unless it is forced.                                            *)
Persist(ts, p, force) ==
    IF force \/ ~recent
      THEN kv' = [turns |-> ts, paused |-> p] /\ recent' = TRUE
      ELSE UNCHANGED <<kv, recent>>

Init ==
    /\ turns = <<>> /\ paused = FALSE
    /\ kv = [turns |-> <<>>, paused |-> FALSE] /\ recent = FALSE
    /\ up = TRUE /\ model \in Models
    /\ conv = <<>> /\ running = FALSE /\ iteration = 0 /\ sent = <<>>
    /\ queued = 0 /\ task = 0 /\ legs = 0 /\ clean = TRUE
    /\ offered = <<>>

(* startPrompt: the prompt joins the session, and a new orchestrator gets  *)
(* the session's turns.                                                    *)
StartPrompt(ts, t) ==
    /\ legs < MaxLegs /\ legs' = legs + 1
    /\ paused' = FALSE
    /\ turns' = Bound(Append(ts, t))
    /\ conv' = turns' /\ running' = TRUE /\ iteration' = 0 /\ sent' = <<>>
    /\ queued' = 0

Prompt ==
    /\ up /\ ~running /\ task < MaxTasks
    /\ task' = task + 1
    /\ StartPrompt(turns, User(task + 1))
    /\ UNCHANGED <<kv, recent, up, model, clean>>

Continue ==
    /\ up /\ ~running /\ paused
    /\ StartPrompt(turns, Note)
    /\ UNCHANGED <<kv, recent, up, model, task, clean>>

(* A prompt while a run is going cancels it and waits. *)
Queue ==
    /\ up /\ running /\ task < MaxTasks
    /\ task' = task + 1 /\ queued' = task + 1
    /\ UNCHANGED <<session, run, up, model, legs, clean>>

(* The completion of a run. *)
PersistQuietly(ts, p) == Persist(ts, p, FALSE)

PersistPause(ts, p) == Persist(ts, p, p)

Finish(c, interrupted) ==
    LET ts == Bound(IF interrupted THEN CloseDanglingToolCalls(c) ELSE c)
    IN  /\ clean' = ~interrupted
        /\ IF queued # 0
             THEN StartPrompt(ts, User(queued)) /\ UNCHANGED <<kv, recent>>
             ELSE /\ turns' = ts /\ paused' = interrupted
                  /\ PersistPause(ts, interrupted)
                  /\ conv' = <<>> /\ running' = FALSE /\ iteration' = 0 /\ sent' = <<>>
                  /\ UNCHANGED <<queued, legs>>
        /\ UNCHANGED <<up, model, task>>

Grow(c) ==
    /\ conv' = c /\ sent' = <<>>
    /\ UNCHANGED <<session, running, iteration, up, model, queued, task, legs, clean>>

-----------------------------------------------------------------------------
(* One iteration of the run loop: a request, with compaction when the last *)
(* one was large, and its answer.                                          *)
Waiting == running /\ sent # <<>>

Send ==
    /\ running /\ sent = <<>> /\ queued = 0 /\ iteration < MaxIter
    /\ iteration' = iteration + 1
    /\ \E c \in {conv, Compacted(conv)} : conv' = c /\ sent' = WithModelNotes(c)
    /\ UNCHANGED <<session, running, up, model, queued, task, legs, clean>>

Texts == {conv, Append(conv, Assistant(<<>>))}

ReplyText == Waiting /\ \E c \in Texts : Finish(c, FALSE)

ReplyTruncated == Waiting /\ \E c \in Texts : Grow(c)

(* The calls run one after the other.  After each the loop looks for a     *)
(* cancelled context; then the rest of the calls never run.                *)
Ran(cs, n) == [k \in 1 .. n |-> ToolTurn(cs[k])]

ReplyTools(cs) == Waiting /\ queued = 0 /\ Grow(Append(conv, Assistant(cs)) \o Ran(cs, Len(cs)))

ReplyToolsCancelled(cs, n) ==
    /\ Waiting
    /\ Finish(Append(conv, Assistant(cs)) \o Ran(cs, n), TRUE)

ReplyQuestion(cs) ==
    /\ Waiting /\ queued = 0
    /\ Finish(Append(conv, Assistant(cs)) \o Ran(cs, Len(cs)), TRUE)

(* A permanent error ends the run without pausing it. *)
ReplyError == Waiting /\ Finish(conv, FALSE)

(* Cancelled, or at one of the caps: the run pauses. *)
Stop == running /\ Finish(conv, TRUE)

-----------------------------------------------------------------------------
(* A fork replaces the session; a run in flight is stopped and ignored. *)
SessionMemoryReplace(ts, p) ==
    /\ up
    /\ turns' = Bound(ts) /\ paused' = p
    /\ Persist(Bound(ts), p, TRUE)
    /\ conv' = <<>> /\ running' = FALSE /\ iteration' = 0 /\ sent' = <<>>
    /\ clean' = ~p
    /\ UNCHANGED <<up, model, queued, task, legs>>

(* The host reads the turns in the store (the legacy key, which Persist    *)
(* writes too) and sends them.  They arrive whenever the mailbox gets to   *)
(* them: while a run is going, while paused, after a fork.  The longer     *)
(* conversation wins; nothing is persisted.                                *)
ReadStore ==
    /\ offered = <<>> /\ kv.turns # <<>> /\ offered' = kv.turns
    /\ UNCHANGED own

AnyTurns(ts) == ts # <<>>

AddsTurns(ts) == Len(ts) > Len(turns)

RestoreConversation ==
    /\ up /\ offered # <<>>
    /\ turns' = IF AddsTurns(offered) THEN offered ELSE turns
    /\ offered' = <<>>
    /\ UNCHANGED <<paused, kv, recent, run, up, model, queued, task, legs, clean>>

(* Stopping writes the session; a crash does not. *)
Halt ==
    /\ up' = FALSE
    /\ turns' = <<>> /\ paused' = FALSE
    /\ conv' = <<>> /\ running' = FALSE /\ iteration' = 0 /\ sent' = <<>> /\ queued' = 0
    /\ UNCHANGED <<model, task, legs>>

Stopping ==
    /\ up /\ Crashes
    /\ Halt
    /\ kv' = [turns |-> turns, paused |-> paused] /\ recent' = FALSE
    /\ clean' = (clean /\ ~running)

Crash ==
    /\ up /\ Crashes
    /\ Halt
    /\ recent' = FALSE
    /\ clean' = (clean /\ ~running)
    /\ UNCHANGED kv

Restore ==
    /\ ~up /\ up' = TRUE
    /\ turns' = kv.turns
    /\ paused' = (kv.paused /\ kv.turns # <<>>)
    /\ UNCHANGED <<kv, recent, run, model, queued, task, legs, clean>>

TimePasses ==
    /\ recent /\ recent' = FALSE
    /\ UNCHANGED <<turns, paused, kv, run, up, model, queued, task, legs, clean>>

Select(m) ==
    /\ m # model /\ model' = m
    /\ UNCHANGED <<session, run, up, queued, task, legs, clean>>

Act ==
    \/ Prompt \/ Continue \/ Queue
    \/ Send \/ ReplyText \/ ReplyTruncated \/ ReplyError \/ Stop
    \/ \E cs \in CallLists : ReplyTools(cs) \/ ReplyQuestion(cs)
    \/ \E cs \in CallLists : \E n \in 1 .. Len(cs) : ReplyToolsCancelled(cs, n)
    \/ \E ts \in ForkTurns, p \in BOOLEAN : SessionMemoryReplace(ts, p)
    \/ Stopping \/ Crash \/ Restore \/ TimePasses
    \/ \E m \in Models : Select(m)

Next == (Act /\ UNCHANGED offered) \/ ReadStore \/ RestoreConversation

Spec == Init /\ [][Next]_vars

-----------------------------------------------------------------------------
(* Properties. *)

(* The session, its copy in the store and the conversation of the run are  *)
(* sequences of well formed turns.                                         *)
TypeOK ==
    /\ IsTurns(turns) /\ IsTurns(conv) /\ IsTurns(sent) /\ IsTurns(kv.turns)
    /\ {paused, recent, up, running, clean, kv.paused} \subseteq BOOLEAN
    /\ Len(turns) <= Hard
    /\ iteration \in 0 .. MaxIter /\ queued \in 0 .. MaxTasks /\ task \in 0 .. MaxTasks
    /\ running => conv # <<>>
    /\ IsTurns(offered)

(* What toolpairing.go states of the API: the first message is a user's,   *)
(* every use is answered in the very next message, and a result has its    *)
(* use in the very message before.                                         *)
Accepted(ms) ==
    /\ ms # <<>> => ms[1].role = "user"
    /\ \A i \in DOMAIN ms : ms[i].uses # {} => i < Len(ms) /\ ms[i].uses \subseteq ms[i + 1].results
    /\ \A i \in DOMAIN ms : ms[i].results # {} => i > 1 /\ ms[i].results \subseteq ms[i - 1].uses

(* No request is rejected for its pairing, whatever was interrupted,       *)
(* trimmed, compacted, forked, restored or annotated before it.            *)
RequestAccepted == Waiting => Accepted(Messages(OnWire(sent)))

(* The healing on the way to the wire has nothing to invent: no sequence   *)
(* of cuts leaves a stored call without its result or a result without its *)
(* call.  Only a window trimmed to turns without a user turn, which the    *)
(* next prompt drops whole, may begin with such a result.                  *)
HasUser(ts) == \E i \in DOMAIN ts : ts[i].role = "user"
StoredPaired ==
    /\ HasUser(turns) => Unpaired(turns) = {}
    /\ Unpaired(conv) = {}

(* "preserving tool call results (like draft_id) for subsequent            *)
(* orchestrator sessions" (orchestrator.go:523): the result of every call  *)
(* that ran and is still in the conversation is in the request, unless a   *)
(* note about a change of the model was put between the turns.             *)
Real(ts) == Cardinality({i \in DOMAIN ts : ts[i].ran})
ResultsSent == Waiting /\ Len(sent) = Len(conv) => Real(OnWire(sent)) = Real(conv)

(* "The turns already in memory ARE the checkpoint - nothing else is       *)
(* needed to resume" (session_memory.go:135): a continued run sees the     *)
(* last turn of the paused one, unless trimming cut every user turn.       *)
CheckpointKept ==
    [][ Continue /\ Len(turns) < Hard /\ HasUser(turns) => Len(conv') > 1 /\ conv'[Len(conv') - 1] = turns[Len(turns)] ]_vars

(* "The run's original task turn is pinned verbatim inside the summary     *)
(* turn" (orchestrator.go:1769): the task that the conversation of a run   *)
(* opens with is still what it opens with after any compaction.            *)
Opening(ts) == LET users == {i \in DOMAIN ts : ts[i].role = "user"} IN IF users = {} THEN 0 ELSE ts[Min(users)].brief
BriefPinned == [][running /\ running' /\ legs' = legs => Opening(conv') = Opening(conv)]_vars

(* A paused session survives a restart: whatever happens after the pause,  *)
(* the store holds a pause, and the turns in it are those in memory unless *)
(* a restore message has brought a longer conversation.                    *)
PauseDurable ==
    up /\ paused /\ ~running => kv.paused /\ (turns = kv.turns \/ Len(turns) > Len(kv.turns))

(* "Only adopt an external restore when it adds turns we don't have: the   *)
(* actor self-restores from KV on Started, and clobbering that state would *)
(* drop the pause checkpoint" (llm_prompt_execution_actor.go:416): what is *)
(* continued after a pause is what the pause stored.                       *)
CheckpointGuarded == up /\ paused /\ ~running => kv = [turns |-> turns, paused |-> TRUE]

(* No sequence of interrupts, cuts, forks and restarts tears a call from   *)
(* its result, in the store, in a run or in the request.                   *)
ConversationWhole == TypeOK /\ StoredPaired /\ RequestAccepted /\ ResultsSent

(* A task outlives what shortens its conversation: compaction keeps its    *)
(* brief and a pause its last turn.                                        *)
TaskKept == BriefPinned /\ CheckpointKept
=============================================================================
