----------------------------- MODULE WireFormat -----------------------------
(***************************************************************************)
(* How a conversation is put on the wire.  Neutral turns reach a provider  *)
(* on two paths: natively, flattened into units, and through the shim, as  *)
(* conversation turns.  Each dialect has an emitter for both, and the code *)
(* promises that the two send the same bytes.                              *)
(*                                                                         *)
(* A block is [kind, v] with v a tuple of strings: the text; the text of a *)
(* thinking block; id and input of a call ("cut" is truncated JSON); id,   *)
(* output and status of a result; the declared type of an image ("stale"   *)
(* is not the type of its bytes).                                          *)
(***************************************************************************)
EXTENDS Integers, Sequences, SequencesExt

CONSTANTS
    Blocks(_),   \* the blocks a turn of a role is built from
    MaxTurns, MaxBlocks

VARIABLE turns   \* neutral turns: [role, blocks]

Roles == {"user", "assistant", "tool"}

Init == turns = <<>>

NewTurn(role) ==
    /\ Len(turns) < MaxTurns
    /\ turns' = Append(turns, [role |-> role, blocks |-> <<>>])

AddBlock(b) ==
    /\ turns # <<>> /\ b \in Blocks(Last(turns).role)
    /\ Len(FlattenSeq([i \in DOMAIN turns |-> turns[i].blocks])) < MaxBlocks
    /\ turns' = [turns EXCEPT ![Len(turns)].blocks = Append(@, b)]

Next ==
    \/ \E role \in Roles : NewTurn(role)
    \/ \E role \in Roles : \E b \in Blocks(role) : AddBlock(b)

Spec == Init /\ [][Next]_turns

Collect(Of(_), s) == FlattenSeq([i \in DOMAIN s |-> Of(s[i])])

-----------------------------------------------------------------------------
(* Native: wire units.  The carrier is always the last unit; a text with   *)
(* nothing but thinking before it is the content of the first.             *)
NoResult == <<"", "", "ok">>

Unit(role) ==
    [role |-> role, content |-> "", thinking |-> <<>>, calls |-> <<>>, result |-> NoResult, blocks |-> <<>>]

PromoteAlways(s) == TRUE

Promotes(s) == s.promotable

FlattenBlock(role, s, b) ==
    LET last  == Len(s.units)
        spent == [s EXCEPT !.promotable = FALSE]
    IN  CASE b.kind = "thinking" -> [s EXCEPT !.units[last].thinking = Append(@, b.v)]
          [] b.kind = "call"     -> [spent EXCEPT !.units[last].calls = Append(@, b.v)]
          [] b.kind = "result" /\ role = "tool" /\ ~s.answered /\ last = 1
               -> [spent EXCEPT !.units[1].result = b.v, !.answered = TRUE]
          [] b.kind = "result" /\ ~(role = "tool" /\ ~s.answered /\ last = 1)
               -> [spent EXCEPT !.units = Append(@, [Unit("tool") EXCEPT !.result = b.v])]
          [] b.kind = "text" /\ role # "tool" /\ Promotes(s)
               -> [spent EXCEPT !.units[1].content = b.v[1]]
          [] OTHER               -> [spent EXCEPT !.units[last].blocks = Append(@, b)]

FlattenTurn(t) ==
    FoldLeft(LAMBDA s, b : FlattenBlock(t.role, s, b),
             [units |-> <<Unit(t.role)>>, promotable |-> TRUE, answered |-> FALSE], t.blocks).units

FlattenTurns(ts) == Collect(FlattenTurn, ts)

-----------------------------------------------------------------------------
(* Shim: conversation turns, whose content is the output in a tool turn.   *)
Shim(role) ==
    [role |-> role, content |-> "", thinking |-> <<>>, calls |-> <<>>, id |-> "", status |-> "ok", blocks |-> <<>>]

WithResult(c, v) == [c EXCEPT !.id = v[1], !.content = v[2], !.status = v[3]]

ConversationTurnsFromTurn(t) ==
    LET Step(s, b) ==
            LET last == Len(s.out)
            IN  CASE b.kind = "thinking" -> [s EXCEPT !.out[last].thinking = Append(@, b.v)]
                  [] b.kind = "call"     -> [s EXCEPT !.out[last].calls = Append(@, b.v), !.first = FALSE]
                  [] b.kind = "result"   ->
                       IF t.role = "tool" /\ ~s.answered /\ last = 1
                         THEN [s EXCEPT !.out[1] = WithResult(@, b.v), !.answered = TRUE, !.first = FALSE]
                         ELSE [s EXCEPT !.out = Append(@, WithResult(Shim("tool"), b.v)), !.first = FALSE]
                  [] b.kind = "image"    -> [s EXCEPT !.out[last].blocks = Append(@, b), !.first = FALSE]
                  [] b.kind = "text"     ->
                       IF t.role # "tool" /\ s.first
                         THEN [s EXCEPT !.out[1].content = b.v[1], !.first = FALSE]
                         ELSE [s EXCEPT !.out[last].blocks = Append(@, b), !.first = FALSE]
    IN  FoldLeft(Step, [out |-> <<Shim(t.role)>>, first |-> TRUE, answered |-> FALSE], t.blocks).out

ConversationFromTurns(ts) == Collect(ConversationTurnsFromTurn, ts)

Block(kind, v) == [kind |-> kind, v |-> v]

OfKind(kind, vs) == [i \in DOMAIN vs |-> Block(kind, vs[i])]

(* Back: thinking, then the text or the result, then calls, then the rest. *)
TextBeforeThinking(c) ==
    [role |-> c.role,
     blocks |-> (IF c.content = "" \/ c.role = "tool" THEN <<>> ELSE <<Block("text", <<c.content>>)>>)
                \o OfKind("thinking", c.thinking) \o OfKind("call", c.calls) \o c.blocks]

TurnFromConversation(c) ==
    [role |-> c.role,
     blocks |-> OfKind("thinking", c.thinking)
                \o (IF c.role = "tool" THEN <<Block("result", <<c.id, c.content, c.status>>)>>
                    ELSE IF c.content # "" THEN <<Block("text", <<c.content>>)>> ELSE <<>>)
                \o OfKind("call", c.calls) \o c.blocks]

TurnsFromConversation(conv) == [i \in DOMAIN conv |-> TurnFromConversation(conv[i])]

-----------------------------------------------------------------------------
(* Claude. *)
HealUnitsHead(us) ==
    LET users == {i \in DOMAIN us : us[i].role = "user"}
    IN  IF users = {} THEN us ELSE SubSeq(us, CHOOSE i \in users : \A j \in users : i <= j, Len(us))

(* The tool units right behind unit i. *)
Run(us, i) == {k \in (i + 1) .. Len(us) : \A j \in (i + 1) .. k : us[j].role = "tool"}

Synthesized(call) == [Unit("tool") EXCEPT !.result = <<call[1], "interrupted", "error">>]

HealUnitsToolPairing(us) ==
    LET Ids(i)     == {us[i].calls[n][1] : n \in DOMAIN us[i].calls}
        Got(i)     == {k \in Run(us, i) : /\ us[k].result[1] \in Ids(i)
                                          /\ \A j \in (i + 1) .. (k - 1) : us[j].result[1] # us[k].result[1]}
        Missing(i) == SelectSeq(us[i].calls, LAMBDA c : \A k \in Got(i) : us[k].result[1] # c[1])
        Lost(i)    == [n \in DOMAIN Missing(i) |-> Synthesized(Missing(i)[n])]
        Kept(i)    == [n \in DOMAIN SetToSortSeq(Got(i), <) |-> us[SetToSortSeq(Got(i), <)[n]]]
    IN  Collect(LAMBDA i : CASE us[i].role = "assistant" -> <<us[i]>> \o Kept(i) \o Lost(i)
                             [] us[i].role = "tool"      -> <<>>
                             [] OTHER                    -> <<us[i]>>,
                [i \in DOMAIN us |-> i])

SanitizeToolInput(input) == IF input \in {"", "cut"} THEN "{}" ELSE input

HealImageBlock(b) == IF b.kind = "image" THEN Block("image", <<"sniffed">>) ELSE b

Message(role, form, parts) == [role |-> role, form |-> form, parts |-> parts, cached |-> FALSE]

UserMessage(u) ==
    IF u.blocks = <<>> THEN Message("user", "string", <<Block("text", <<u.content>>)>>)
    ELSE Message("user", "blocks", (IF u.content = "" THEN <<>> ELSE <<Block("text", <<u.content>>)>>)
                                   \o [n \in DOMAIN u.blocks |-> HealImageBlock(u.blocks[n])])

AssistantParts(u) ==
    OfKind("thinking", SelectSeq(u.thinking, LAMBDA v : v # <<"">>))
      \o (IF u.content = "" THEN <<>> ELSE <<Block("text", <<u.content>>)>>)
      \o [n \in DOMAIN u.calls |-> Block("call", <<u.calls[n][1], SanitizeToolInput(u.calls[n][2])>>)]

(* One message for each run of tool units, and one more for what came with *)
(* the results.                                                            *)
EachResult(us, i) == {i}

Batch(us, i) == IF i > 1 /\ us[i - 1].role = "tool" THEN {} ELSE {i} \union Run(us, i)

ToolMessages(us, i) ==
    LET batch   == SetToSortSeq(Batch(us, i), <)
        results == [n \in DOMAIN batch |-> Block("result", us[batch[n]].result)]
        images  == Collect(LAMBDA k : [n \in DOMAIN us[k].blocks |-> HealImageBlock(us[k].blocks[n])], batch)
    IN  (IF batch = <<>> THEN <<>> ELSE <<Message("user", "blocks", results)>>)
          \o (IF images = <<>> THEN <<>> ELSE <<Message("user", "attachments", images)>>)

MessagesFromUnits(us) ==
    Collect(LAMBDA i : CASE us[i].role = "user" -> <<UserMessage(us[i])>>
                         [] us[i].role = "tool" -> ToolMessages(us, i)
                         [] us[i].role = "assistant" /\ AssistantParts(us[i]) # <<>>
                              -> <<Message("assistant", "blocks", AssistantParts(us[i]))>>
                         [] OTHER -> <<>>,
            [i \in DOMAIN us |-> i])

BuildTurnMessages(ts) == MessagesFromUnits(HealUnitsToolPairing(HealUnitsHead(FlattenTurns(ts))))

(* buildMessages, written apart from this for conversation turns: the head *)
(* is healed, then the pairing, then turns are emitted.                    *)
HealConversationHead(conv) ==
    LET first == SelectInSeq(conv, LAMBDA c : c.role = "user")
    IN  IF first = 0 THEN conv ELSE SubSeq(conv, first, Len(conv))

(* The calls of the last assistant turn that no result has answered yet.   *)
CloseTurn(s) ==
    [out  |-> s.out \o [n \in DOMAIN s.open |->
                           [Shim("tool") EXCEPT !.id = s.open[n][1], !.content = "interrupted", !.status = "error"]],
     open |-> <<>>]

HealTurn(s, c) ==
    CASE c.role = "tool" /\ (\E n \in DOMAIN s.open : s.open[n][1] = c.id)
           -> [out |-> Append(s.out, c), open |-> SelectSeq(s.open, LAMBDA call : call[1] # c.id)]
      [] c.role = "tool" /\ ~(\E n \in DOMAIN s.open : s.open[n][1] = c.id) -> s
      [] OTHER -> [out |-> Append(CloseTurn(s).out, c), open |-> c.calls]

HealToolPairing(conv) == CloseTurn(FoldLeft(HealTurn, [out |-> <<>>, open |-> <<>>], conv)).out

(* What is still to be sent of a run of tool turns.                        *)
CloseRun(s) ==
    [messages |-> s.messages
                  \o (IF s.results = <<>> THEN <<>> ELSE <<Message("user", "blocks", s.results)>>)
                  \o (IF s.attachments = <<>> THEN <<>> ELSE <<Message("user", "attachments", s.attachments)>>),
     results |-> <<>>, attachments |-> <<>>]

Emit(s, m) == [CloseRun(s) EXCEPT !.messages = Append(@, m)]

(* One message for each result, as no request may have it. *)
EmitToolApart(s, c) ==
    Emit(s, Message("user", "blocks", <<Block("result", <<c.id, c.content, c.status>>)>>))

EmitTool(s, c) ==
    [s EXCEPT !.results = Append(@, Block("result", <<c.id, c.content, c.status>>)),
              !.attachments = @ \o [n \in DOMAIN c.blocks |-> HealImageBlock(c.blocks[n])]]

EmitUser(s, c) ==
    LET lead == IF c.content = "" THEN <<>> ELSE <<Block("text", <<c.content>>)>>
    IN  IF c.blocks = <<>>
          THEN Emit(s, Message("user", "string", <<Block("text", <<c.content>>)>>))
          ELSE Emit(s, Message("user", "blocks", lead \o [n \in DOMAIN c.blocks |-> HealImageBlock(c.blocks[n])]))

EmitAssistant(s, c) ==
    LET thought == OfKind("thinking", SelectSeq(c.thinking, LAMBDA v : v # <<"">>))
        said    == SelectSeq(<<Block("text", <<c.content>>)>>, LAMBDA b : b.v # <<"">>)
        called  == [n \in DOMAIN c.calls |-> Block("call", <<c.calls[n][1], SanitizeToolInput(c.calls[n][2])>>)]
        parts   == thought \o said \o called
    IN  IF parts = <<>> THEN CloseRun(s) ELSE Emit(s, Message("assistant", "blocks", parts))

BuildMessages(conv) ==
    LET EmitTurn(s, c) ==
            CASE c.role = "tool" -> EmitTool(s, c)
              [] c.role = "user" -> EmitUser(s, c)
              [] OTHER           -> EmitAssistant(s, c)
    IN  CloseRun(FoldLeft(EmitTurn, [messages |-> <<>>, results |-> <<>>, attachments |-> <<>>],
                          HealToolPairing(HealConversationHead(conv)))).messages

(* Cache breakpoints on the last two messages; the attachments are of a    *)
(* type that the marking does not know.                                    *)
LastMessage(n) == {n}

LastTwo(n) == {n - 1, n}

WithBreakpoints(ms) ==
    [i \in DOMAIN ms |-> [ms[i] EXCEPT !.cached = i \in LastTwo(Len(ms)) /\ ms[i].form # "attachments"]]

-----------------------------------------------------------------------------
(* Chat Completions: no thinking, attachments or error status. *)
UnitToOAI(u) ==
    CASE u.role = "tool"      -> [role |-> "tool", content |-> u.result[2], id |-> u.result[1], calls |-> <<>>]
      [] u.role = "assistant" -> [role |-> "assistant", content |-> u.content, id |-> "", calls |-> u.calls]
      [] OTHER                -> [role |-> "user", content |-> u.content, id |-> "", calls |-> <<>>]

TurnToOAI(c) ==
    CASE c.role = "tool"      -> [role |-> "tool", content |-> c.content, id |-> c.id, calls |-> <<>>]
      [] c.role = "assistant" -> [role |-> "assistant", content |-> c.content, id |-> "", calls |-> c.calls]
      [] OTHER                -> [role |-> "user", content |-> c.content, id |-> "", calls |-> <<>>]

(* Responses: a call is an item of its own, the status part of the output. *)
Item(type, id, value) == [type |-> type, id |-> id, value |-> value]

Said(role, content) == Item(role, "", <<content>>)

CallItems(calls) ==
    [n \in DOMAIN calls |-> Item("function_call", calls[n][1], <<IF calls[n][2] = "" THEN "{}" ELSE calls[n][2]>>)]

UnitToResponses(u) ==
    CASE u.role = "tool"      -> <<Item("function_call_output", u.result[1], <<u.result[3], u.result[2]>>)>>
      [] u.role = "assistant" -> (IF u.content = "" THEN <<>> ELSE <<Said("assistant", u.content)>>) \o CallItems(u.calls)
      [] OTHER                -> <<Said("user", u.content)>>

TurnToResponses(c) ==
    CASE c.role = "tool"      -> <<Item("function_call_output", c.id, <<c.status, c.content>>)>>
      [] c.role = "assistant" -> (IF c.content = "" THEN <<>> ELSE <<Said("assistant", c.content)>>) \o CallItems(c.calls)
      [] OTHER                -> <<Said("user", c.content)>>

-----------------------------------------------------------------------------
(* Properties. *)

(* "The native wire bytes are IDENTICAL to the adapter path's for every    *)
(* expressible input" (chat_native.go), in the three dialects.             *)
NativeEqualsShim ==
    LET units == FlattenTurns(turns)
        conv  == ConversationFromTurns(turns)
    IN  /\ BuildTurnMessages(turns) = BuildMessages(conv)
        /\ [i \in DOMAIN units |-> UnitToOAI(units[i])] = [i \in DOMAIN conv |-> TurnToOAI(conv[i])]
        /\ Collect(UnitToResponses, units) = Collect(TurnToResponses, conv)

(* Rule C1 of turns.go: a turn without content whose attachments begin     *)
(* with a text does not come back as it was.                               *)
PromotedBack(c) ==
    /\ c.role # "tool" /\ c.content = "" /\ c.calls = <<>>
    /\ c.blocks # <<>> /\ c.blocks[1].kind = "text"

Content(ms) == [i \in DOMAIN ms |-> SelectSeq(ms[i].parts, LAMBDA p : p.v # <<"">>)]

Again(conv) == ConversationFromTurns(TurnsFromConversation(conv))

(* "The Anthropic adapter emits the same wire content either way"          *)
(* (turns.go:25): of a conversation and of what rule C1 makes of it, but   *)
(* for empty texts.                                                        *)
ContentKept ==
    LET conv == ConversationFromTurns(turns)
    IN  Content(BuildMessages(Again(conv))) = Content(BuildMessages(conv))

(* A conversation survives the way through neutral turns, except where     *)
(* rule C1 applies; and where it applies to turns of the user only, even   *)
(* then with the same content on the wire.  The attachments of an          *)
(* assistant turn are sent on neither path, but what the rule makes of one *)
(* is.                                                                     *)
RoundTrip ==
    LET conv  == ConversationFromTurns(turns)
        again == Again(conv)
    IN  /\ Len(again) = Len(conv)
        /\ \A i \in DOMAIN conv : ~PromotedBack(conv[i]) => again[i] = conv[i]
        /\ (\A i \in DOMAIN conv : PromotedBack(conv[i]) => conv[i].role = "user") => ContentKept

(* What the Messages API asks of a request, however turns were cut, mixed  *)
(* or fanned out: it begins with a user message, every call is answered in *)
(* the very next message, every result answers a call of the one before,   *)
(* and an image has the type of its bytes (toolpairing.go, imagesniff.go). *)
Uses(m)    == {m.parts[n].v[1] : n \in {k \in DOMAIN m.parts : m.parts[k].kind = "call"}}
Answers(m) == {m.parts[n].v[1] : n \in {k \in DOMAIN m.parts : m.parts[k].kind = "result"}}

ClaudeAccepts ==
    (\E i \in DOMAIN turns : turns[i].role = "user") =>
        LET ms == BuildTurnMessages(turns)
        IN  /\ ms # <<>> /\ ms[1].role = "user" /\ Answers(ms[1]) = {}
            /\ \A i \in DOMAIN ms :
                 /\ i < Len(ms) => Answers(ms[i + 1]) = Uses(ms[i])
                 /\ i = Len(ms) => Uses(ms[i]) = {}
                 /\ \A n \in DOMAIN ms[i].parts : ms[i].parts[n].kind = "image" => ms[i].parts[n].v = <<"sniffed">>

(* The request is never without a breakpoint near its end, whatever its    *)
(* last message is, and has no more than two there: the API allows four,   *)
(* and the system prompt and the tools have two                            *)
(* (applyTrailingMessageCacheBreakpoint).                                  *)
EndCached ==
    LET ms == WithBreakpoints(BuildTurnMessages(turns))
        at == {i \in DOMAIN ms : ms[i].cached}
    IN  (ms # <<>> => at # {}) /\ at \subseteq {Len(ms) - 1, Len(ms)}

(* One conversation is the same request on both paths, and the same        *)
(* conversation when it is converted back (chat_native.go:8).              *)
SameOnTheWire == NativeEqualsShim /\ RoundTrip

(* The request is one the Messages API accepts, with its pairing and its   *)
(* cache breakpoints (toolpairing.go, agentic_provider.go:950).            *)
RequestWellFormed == ClaudeAccepts /\ EndCached
=============================================================================
