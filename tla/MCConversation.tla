--------------------------- MODULE MCConversation ---------------------------
(***************************************************************************)
(* Conversations on small instances.  In the scene "session" one is kept,  *)
(* trimmed, stored and resumed, with the calls of a reply and the sessions *)
(* that another pane may send; in the scene "restore" the host sends       *)
(* conversations that it read from the store, and the model stays; in the  *)
(* scene "wire" any short conversation is put on the wire.  The last       *)
(* shares no state with the others.                                        *)
(***************************************************************************)
EXTENDS Conversation

Two == {<<"c1", "c2">>}

(* A session with a finished call, written by the second model. *)
Fork ==
    LET wrote(cs) == Turn("assistant", cs, NoCall, FALSE, "m2", 0)
    IN  {<<User(0), wrote(<<"c1">>), ToolTurn("c1")>>,
         <<User(0), wrote(<<>>)>>}

B(k, v) == [kind |-> k, v |-> v]

(* Truncated input, images of the wrong type, empty texts, a failed result *)
(* and blocks in places where a provider does not expect them.             *)
Ordinary(role) ==
    CASE role = "user"      -> {B("text", <<"t">>), B("text", <<"">>), B("image", <<"stale">>),
                                B("result", <<"a", "out", "ok">>)}
      [] role = "assistant" -> {B("thinking", <<"h">>), B("text", <<"t">>), B("text", <<"">>), B("image", <<"stale">>),
                                B("call", <<"a", "json">>), B("call", <<"b", "cut">>)}
      [] OTHER              -> {B("result", <<"a", "out", "ok">>), B("result", <<"b", "out", "error">>),
                                B("image", <<"stale">>), B("text", <<"t">>)}

VARIABLES scene, neutral

Wire == INSTANCE WireFormat
    WITH Blocks <- Ordinary, MaxTurns <- 3, MaxBlocks <- 4, turns <- neutral

MCInit ==
    /\ Init /\ Wire!Init /\ scene \in {"session", "restore", "wire"}
    /\ scene # "session" => model = "m1"

MCNext ==
    /\ UNCHANGED scene
    /\ \/ scene = "session" /\ Next /\ UNCHANGED <<offered, neutral>>
       \/ scene = "restore" /\ Next /\ UNCHANGED <<model, neutral>>
       \/ scene = "wire" /\ Wire!Next /\ UNCHANGED vars

MCSpec == MCInit /\ [][MCNext]_<<vars, neutral, scene>>

(* Two paths, one request, and back again (chat_native.go:8, turns.go:27). *)
SameOnTheWire == Wire!SameOnTheWire

(* Rule C1 of turns.go. *)
ContentKept == Wire!ContentKept

(* The Messages API accepts the request (agentic_provider.go:817, :950).   *)
RequestWellFormed == Wire!RequestWellFormed
=============================================================================
