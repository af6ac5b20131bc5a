--------------------------- MODULE StreamReaders ---------------------------
(***************************************************************************)
(* The goroutine that reads one stream: a GraphQL subscription over a      *)
(* websocket, lines of JSON from a gateway, or Connect envelopes.  The     *)
(* server says items, which travel in order; the network may break at any  *)
(* moment and take a suffix of them; and the session may be cancelled,     *)
(* which reaches the reader by way of the connection.  A message is its    *)
(* number, and 0 stands for the first part of one.                         *)
(***************************************************************************)
EXTENDS Integers, Sequences, SequencesExt

CONSTANT MaxItems   \* bound on what the server says

VARIABLES
    link,       \* [asked, body, wire, up, said, items, verdict]: the connection, and what the server did
    reader      \* [pc, pushed, end, cancelled]

vars == <<link, reader>>

Wires ==
    {[asked |-> "graphql", body |-> "socket"]} \union
    [asked : {"gateway", "connect"}, body : {"lines", "envelopes", "otherCodec", "compressed"}]

Init ==
    /\ \E w \in Wires : link = [asked |-> w.asked, body |-> w.body, wire |-> <<>>, up |-> TRUE,
                                said |-> 0, items |-> 0, verdict |-> "open"]
    /\ reader = [pc |-> "open", pushed |-> <<>>, end |-> "", cancelled |-> FALSE]

At(pc) == reader.pc = pc

-----------------------------------------------------------------------------
(* What a server may say: messages, of which some are beyond what a reader *)
(* takes; what is about the connection; and what ends the stream.          *)
Messages ==
    CASE link.body = "socket"    -> {"next"}
      [] link.body = "lines"     -> {"result", "bare", "big"}
      [] link.body = "envelopes" -> {"message", "packed", "unknown", "big"}
      [] OTHER                   -> {}

Notes ==
    CASE link.body = "socket" -> {"ack", "ping", "other"}
      [] link.body = "lines"  -> {"blank"}
      [] OTHER                -> {}

(* How the server itself would say that the stream ended. *)
Verdicts ==
    CASE link.body = "socket" -> [complete |-> "done", error |-> "failed", close |-> "done", eof |-> "failed"]
      [] link.body = "lines"  -> [error |-> "failed", eof |-> "done"]
      [] OTHER -> [end |-> "done", endError |-> "failed", malformed |-> "failed", eof |-> "failed"]

Says(k) ==
    /\ link.up /\ link.items < MaxItems /\ link.verdict = "open" /\ ~At("open")
    /\ k \in Messages \union Notes
    /\ LET n == IF k \in Messages THEN link.said + 1 ELSE link.said
       IN  link' = [link EXCEPT !.wire = Append(@, [kind |-> k, n |-> n]), !.items = @ + 1, !.said = n]
    /\ UNCHANGED reader

Ends(k) ==
    /\ link.up /\ ~At("open") /\ k \in DOMAIN Verdicts
    /\ \/ link.verdict = "open"
       \/ k \in {"eof", "close"} /\ (link.wire # <<>> => Last(link.wire).kind \notin {"eof", "close"})
    /\ link' = [link EXCEPT !.wire = Append(@, [kind |-> k, n |-> link.said]),
                            !.verdict = IF @ = "open" THEN Verdicts[k] ELSE @]
    /\ UNCHANGED reader

(* The network breaks: of what was on its way a prefix arrives, perhaps    *)
(* with a part of what came next.                                          *)
Breaks ==
    /\ link.up /\ ~At("open")
    /\ \E n \in 0 .. Len(link.wire), part \in BOOLEAN :
          /\ part => n < Len(link.wire) /\ link.wire[n + 1].kind \in Messages
          /\ link' = [link EXCEPT !.up = FALSE,
                                  !.wire = SubSeq(@, 1, n) \o (IF part THEN <<[kind |-> "part", n |-> 0]>> ELSE <<>>),
                                  !.verdict = IF @ = "open" THEN "failed" ELSE @]
    /\ UNCHANGED reader

(* Stop, expiry and CloseAll cancel the context of the session.            *)
Cancel ==
    /\ ~reader.cancelled /\ reader.end = ""
    /\ reader' = [reader EXCEPT !.cancelled = TRUE]
    /\ UNCHANGED link

(* The goroutine beside the reader of a socket closes it, and so does the  *)
(* transport of a response; what was received may still be read.           *)
WatchedOpening == reader.cancelled /\ (link.body = "socket" => At("opened"))

Watched == reader.cancelled

Watch ==
    /\ Watched /\ link.up
    /\ link' = [link EXCEPT !.up = FALSE]
    /\ UNCHANGED reader

-----------------------------------------------------------------------------
(* The end of a reader, as Start tells the session.                        *)
Returned(r, err) == [r EXCEPT !.pc = "over", !.end = IF r.cancelled THEN "cancelled" ELSE IF err THEN "error" ELSE "ended"]

Return(err) == reader' = Returned(reader, err)

(* The dial, or the request and the head of its response.  The body is     *)
(* read as what the server says it is.                                     *)
AsAsked(asked, body) == IF asked = "gateway" THEN "lines" ELSE "envelopes"

Dispatch(asked, body) ==
    CASE body = "envelopes"                                -> "envelopes"
      [] body = "lines" /\ asked = "gateway"               -> "lines"
      [] OTHER                                             -> "refused"

Open ==
    /\ At("open")
    /\ \/ Return(TRUE)
       \/ /\ ~reader.cancelled
          /\ IF link.asked = "graphql" THEN reader' = [reader EXCEPT !.pc = "opened"]
             ELSE IF Dispatch(link.asked, link.body) = "refused" THEN Return(TRUE)
             ELSE reader' = [reader EXCEPT !.pc = Dispatch(link.asked, link.body)]
    /\ UNCHANGED link

Take(pc) ==
    /\ At(pc) /\ link.wire # <<>>
    /\ link' = [link EXCEPT !.wire = Tail(@)]

Item == Head(link.wire)
Push(n) == reader' = [reader EXCEPT !.pushed = Append(@, n)]

(* Nothing is left to read on a connection that is down.  A line that was  *)
(* cut comes before the error.                                             *)
ReadFails ==
    /\ reader.pc \in {"opened", "socket", "lines", "envelopes"} /\ ~link.up /\ link.wire = <<>>
    /\ Return(TRUE) /\ UNCHANGED link

(* Subscribe: pings are answered until the acknowledgement, and nothing    *)
(* else is taken; the subscription cannot be sent on a broken connection.  *)
AnyAnswer(k) == k # "ping"

Acknowledges(k) == k = "ack"

Handshake ==
    /\ Take("opened")
    /\ CASE Item.kind = "ping"       -> UNCHANGED reader
         [] Acknowledges(Item.kind)  -> \/ reader' = [reader EXCEPT !.pc = "socket"]
                                        \/ ~link.up /\ Return(TRUE)
         [] OTHER                    -> Return(TRUE)

AnyClose(k) == k \in {"close", "eof"}

CleanClose(k) == k = "close"

ReadSocket ==
    /\ Take("socket")
    /\ CASE Item.kind = "next"                                  -> Push(Item.n)
         [] Item.kind = "complete" \/ CleanClose(Item.kind)     -> Return(FALSE)
         [] Item.kind \in {"error", "close", "eof", "part"} /\ ~CleanClose(Item.kind)
                                                                -> Return(TRUE)
         [] OTHER                                               -> UNCHANGED reader

(* consumeNDJSON: a bare line is a message, and so is the first part of a  *)
(* line that was cut.                                                      *)
ErrorIsBare(k) == FALSE

ErrorFrame(k) == k = "error"

ReadLines ==
    /\ Take("lines")
    /\ CASE ErrorFrame(Item.kind) \/ Item.kind = "big"  -> Return(TRUE)
         [] Item.kind = "eof"                           -> Return(FALSE)
         [] Item.kind = "blank"                         -> UNCHANGED reader
         [] OTHER                                       -> Push(Item.n)

(* consumeConnect: whatever is wrong with an envelope ends the stream, and *)
(* only the message that ends it ends it well.                             *)
CleanAtEof(k) == k \in {"end", "eof"}

CleanEnd(k) == k = "end"

ReadEnvelopes ==
    /\ Take("envelopes")
    /\ CASE Item.kind = "message"   -> Push(Item.n)
         [] CleanEnd(Item.kind)     -> Return(FALSE)
         [] OTHER                   -> Return(TRUE)

Reads == Open \/ ReadFails \/ Handshake \/ ReadSocket \/ ReadLines \/ ReadEnvelopes

Next ==
    \/ \E k \in Messages \union Notes : Says(k)
    \/ \E k \in DOMAIN Verdicts : Ends(k)
    \/ Breaks \/ Cancel \/ Watch \/ Reads

Spec == Init /\ [][Next]_vars

(* The reader goes on when there is something to read or to fail on, and   *)
(* the goroutine beside it runs.                                           *)
Fairness == WF_vars(Reads) /\ WF_vars(Watch)

LiveSpec == Spec /\ Fairness

-----------------------------------------------------------------------------
(* Properties. *)

(* The frames of a session are the messages of the server, each once and   *)
(* in its order, however the stream is framed and wherever it is cut; only *)
(* the last may be a part of one, and only of a stream that does not end   *)
(* well (grpc_stream.go:133, graphql_ws.go:178, grpc_connect.go:106).      *)
FramesTrue ==
    LET p == reader.pushed
    IN  \A i \in DOMAIN p : p[i] = i \/ (p[i] = 0 /\ i = Len(p) /\ reader.end # "ended")

(* A stream that is reported as ended was brought to its end by the server *)
(* and has lost nothing: no failure is "guessed at" (grpc_connect.go:25).  *)
EndTrue ==
    reader.end = "ended" => link.verdict = "done" /\ reader.pushed = [i \in 1 .. link.said |-> i]

ReadersTrue == FramesTrue /\ EndTrue

(* "closing the conn unblocks any pending ReadJSON, so Stop/expiry/        *)
(* CloseAll tear the socket down promptly" (graphql_ws.go:127): the        *)
(* assumption on which the sessions' own liveness rests.                   *)
CancelEnds == reader.cancelled ~> reader.end # ""
=============================================================================
