----------------------------- MODULE McpClient -----------------------------
(***************************************************************************)
(* The client of one MCP server: the handshake, the paged listing of       *)
(* tools, their adoption, and the requests that goroutines make on the one *)
(* client at the same time.  A tool is its remote name.  A body is a       *)
(* sequence of messages: a response to this request or to another one, a   *)
(* request of the server that has the same identifier, or a notification.  *)
(* Redirects, failures, timeouts and changes of the egress policy may come *)
(* at any moment; a server gives out a session with the handshake.         *)
(***************************************************************************)
EXTENDS Integers, Sequences, FiniteSets, SequencesExt, Ordered

CONSTANTS
    Callers,          \* goroutines that share the client
    Endpoint, Hosts,  \* where requests go, and where they may be redirected
    Catalogs,         \* [pages, loops]: what a server offers; a looping one names its last page as the next
    Bodies,           \* [form, messages]
    RegistryName(_),  \* registryName, "" for a blank name
    MaxTools, MaxPages, MaxRedirects,
    MaxRequests       \* bound on the requests of a behaviour

VARIABLES
    catalog,    \* one of Catalogs; it never changes
    nextID, session, dropped,
    ready,      \* Connect has returned the client
    flow,       \* what each goroutine is doing
    executors,  \* the tools that were adopted
    allowed,    \* the hosts that the egress policy allows
    server,     \* the session that the server gave out, 0 if none
    history     \* what the properties compare with

client == <<nextID, session, dropped>>
vars   == <<catalog, client, ready, flow, executors, allowed, server, history>>

Idle == [pc |-> "idle", op |-> "none", method |-> "none", id |-> 0, sid |-> 0, host |-> Endpoint,
         hops |-> 0, page |-> 0, tools |-> <<>>, took |-> "none", end |-> "none"]

Init ==
    /\ catalog \in Catalogs
    /\ nextID = 0 /\ session = 0 /\ dropped = 0 /\ ready = FALSE
    /\ flow = [c \in Callers |-> Idle]
    /\ executors = <<>> /\ allowed \in SUBSET Hosts /\ server = 0
    /\ history = [c \in Callers |-> [requests |-> 0, permitted |-> {}, due |-> FALSE, misled |-> FALSE]]

At(c, pc) == flow[c].pc = pc

-----------------------------------------------------------------------------
(* Requests: each gets the next identifier under the mutex, and the        *)
(* acknowledgement of the handshake none.                                  *)
Unnumbered(method) == nextID

Numbered(method) == IF method = "notify" THEN nextID ELSE nextID + 1

Requested(c, f, method) ==
    /\ nextID' = Numbered(method)
    /\ flow' = [flow EXCEPT ![c] = [f EXCEPT !.pc = "guard", !.method = method, !.host = Endpoint, !.hops = 0,
                                             !.id = IF method = "notify" THEN 0 ELSE nextID']]
    /\ history' = [history EXCEPT ![c].requests = IF At(c, "idle") THEN 1 ELSE @ + 1,
                                  ![c].permitted = allowed, ![c].due = FALSE,
                                  ![c].misled = @ /\ ~At(c, "idle")]

Begin(c, op, method) ==
    /\ At(c, "idle") /\ nextID < MaxRequests
    /\ Requested(c, [Idle EXCEPT !.op = op], method)
    /\ UNCHANGED <<session, ready, executors, server>>

Connect(c) == nextID = 0 /\ Begin(c, "connect", "initialize") /\ UNCHANGED dropped

CallTool(c) == ready /\ executors # <<>> /\ Begin(c, "call", "call") /\ UNCHANGED dropped

(* A consumer "re-lists on its own schedule" (transport_http.go). *)
ListTools(c) == ready /\ Begin(c, "list", "list") /\ dropped' = 0

Ended(f, end, tools) == [Idle EXCEPT !.op = f.op, !.end = end, !.tools = tools]

(* An error ends the operation, but not one of the acknowledgement. *)
Fail(c) ==
    /\ flow' = [flow EXCEPT ![c] = IF @.method = "notify" THEN [@ EXCEPT !.pc = "notified"]
                                                          ELSE Ended(@, "failed", <<>>)]
    /\ UNCHANGED <<client, ready, executors, server, history>>

-----------------------------------------------------------------------------
(* post: the policy is asked before every request and at every hop.        *)
RefusesFirst(host) == ~ready /\ host \notin allowed

Refuses(host) == host \notin allowed

Guard(c) ==
    /\ At(c, "guard")
    /\ IF Refuses(Endpoint) THEN Fail(c)
       ELSE /\ flow' = [flow EXCEPT ![c].pc = "send"]
            /\ UNCHANGED <<client, ready, executors, server, history>>

(* The session that the client has by now goes with it. *)
Send(c) ==
    /\ At(c, "send")
    /\ flow' = [flow EXCEPT ![c].pc = "sent", ![c].sid = session]
    /\ UNCHANGED <<client, ready, executors, server, history>>

(* The request itself counts as the first of the chain. *)
TooFar(hops) == hops + 1 >= MaxRedirects

Redirect(c, host) ==
    /\ At(c, "sent")
    /\ IF TooFar(flow[c].hops) \/ Refuses(host) THEN Fail(c)
       ELSE /\ flow' = [flow EXCEPT ![c].host = host, ![c].hops = @ + 1]
            /\ UNCHANGED <<client, ready, executors, server, history>>

(* The head of the answer: a session it names is the client's from now on, *)
(* whatever becomes of the body.                                           *)
NotAdopted(sid) == session

Adopted(sid) == IF sid # 0 THEN sid ELSE session

Answer(c, sid) ==
    /\ At(c, "sent")
    /\ sid \in (IF flow[c].method = "initialize" THEN {0, 1} ELSE {0, server})
    /\ server' = IF sid # 0 THEN sid ELSE server
    /\ session' = Adopted(sid)
    /\ flow' = [flow EXCEPT ![c].pc = "body"]
    /\ UNCHANGED <<nextID, dropped, ready, executors, history>>

(* The timeout of the round trip or the caller's context; a network error; *)
(* a body that breaks off, is too large, has an error status or is empty.  *)
(* Which kind of error that is to the model is left out.                   *)
GiveUp(c) == flow[c].pc \in {"sent", "body"} /\ Fail(c)

-----------------------------------------------------------------------------
(* pickMessage: the response to this request, else any response, else the  *)
(* first message.  A body of one message has no choice.                    *)
PickResponse(ms) ==
    IF \E i \in DOMAIN ms : ms[i] \in {"own", "other"}
      THEN SelectSeq(ms, LAMBDA m : m \in {"own", "other"})[1] ELSE ms[1]

PickMessage(ms) ==
    IF "own" \in ToSet(ms) THEN "own"
    ELSE IF "other" \in ToSet(ms) THEN "other" ELSE ms[1]

(* An event stream without a message is an error; an empty batch is none,  *)
(* and picking from it is out of range.  What has a method has no result.  *)
Parse(c, body) ==
    /\ At(c, "body") /\ flow[c].method # "notify"
    /\ CASE body.messages = <<>> /\ body.form = "batch" ->
              /\ flow' = [d \in Callers |-> [flow[d] EXCEPT !.pc = "panicked"]]
              /\ UNCHANGED <<client, ready, executors, server, history>>
         [] body.messages = <<>> /\ body.form = "events" -> Fail(c)
         [] OTHER ->
              LET took == PickMessage(body.messages)
              IN  IF took \in {"request", "notification"} THEN Fail(c)
                  ELSE /\ flow' = [flow EXCEPT ![c].pc = "parsed", ![c].took = took]
                       /\ history' = [history EXCEPT ![c].due = "own" \in ToSet(body.messages),
                                                     ![c].misled = @ \/ took = "other"]
                       /\ UNCHANGED <<client, ready, executors, server>>

(* An error of the server, or a result that is not what was asked for.     *)
Reject(c) == At(c, "parsed") /\ Fail(c)

-----------------------------------------------------------------------------
(* Executors: blank names are skipped, of equal registry names the first   *)
(* counts.                                                                 *)
Shadowing(tools, i) == RegistryName(tools[i]) # ""

Adoptable(tools, i) ==
    RegistryName(tools[i]) # "" /\ \A j \in 1 .. (i - 1) : RegistryName(tools[j]) # RegistryName(tools[i])

Executors(tools) == Chosen(tools, {i \in DOMAIN tools : Adoptable(tools, i)})

Offered(n)  == IF n <= Len(catalog.pages) THEN catalog.pages[n] ELSE Last(catalog.pages)
HasNext(n)  == n < Len(catalog.pages) \/ catalog.loops

(* A page of the list.  The response to another request reads as an empty  *)
(* last page.  The cap is looked at before the cursor, and the pages are   *)
(* counted.                                                                *)
LastPage(tools, n, more) == Len(tools) >= MaxTools \/ ~more

Untrimmed(tools) == tools

Trimmed(tools) == IF Len(tools) > MaxTools THEN SubSeq(tools, 1, MaxTools) ELSE tools

Listed(c, tools) ==
    /\ flow' = [flow EXCEPT ![c] = Ended(@, "ok", Trimmed(tools))]
    /\ dropped' = IF Len(tools) >= MaxTools THEN Len(tools) - MaxTools ELSE dropped
    /\ executors' = Executors(flow'[c].tools)
    /\ ready' = TRUE
    /\ UNCHANGED <<nextID, session, server, history>>

OnePageMore(n) == n <= MaxPages

PageLeft(n) == n < MaxPages

ReadPage(c) ==
    /\ At(c, "parsed") /\ flow[c].method = "list"
    /\ LET own   == flow[c].took = "own"
           n     == flow[c].page + 1
           tools == flow[c].tools \o (IF own THEN Offered(n) ELSE <<>>)
       IN  IF LastPage(tools, n, own /\ HasNext(n)) THEN Listed(c, tools)
           ELSE IF PageLeft(n)
             THEN /\ Requested(c, [flow[c] EXCEPT !.tools = tools, !.page = n, !.took = "none"], "list")
                  /\ UNCHANGED <<session, dropped, executors, ready, server>>
             ELSE Fail(c)

(* The handshake and its acknowledgement, and then the first page.         *)
Initialized(c) ==
    /\ At(c, "parsed") /\ flow[c].method = "initialize"
    /\ Requested(c, flow[c], "notify")
    /\ UNCHANGED <<session, dropped, executors, ready, server>>

Acknowledged(c) ==
    /\ At(c, "body") /\ flow[c].method = "notify"
    /\ flow' = [flow EXCEPT ![c].pc = "notified"]
    /\ UNCHANGED <<client, ready, executors, server, history>>

FirstPage(c) ==
    /\ At(c, "notified")
    /\ Requested(c, [flow[c] EXCEPT !.took = "none"], "list")
    /\ dropped' = 0
    /\ UNCHANGED <<session, executors, ready, server>>

CallReturns(c) ==
    /\ At(c, "parsed") /\ flow[c].method = "call"
    /\ flow' = [flow EXCEPT ![c] = Ended(@, "ok", <<>>)]
    /\ UNCHANGED <<client, ready, executors, server, history>>

(* The policy changes, as when a name resolves to another address. *)
PolicyChanges ==
    /\ \E hosts \in SUBSET Hosts :
          /\ hosts # allowed /\ allowed' = hosts
          /\ history' = [c \in Callers |-> [history[c] EXCEPT !.permitted = IF At(c, "idle") THEN @ ELSE @ \union hosts]]
    /\ UNCHANGED <<client, ready, flow, executors, server>>

Step(c) ==
    \/ Connect(c) \/ CallTool(c) \/ ListTools(c)
    \/ Guard(c) \/ Send(c) \/ \E sid \in 0 .. 1 : Answer(c, sid)
    \/ \E host \in Hosts : Redirect(c, host)
    \/ GiveUp(c) \/ Reject(c) \/ \E body \in Bodies : Parse(c, body)
    \/ Initialized(c) \/ Acknowledged(c) \/ FirstPage(c) \/ ReadPage(c) \/ CallReturns(c)

Next ==
    /\ UNCHANGED catalog
    /\ \/ PolicyChanges
       \/ (\E c \in Callers : Step(c)) /\ UNCHANGED allowed

Spec == Init /\ [][Next]_vars

-----------------------------------------------------------------------------
(* Properties. *)

(* Several goroutines at a time: every request under way has an identifier *)
(* of its own, and a body that has the response to it yields that response *)
(* and no other, whatever else it carries (transport_http.go:242).         *)
OwnResponse ==
    /\ \A c, d \in Callers : c # d /\ ~At(c, "idle") /\ flow[c].id # 0 => flow[c].id # flow[d].id
    /\ \A c \in Callers : At(c, "parsed") /\ history[c].due => flow[c].took = "own"

(* "The endpoint is re-authorized by the guard on every call"              *)
(* (transport_http.go:100), and so is every hop: no request reaches a host *)
(* that the policy has refused ever since the request began.               *)
Authorized == \A c \in Callers : flow[c].pc \in {"sent", "body"} => flow[c].host \in history[c].permitted

(* The session "which the client echoes on every subsequent request"       *)
(* (transport_http.go:45) is the one that the server gave out, also when   *)
(* several requests are under way.                                         *)
SessionEchoed ==
    \A c \in Callers : flow[c].pc \in {"sent", "body"} /\ flow[c].method # "initialize" => flow[c].sid = server

(* A listing ends after a bounded number of requests although the server   *)
(* names one page as the next for ever, takes no more tools than allowed,  *)
(* and below the cap it is whole, unless another response was taken for    *)
(* a page of it (client.go:302).                                           *)
ListingBounded ==
    \A c \in Callers :
        /\ history[c].requests <= MaxPages + 2
        /\ flow[c].op # "call" /\ flow[c].end = "ok" =>
             /\ Len(flow[c].tools) <= MaxTools
             /\ Len(flow[c].tools) < MaxTools /\ ~history[c].misled => flow[c].tools = FlattenSeq(catalog.pages)

(* No two adopted tools have one name, and none is adopted under the name  *)
(* of a tool listed before it (executor.go:20).                            *)
NamesUnique ==
    \A i, j \in DOMAIN executors : i # j => RegistryName(executors[i]) # RegistryName(executors[j])

(* What calls of a server's tools rest on, with several under way. *)
McpKept == OwnResponse /\ Authorized /\ SessionEchoed /\ ListingBounded /\ NamesUnique
=============================================================================
