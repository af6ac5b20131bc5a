------------------------------- MODULE Tools -------------------------------
(***************************************************************************)
(* What stands between the model and a tool.  In the scene "dispatch" the  *)
(* orchestrator handles the calls of the model one after the other; in the *)
(* scene "mcp" goroutines share the client of a server whose tools were    *)
(* adopted.  The scenes share no state.                                    *)
(***************************************************************************)
EXTENDS ToolDispatch, Integers

CONSTANTS
    RemoteTool,       \* the names that a server may give to its tools
    Callers, Endpoint, Hosts, Catalogs, Bodies, RegistryName(_),
    MaxTools, MaxPages, MaxRedirects, MaxRequests

(* A catalog has a page, a message is one of those that a client tells     *)
(* apart, and a body without any is an empty batch or an event stream.     *)
ASSUME ServerAssumption ==
    /\ \A k \in Catalogs : k.pages \in Seq(Seq(RemoteTool)) /\ k.pages # <<>> /\ k.loops \in BOOLEAN
    /\ \A b \in Bodies :
          /\ b.messages \in Seq({"own", "other", "request", "notification"})
          /\ b.messages = <<>> => b.form \in {"batch", "events"}

ASSUME LimitAssumption == MaxTools \in Nat /\ MaxPages \in Nat \ {0}

VARIABLES
    scene,            \* what the behaviour is about
    catalog, nextID, session, dropped, ready, flow, executors, allowed, server, asked

Mcp == INSTANCE McpClient WITH history <- asked

mcp == <<catalog, nextID, session, dropped, ready, flow, executors, allowed, server, asked>>

-----------------------------------------------------------------------------
TInit == scene \in {"dispatch", "mcp"} /\ Init /\ Mcp!Init

TNext ==
    /\ UNCHANGED scene
    /\ \/ scene = "dispatch" /\ Next /\ UNCHANGED mcp
       \/ scene = "mcp" /\ Mcp!Next /\ UNCHANGED vars

TSpec == TInit /\ [][TNext]_<<vars, mcp, scene>>

-----------------------------------------------------------------------------
(* What calls of a server's tools rest on (transport_http.go, client.go).  *)
McpKept == Mcp!McpKept
=============================================================================
