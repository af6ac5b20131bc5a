------------------------------- MODULE Forge -------------------------------
(***************************************************************************)
(* The runtime of forged APIs.  In the scene "token" calls share a token   *)
(* manager; in the scene "stream" users share the stream sessions of an    *)
(* integration; in the scene "reader" the goroutine of one session reads   *)
(* its stream.  The scenes share no state.                                 *)
(***************************************************************************)
EXTENDS TokenCalls, Sequences

CONSTANTS
    Ids, Callers, NoSession,
    Limits,           \* the limits of a stream manager, and who uses it with which frames
    MaxSessions, MaxBytes, MaxFrameBytes, MarkerBytes, PollBytes, IdleTTL,
    MaxItems

(* A ring has room for a frame: sizes that are not positive are replaced   *)
(* by their defaults (stream.go:60).                                       *)
ASSUME StreamAssumption ==
    /\ Limits \subseteq [ids : SUBSET Ids, sizes : SUBSET Nat, pushes : Nat, maxFrames : Nat \ {0},
                         maxLifetime : Nat, pollFrames : Nat]
    /\ {MaxSessions, MaxBytes, MaxFrameBytes, MarkerBytes, PollBytes, IdleTTL, MaxItems} \subseteq Nat

VARIABLES
    scene,            \* what the behaviour is about
    limits,           \* one of Limits
    sess, table, closed, closing, caller, got, link, reader

Stream == INSTANCE StreamSessions WITH None <- NoSession, Setups <- Limits, setup <- limits

Reader == INSTANCE StreamReaders

stream == <<limits, sess, table, closed, closing, caller, got>>

-----------------------------------------------------------------------------
FInit == scene \in {"token", "stream", "reader"} /\ Init /\ Stream!Init /\ Reader!Init

FNext ==
    /\ UNCHANGED scene
    /\ \/ scene = "token" /\ Next /\ UNCHANGED <<stream, link, reader>>
       \/ scene = "stream" /\ Stream!Next /\ UNCHANGED <<vars, link, reader>>
       \/ scene = "reader" /\ Reader!Next /\ UNCHANGED <<vars, stream>>

FSpec == FInit /\ [][FNext]_<<vars, stream, link, reader, scene>>

-----------------------------------------------------------------------------
(* What two users see of the sessions they share (stream.go:185, :238),    *)
(* and what the goroutine of a session reads from its stream.              *)
SessionsKept == Stream!SessionsKept /\ []Reader!ReadersTrue
=============================================================================
