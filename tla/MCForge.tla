------------------------------ MODULE MCForge ------------------------------
(***************************************************************************)
(* The runtime of forged APIs on small instances.  Two calls share a token *)
(* manager: of one owner, of an owner and a delegate, and with a token     *)
(* from the environment.  Two users share the stream sessions: one session *)
(* with a ring that overflows; and two, of which one may live, that are    *)
(* started, stopped and expired.  One reader reads from a server of each   *)
(* protocol.                                                               *)
(***************************************************************************)
EXTENDS Forge

CONSTANTS owner, other

Kinds ==
    {[static |-> FALSE, delegated |-> {}], [static |-> FALSE, delegated |-> {other}],
     [static |-> TRUE, delegated |-> {}]}

CONSTANTS first, second

Rings ==
    [ids |-> {first}, sizes |-> {1, 3}, pushes |-> 3, maxFrames |-> 2, maxLifetime |-> 2, pollFrames |-> 2]

Lives ==
    [ids |-> {first, second}, sizes |-> {}, pushes |-> 0, maxFrames |-> 1, maxLifetime |-> 0, pollFrames |-> 1]

RingsAndLives == {Rings, Lives}

(* What a scene is not about starts in one way.                            *)
MCInit ==
    /\ FInit
    /\ scene # "token" => setup = CHOOSE k \in Kinds : TRUE
    /\ scene # "stream" => limits = Lives
    /\ scene # "reader" => link.body = "socket"

MCSpec ==
    /\ MCInit /\ [][FNext]_<<vars, stream, link, reader, scene>>
    /\ \A c \in Calls : WF_vars(scene = "token" /\ Goes(c)) /\ SF_vars(scene = "token" /\ Locks(c))
    /\ Stream!Fairness
    /\ WF_<<link, reader>>(scene = "reader" /\ Reader!Reads) /\ WF_<<link, reader>>(scene = "reader" /\ Reader!Watch)

(* Every call comes to an end, with the mutex free (token.go:101).         *)
CallsComplete == scene = "token" => CallsEnd

(* A call comes to its end, and a request ends after its lifetime, polled  *)
(* or not, for the reader of a cancelled session returns (token.go:101,    *)
(* stream.go:14).                                                          *)
EverythingEnds == CallsComplete /\ Stream!RequestsEnd /\ Reader!CancelEnds
=============================================================================
