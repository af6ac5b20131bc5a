----------------------------- MODULE ModelCalls -----------------------------
(***************************************************************************)
(* What stands between a run and its model.  In the scene "call" the loops *)
(* around one request are under way; in the scene "secret" SecretNAT,      *)
(* which wraps the provider (natprovider.go), translates what requests     *)
(* carry and what tools are called with; in the scene "stream" it restores *)
(* one streamed text.  The scenes share no state.                          *)
(***************************************************************************)
EXTENDS ProviderCall

CONSTANTS
    Convs, Values, Names,
    NatSetups,        \* what the conversations, the user and the manager may do
    StreamTokens, StreamValue, StreamSymbols, MaxText, MaxChunk

VARIABLES
    scene,            \* what the behaviour is about
    natSetup,         \* one of NatSetups
    table, sessions, held, closed, known, enabled, mode, conv, wire, told, got, restarts,
    fed, tail, out, ended, born

Secrets == INSTANCE SecretSessions WITH Setups <- NatSetups, setup <- natSetup

Stream == INSTANCE SecretStream WITH Tokens <- StreamTokens, Value <- StreamValue, Symbols <- StreamSymbols

secrets == <<natSetup, table, sessions, held, closed, known, enabled, mode, conv, wire, told, got, restarts>>

text == <<fed, tail, out, ended, born>>

(* The texts that may be secrets are finitely many in any run, so that the *)
(* numbers of a table count them.                                          *)
ASSUME NatAssumption == NatSetups \subseteq Secrets!Setup /\ IsFiniteSet(Values)

-----------------------------------------------------------------------------
CInit ==
    /\ scene \in {"call", "secret", "stream"} /\ Init /\ Secrets!Init /\ Stream!Init
    /\ scene # "call" => setup = CHOOSE s \in Setups : TRUE
    /\ scene # "secret" => natSetup = CHOOSE s \in NatSetups : TRUE

CNext ==
    /\ UNCHANGED scene
    /\ \/ scene = "call" /\ Next /\ UNCHANGED <<secrets, text>>
       \/ scene = "secret" /\ Secrets!Next /\ UNCHANGED <<vars, text>>
       \/ scene = "stream" /\ Stream!Next /\ UNCHANGED <<vars, secrets>>

CSpec == CInit /\ [][CNext]_<<vars, secrets, text, scene>>

(* As in LiveSpec, the goroutine of a call goes on.                        *)
LiveCSpec == CSpec /\ WF_<<vars, secrets, text, scene>>(scene = "call" /\ Work /\ UNCHANGED <<secrets, text, scene>>)

-----------------------------------------------------------------------------
(* Every call returns, whatever the server does and whenever it is         *)
(* cancelled.                                                              *)
EveryCallEnds == scene = "call" => CallsEnd

(* A token leads back to the value it was written for, and to no value of  *)
(* another conversation (secretnat.go, mapping.go).                        *)
TokensReversible == Secrets!TokensReversible

(* Requests tell no secret, repeat what the provider has cached, and      *)
(* never take a token back (sanitize.go).                                  *)
RequestsTranslated == Secrets!RequestsTranslated

(* A stream shows what the whole text shows, and at once (stream.go).      *)
StreamExact == Stream!StreamExact

(* "Complete tokens inside s are NOT held (the restore call handles them)" *)
(* (stream.go:57): so whatever the tokens are.                             *)
StreamEqualsWhole == Stream!StreamEqualsWhole
=============================================================================
