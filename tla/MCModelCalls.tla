---------------------------- MODULE MCModelCalls ----------------------------
(***************************************************************************)
(* Calls of the setups of MCProvider, and SecretNAT around them on small   *)
(* instances.  Sessions: one conversation whose secrets, style and switch  *)
(* change between requests; and two whose tables expire, are closed and    *)
(* are lost in a restart, or have switches of their own.  Stream: tokens   *)
(* with a marker and a number, one number that is the beginning of another *)
(* (three digits that have run over) and minted later, and a token framed  *)
(* like a private key's.                                                   *)
(***************************************************************************)
EXTENDS ModelCalls, MCProvider

CONSTANTS c1, v1, v2, v3, n1

Requests ==
    [convs |-> {c1}, values |-> {v1, v2, v3}, detectable |-> {v1, v2}, short |-> {v2}, names |-> {n1},
     modes |-> {"semantic", "private"}, expires |-> FALSE, mayDisable |-> TRUE, mayOverride |-> FALSE,
     tables |-> 1, turns |-> 2, restarts |-> 0]

Tables ==
    [convs |-> Convs, values |-> {v1, v2}, detectable |-> {v1, v2}, short |-> {}, names |-> {},
     modes |-> {"semantic"}, expires |-> TRUE, mayDisable |-> FALSE, mayOverride |-> FALSE,
     tables |-> 3, turns |-> 1, restarts |-> 1]

Overridden ==
    [convs |-> Convs, values |-> {v1}, detectable |-> {v1}, short |-> {}, names |-> {},
     modes |-> {"semantic"}, expires |-> FALSE, mayDisable |-> TRUE, mayOverride |-> TRUE,
     tables |-> 2, turns |-> 1, restarts |-> 0]

All == {Requests, Tables, Overridden}

First == <<"p", "1">>

Tenth == <<"p", "1", "0">>

Key == <<"-", "p", "-">>

Minted == {First, Tenth, Key}

Letters == {"p", "1", "0", "-"}

Places == [t \in Minted |->
    CASE t = First -> "first" [] t = Tenth -> "tenth" [] OTHER -> "key"]

ASSUME TokensAssumption == Stream!TokensFinite
=============================================================================
