---------------------------- MODULE SecretStream ----------------------------
(***************************************************************************)
(* The stream restorer of SecretNAT: text arrives in chunks, a token may   *)
(* lie across them, and what cannot be the start of a token goes out at    *)
(* once.  Text is a sequence of symbols; the value of a token is a symbol  *)
(* that occurs in no text.  The table may grow while the text arrives.     *)
(* What the stream shows is compared with the translation of the whole     *)
(* text.                                                                   *)
(***************************************************************************)
EXTENDS Integers, Sequences, FiniteSets, FiniteSetsExt

CONSTANTS
    Tokens,      \* the tokens that the session may have
    Value,       \* what each of them stands for
    Symbols,     \* the symbols of the text
    MaxText,     \* bound on the text
    MaxChunk     \* and on a chunk

(* strings.HasPrefix(s[p-1:], t).                                          *)
StandsAt(t, s, p) == p + Len(t) - 1 <= Len(s) /\ \A i \in 1 .. Len(t) : s[p + i - 1] = t[i]

TokensFinite ==
    /\ IsFiniteSet(Tokens) /\ Tokens \subseteq Seq(Symbols) \ {<<>>}
    /\ \A t \in Tokens : Value[t] \notin Symbols

(* No token of a table ends in the beginning of another or of itself.  So  *)
(* it is of the tokens generator.go makes of a marker and a number, and of *)
(* names in braces.  It is not of a private key's                          *)
(* (detectors_builtin.go:103), which begins and ends in dashes, nor of a   *)
(* JWT's (:122) beside one made for an assignment: SNATSIGNATURE ends as   *)
(* ENVKV_SNAT begins.                                                      *)
Apart(M) == \A t, u \in M : \A n \in 1 .. Len(t) - 1 : ~StandsAt(SubSeq(t, n + 1, Len(t)), u, 1)

VARIABLES
    fed,      \* the text of the chunks so far
    tail,     \* StreamRestorer.tail
    out,      \* what has been emitted
    ended,
    born      \* the tokens there are: how much of the text had come when each was minted

vars == <<fed, tail, out, ended, born>>

Init ==
    fed = <<>> /\ tail = <<>> /\ out = <<>> /\ ended = FALSE /\ born = [t \in {} |-> 0]

minted == DOMAIN born

-----------------------------------------------------------------------------
(* strings.ReplaceAll of a token t by v: what the last n symbols become.   *)
Rests(s, t, v) ==
    LET rest[n \in 0 .. Len(s)] ==
          LET p == Len(s) - n + 1
          IN  IF n = 0 THEN <<>>
              ELSE IF StandsAt(t, s, p) THEN <<v>> \o rest[n - Len(t)]
                                        ELSE <<s[p]>> \o rest[n - 1]
    IN  rest

Replace(s, t, v) == Rests(s, t, v)[Len(s)]

(* RestoreAll: one pass over the text for each token of the table, in an   *)
(* order of all tokens, the longest first.                                 *)
LongestFirst ==
    CHOOSE order \in [1 .. Cardinality(Tokens) -> Tokens] :
        \A i, j \in DOMAIN order : i < j => order[i] # order[j] /\ Len(order[i]) >= Len(order[j])

Pass(s, t, M) == IF t \in M THEN Replace(s, t, Value[t]) ELSE s

Passes(s, M) ==
    LET after[n \in 0 .. Cardinality(Tokens)] == IF n = 0 THEN s ELSE Pass(after[n - 1], LongestFirst[n], M)
    IN  after

Restore(s, M) == Passes(s, M)[Cardinality(Tokens)]

(* holdbackLen: the longest suffix that is a proper prefix of a token of   *)
(* the table as it is now.                                                 *)
MaxTokenLen(M) == Max({0} \union {Len(t) : t \in M})

Ambiguous(s, n, M) == \E t \in M : n < Len(t) /\ \A i \in 1 .. n : s[Len(s) - n + i] = t[i]

HoldShort(s, M) ==
    Max({0} \union {n \in 1 .. (MaxTokenLen(M) - 2) : n <= Len(s) /\ Ambiguous(s, n, M)})

HoldAlways(s, M) == Min({Len(s), Max({0, MaxTokenLen(M) - 1})})

Hold(s, M) ==
    Max({0} \union {n \in 1 .. (MaxTokenLen(M) - 1) : n <= Len(s) /\ Ambiguous(s, n, M)})

(* Feed: what is not held back goes out restored. *)
Feed(chunk) ==
    /\ ~ended /\ Len(fed) + Len(chunk) <= MaxText
    /\ fed' = fed \o chunk
    /\ LET s == tail \o chunk
           cut == Len(s) - Hold(s, minted)
       IN  /\ out' = out \o Restore(SubSeq(s, 1, cut), minted)
           /\ tail' = SubSeq(s, cut + 1, Len(s))
    /\ UNCHANGED <<ended, born>>

Flush ==
    /\ ~ended /\ ended' = TRUE
    /\ out' = out \o Restore(tail, minted)
    /\ tail' = <<>>
    /\ UNCHANGED <<fed, born>>

(* Another user of the session has a token minted, or one was before.      *)
Mint(t) ==
    /\ ~ended /\ t \in Tokens \ minted
    /\ born' = [u \in minted \union {t} |-> IF u = t THEN Len(fed) ELSE born[u]]
    /\ UNCHANGED <<fed, tail, out, ended>>

Next ==
    \/ Flush
    \/ \E n \in 1 .. MaxChunk : \E chunk \in [1 .. n -> Symbols] : Feed(chunk)
    \/ \E t \in Tokens : Mint(t)

Spec == Init /\ [][Next]_vars

-----------------------------------------------------------------------------
(* Properties. *)

(* No token is written before it is minted: the model learns of it later.  *)
NoneEarly == \A t \in minted : \A p \in 1 .. born[t] : ~StandsAt(t, fed, p)

(* "restores synthetic tokens in a streamed text where a token may         *)
(* straddle chunk boundaries" and "Complete tokens inside s are NOT held   *)
(* (the restore call handles them)" (stream.go): however the text was cut, *)
(* and whatever was minted meanwhile, the stream shows what the            *)
(* translation of the whole text shows.                                    *)
StreamEqualsWhole == ended /\ NoneEarly => out = Restore(fed, minted)

(* "only genuinely ambiguous partials are" held (stream.go:58): what is    *)
(* held back is the start of a token and shorter than it.                  *)
HeldAmbiguous == tail # <<>> => Ambiguous(tail, Len(tail), minted)

(* The text of a stream is restored exactly where no token of the session  *)
(* ends in the beginning of one, and nothing is held back that could be    *)
(* shown, whatever the tokens are (stream.go).                             *)
StreamExact == (Apart(minted) => StreamEqualsWhole) /\ HeldAmbiguous
=============================================================================
